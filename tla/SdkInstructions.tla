-------------------------- MODULE SdkInstructions --------------------------
(***************************************************************************)
(* The SDK's instruction builders (sdk/src/instructions.ts) against the    *)
(* Accounts contexts of the program, which idl/pokeage.json repeats.       *)
(*                                                                         *)
(* An account is named by the role the program gives it: the PDA builders  *)
(* of sdk/src/pda.ts and the program's seeds give the same address, so     *)
(* their common role stands for it.  A list of accounts is positional.     *)
(***************************************************************************)
EXTENDS Borsh

Meta(role, signs, writes) == [role |-> role, signer |-> signs, writable |-> writes]
R(role)  == Meta(role, FALSE, FALSE)
W(role)  == Meta(role, FALSE, TRUE)
WS(role) == Meta(role, TRUE, TRUE)
RS(role) == Meta(role, TRUE, FALSE)

TokenAndSystem == <<R("token_program"), R("system_program")>>
Programs == <<R("token_program"), R("associated_token_program"), R("system_program")>>

-----------------------------------------------------------------------------
\* What each builder sends: the accounts, and the data after them.

Call(name, args) == [name |-> name, data |-> Disc(name, args)]

SinkKeys ==
    <<W("config"), W("buyback_pool"), W("player_state"), WS("player"), W("page_mint"),
      W("player_token"), W("pool_token")>> \o TokenAndSystem
SdkDeployAgent           == Call("deploy_agent", <<>>)
SdkCatchAttempt(rarity)  == Call("catch_attempt", U8(rarity))
SdkGymChallenge(badge)   == Call("gym_challenge", U8(badge))
SdkForceEvolve           == Call("force_evolve", <<>>)

InitializeKeys ==
    <<W("config"), W("buyback_pool"), WS("authority"), R("page_mint"), R("treasury"),
      R("buyback_vault"), R("system_program")>>
SdkInitialize(burnBps, poolBps, marketFeeBps, listingFee) ==
    Call("initialize", U16(burnBps) \o U16(poolBps) \o U16(marketFeeBps) \o U64(listingFee))

PoolAdminKeys == <<R("config"), W("buyback_pool"), WS("authority")>>
SdkUpdateFloor(floor)      == Call("update_floor", U64(floor))
SdkSetInstantSell(enabled) == Call("set_instant_sell", Bool(enabled))

SetPauseKeys == <<W("config"), WS("authority")>>
SdkSetPause(flags) == Call("set_pause", U8(flags))

WithdrawKeys == <<R("config"), W("treasury"), WS("authority"), R("system_program")>>
SdkWithdrawTreasury(amount) == Call("withdraw_treasury", U64(amount))

ListCardKeys ==
    <<W("config"), W("buyback_pool"), W("listing"), WS("seller"), R("card_mint"),
      W("seller_card"), W("escrow_card")>> \o TokenAndSystem
SdkListCard(price, tier, level, stage) ==
    Call("list_card", U64(price) \o U8(tier) \o U8(level) \o U8(stage))

BuyCardKeys ==
    <<W("config"), W("buyback_pool"), W("listing"), WS("buyer"), W("seller"),
      R("card_mint"), W("escrow_card"), W("buyer_card")>> \o TokenAndSystem
SdkBuyCard == Call("buy_card", <<>>)

InstantSellKeys ==
    <<R("config"), W("buyback_pool"), WS("seller"), R("card_mint"), W("seller_card"),
      W("vault_card")>> \o TokenAndSystem
SdkInstantSell == Call("instant_sell", <<>>)

BuilderKeys(name) ==
    CASE name \in {"deploy_agent", "catch_attempt", "gym_challenge", "force_evolve"} -> SinkKeys
      [] name = "initialize" -> InitializeKeys
      [] name \in {"update_floor", "set_instant_sell"} -> PoolAdminKeys
      [] name = "set_pause" -> SetPauseKeys
      [] name = "withdraw_treasury" -> WithdrawKeys
      [] name = "list_card" -> ListCardKeys
      [] name = "buy_card" -> BuyCardKeys
      [] name = "instant_sell" -> InstantSellKeys

-----------------------------------------------------------------------------
\* The contexts of the program: the accounts it takes, in order, with the
\* signatures and the write access it asks for.

SinkContext ==
    <<WS("player"), W("player_state"), W("config"), R("page_mint"), W("player_token"),
      W("pool_token"), R("token_program")>>

PoolAdminContext == <<RS("authority"), R("config"), W("buyback_pool")>>

DeployAgentContext == Append(SinkContext, R("system_program"))

InitializeContext ==
    <<WS("authority"), W("config"), W("buyback_pool"), R("page_mint"), R("treasury"),
      R("buyback_vault")>> \o TokenAndSystem

SetPauseContext == <<RS("authority"), W("config")>>

WithdrawContext == <<WS("authority"), R("config"), W("treasury")>>

ListCardContext ==
    <<WS("seller"), R("config"), W("buyback_pool"), R("card_mint"), W("listing"),
      W("seller_card"), W("escrow_card"), W("buyback_vault")>> \o Programs

BuyCardContext ==
    <<WS("buyer"), R("config"), W("buyback_pool"), W("listing"), W("seller"), R("card_mint"),
      W("buyer_card"), W("escrow_card"), W("buyback_vault"), W("treasury")>> \o Programs

InstantSellContext ==
    <<WS("seller"), R("config"), W("buyback_pool"), R("card_mint"), W("seller_card"),
      W("vault_card"), W("buyback_vault")>> \o Programs

Context(name) ==
    CASE name = "deploy_agent" -> DeployAgentContext
      [] name \in {"catch_attempt", "gym_challenge", "force_evolve"} -> SinkContext
      [] name = "initialize" -> InitializeContext
      [] name \in {"update_floor", "set_instant_sell"} -> PoolAdminContext
      [] name = "set_pause" -> SetPauseContext
      [] name = "withdraw_treasury" -> WithdrawContext
      [] name = "list_card" -> ListCardContext
      [] name = "buy_card" -> BuyCardContext
      [] name = "instant_sell" -> InstantSellContext

\* Each slot takes the account of its role only, with at least its rights.
Accepted(name, keys) ==
    LET context == Context(name) IN
    /\ Len(keys) >= Len(context)
    /\ \A i \in DOMAIN context :
          /\ keys[i].role = context[i].role
          /\ context[i].signer => keys[i].signer
          /\ context[i].writable => keys[i].writable
=============================================================================
