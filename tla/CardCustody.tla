---------------------------- MODULE CardCustody ----------------------------
(***************************************************************************)
(* What the marketplace promises about cards: every card has one owner,    *)
(* the seller of a card on sale is still its owner, an offer only ends by  *)
(* withdrawal (the owner keeps the card, and no money moves) or by sale to *)
(* a wallet, which leaves the former owner richer, and a card that went    *)
(* to the vault, or into an escrow without an offer, stays there.          *)
(***************************************************************************)
EXTENDS Integers

CONSTANTS
    Cards, Wallets,
    DeadEnds          \* the accounts no card leaves

VARIABLES owner, onSale, purse

custodyVars == <<owner, onSale, purse>>

CustodyInit == owner \in [Cards -> Wallets] /\ onSale = {}

Offer(c) ==
    /\ c \notin onSale /\ owner[c] \notin DeadEnds
    /\ onSale' = onSale \cup {c}
    /\ UNCHANGED owner

Withdraw(c) ==
    /\ c \in onSale
    /\ onSale' = onSale \ {c}
    /\ UNCHANGED <<owner, purse>>

Sell(c, w) ==
    /\ c \in onSale
    /\ onSale' = onSale \ {c}
    /\ owner' = [owner EXCEPT ![c] = w]
    /\ owner[c] # w => purse'[owner[c]] > purse[owner[c]]

\* A gift, to a dead end too, or a sale to the vault: never of a card on sale.
HandOver(c, w) ==
    /\ c \notin onSale /\ owner[c] \notin DeadEnds
    /\ owner' = [owner EXCEPT ![c] = w]
    /\ UNCHANGED onSale

\* Money moves for other reasons.
Pay == UNCHANGED <<owner, onSale>>

CustodyNext ==
    \/ Pay
    \/ \E c \in Cards :
        \/ Offer(c)
        \/ Withdraw(c)
        \/ \E w \in Wallets : Sell(c, w)
        \/ \E w \in Wallets \cup DeadEnds : HandOver(c, w)

CustodySpec == CustodyInit /\ [][CustodyNext]_custodyVars
=============================================================================
