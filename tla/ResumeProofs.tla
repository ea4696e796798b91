----------------------------- MODULE ResumeProofs -----------------------------
(***************************************************************************)
(* Proofs about SaveResume and OfflineCatchup for every world, every party *)
(* and box size, every cooldown and every absence: what a trainer restored *)
(* from a snapshot of any age still satisfies, what the summary of an      *)
(* absence says, and how long a lost gym rests.                            *)
(***************************************************************************)
EXTENDS OfflineCatchup, TrainerProofs

-----------------------------------------------------------------------------
\* A snapshot, and what every snapshot keeps that a trainer has to keep.
SnapshotType ==
    [team : Seq(Monsters), box : Seq(Monsters), badges : Seq(Towns), location : Towns,
     ball : Nat, totalCaught : Nat, strategy : StrategyType]

Sound(s) ==
    /\ s \in SnapshotType
    /\ Len(s.team) \in 1 .. PartySize /\ Len(s.box) <= BoxSize
    /\ \A i \in DOMAIN s.badges : s.badges[i] = i
    /\ s.location \in StartTowns \/ s.location <= Len(s.badges) + 1
    /\ s.ball + s.totalCaught <= InitialBalls + BallsPerBadge * Len(s.badges)
    /\ Unique(s.team \o s.box)

\* What a snapshot that shares with the live trainer has in common with it.
Shares ==
    /\ saved.badges = badges /\ saved.ball = ball
    /\ saved.totalCaught <= totalCaught

ResumeInv ==
    /\ Sound(Snapshot) /\ gymCooldown \in 0 .. GymCooldown
    /\ Sound(saved)
    /\ form = "object" => Shares

\* The live trainer is sound exactly when it has all that TrainerProofs shows
\* of it.
LEMMA SoundTrainer ==
    /\ TrainerTypeOK <=>
          /\ Snapshot \in SnapshotType /\ gymCooldown \in 0 .. GymCooldown
          /\ Len(team) \in 1 .. PartySize /\ Len(box) <= BoxSize
    /\ Sound(Snapshot) /\ gymCooldown \in 0 .. GymCooldown <=>
          TrainerTypeOK /\ BadgesInOrder /\ BallsAccounted /\ NoDuplicateSpecies
<1>1. TrainerTypeOK <=>
          /\ Snapshot \in SnapshotType /\ gymCooldown \in 0 .. GymCooldown
          /\ Len(team) \in 1 .. PartySize /\ Len(box) <= BoxSize
  BY DEF TrainerTypeOK, Snapshot, SnapshotType
<1>2. /\ Snapshot.team = team /\ Snapshot.box = box /\ Snapshot.badges = badges
      /\ Snapshot.location = location /\ Snapshot.ball = ball
      /\ Snapshot.totalCaught = totalCaught
  BY DEF Snapshot
<1>3. TrainerTypeOK => ball >= 0
  BY DEF TrainerTypeOK
<1>4. NoDuplicateSpecies <=> Unique(team \o box)
  BY DEF NoDuplicateSpecies, Unique
<1> HIDE DEF Snapshot
<1> QED
  BY <1>1, <1>2, <1>3, <1>4 DEF Sound, BadgesInOrder, BallsAccounted

\* The same of the trainer after a step.
LEMMA SoundTrainerNext ==
    ASSUME TrainerTypeOK', BadgesInOrder', BallsAccounted', NoDuplicateSpecies'
    PROVE  Sound(Snapshot') /\ gymCooldown' \in 0 .. GymCooldown
<1>1. /\ Snapshot' \in SnapshotType /\ gymCooldown' \in 0 .. GymCooldown
      /\ Len(team') \in 1 .. PartySize /\ Len(box') <= BoxSize
  BY DEF TrainerTypeOK, Snapshot, SnapshotType
<1>2. /\ Snapshot'.team = team' /\ Snapshot'.box = box' /\ Snapshot'.badges = badges'
      /\ Snapshot'.location = location' /\ Snapshot'.ball = ball'
      /\ Snapshot'.totalCaught = totalCaught'
  BY DEF Snapshot
<1>3. Unique(team' \o box')
  BY DEF NoDuplicateSpecies, Unique
<1> HIDE DEF Snapshot
<1> QED
  BY <1>1, <1>2, <1>3 DEF Sound, BadgesInOrder, BallsAccounted

\* A new trainer is sound, and so is the first snapshot.
LEMMA ResumeInit == SaveInit => ResumeInv
<1> SUFFICES ASSUME SaveInit PROVE ResumeInv
  OBVIOUS
<1>1. Sound(Snapshot) /\ gymCooldown \in 0 .. GymCooldown
  BY TypeInit, BadgesInit, BallsInit, NoDuplicateInit, SoundTrainer DEF SaveInit
<1> QED
  BY <1>1 DEF SaveInit, ResumeInv

\* What the live trainer does to an object that shares with it leaves the object
\* sound: its badges are later ones, its balls later ones, its catches earlier
\* ones.
LEMMA SharedIsSound ==
    ASSUME Sound(saved), Shares, TrainerTypeOK, TrainerTypeOK', BadgesInOrder',
           BallsAccounted', Tick
    PROVE  Sound(Shared(saved)) /\ (saved' = Shared(saved) => Shares')
<1> DEFINE s == Shared(saved)
<1>1. /\ s \in SnapshotType /\ s.badges = badges' /\ s.ball = ball'
      /\ s.team = saved.team /\ s.box = saved.box /\ s.location = saved.location
      /\ s.totalCaught = saved.totalCaught
  BY DEF Shared, Sound, SnapshotType, TrainerTypeOK
<1>2. /\ Len(badges) \in Nat /\ Len(badges') \in Nat /\ Len(badges) <= Len(badges')
      /\ totalCaught \in Nat /\ totalCaught' \in Nat /\ totalCaught <= totalCaught'
      /\ saved.totalCaught \in Nat /\ saved.totalCaught <= totalCaught
      /\ saved.location \in Nat /\ ball' \in Nat
  <2>1. badges' = badges \/ (badges' = Append(badges, location) /\ location \in Towns)
    BY TickBadges DEF TrainerTypeOK
  <2>2. Len(badges) \in Nat /\ Len(badges') \in Nat /\ Len(badges) <= Len(badges')
    BY <2>1, LenProperties, AppendProperties DEF TrainerTypeOK
  <2>3. totalCaught' = totalCaught \/ totalCaught' = totalCaught + 1
    BY TickRoster DEF CarriedOver, Catches
  <2>4. /\ saved.totalCaught \in Nat /\ saved.totalCaught <= totalCaught
        /\ saved.location \in Nat /\ ball' \in Nat /\ totalCaught \in Nat
    <3>1. saved.totalCaught \in Nat /\ saved.location \in Towns
      BY DEF Sound, SnapshotType
    <3>2. saved.location \in Nat
      BY <3>1 DEF Towns
    <3> QED
      BY <3>1, <3>2 DEF Shares, TrainerTypeOK
  <2> QED
    BY <2>2, <2>3, <2>4
<1>3. BallsPerBadge * Len(badges') \in Nat /\ InitialBalls \in Nat
  BY <1>2, WorldAssumption
<1> HIDE DEF s
<1>4. s.ball + s.totalCaught <= InitialBalls + BallsPerBadge * Len(s.badges)
  <2> DEFINE given == BallsPerBadge * Len(badges')
  <2>1. ball' + totalCaught' <= InitialBalls + given /\ given \in Nat
    BY <1>3 DEF BallsAccounted
  <2> HIDE DEF given
  <2>2. s.ball + s.totalCaught <= InitialBalls + given
    <3>1. /\ s.ball = ball' /\ s.totalCaught <= totalCaught'
          /\ {s.ball, s.totalCaught, totalCaught', InitialBalls} \subseteq Nat
      BY <1>1, <1>2, <1>3
    <3> QED
      BY <2>1, <3>1
  <2> QED
    BY <1>1, <2>2 DEF given
<1>5. s.location \in StartTowns \/ s.location <= Len(s.badges) + 1
  BY <1>1, <1>2 DEF Sound, Shares
<1>6. Sound(s)
  BY <1>1, <1>4, <1>5 DEF Sound, BadgesInOrder
<1>7. saved' = s => Shares'
  BY <1>1, <1>2 DEF Shares
<1> QED
  BY <1>6, <1>7 DEF s

\* Playing, saving and restoring keep the invariant.
LEMMA ResumeStep ==
    ASSUME PowerIsNat
    PROVE  ResumeInv /\ [SaveNext]_saveVars => ResumeInv'
<1> SUFFICES ASSUME ResumeInv, [SaveNext]_saveVars PROVE ResumeInv'
  OBVIOUS
<1>1. TrainerTypeOK /\ BadgesInOrder /\ BallsAccounted /\ NoDuplicateSpecies
  BY SoundTrainer DEF ResumeInv
<1>2. CASE Play
  <2>1. Tick /\ saved' = (IF form = "object" THEN Shared(saved) ELSE saved) /\ form' = form
    BY <1>2 DEF Play
  <2>2. TrainerTypeOK' /\ BadgesInOrder' /\ BallsAccounted' /\ NoDuplicateSpecies'
    BY <1>1, <2>1, TypeStep, BadgesStep, BallsStep, NoDuplicateStep
  <2>3. Sound(Snapshot') /\ gymCooldown' \in 0 .. GymCooldown
    BY <2>2, SoundTrainerNext
  <2>4. CASE form = "object"
    <3>1. Sound(saved') /\ Shares'
      BY <1>1, <2>1, <2>2, <2>4, SharedIsSound DEF ResumeInv
    <3> QED
      BY <2>3, <3>1 DEF ResumeInv
  <2>5. CASE form # "object"
    BY <2>1, <2>3, <2>5 DEF ResumeInv
  <2> QED
    BY <2>4, <2>5
<1>3. CASE Save
  <2>1. saved' = Snapshot /\ Snapshot' = Snapshot /\ gymCooldown' = gymCooldown
    BY <1>3 DEF Save, Snapshot, trainerVars
  <2>2. Shares'
    BY <1>1, <1>3 DEF Save, Shares, Snapshot, trainerVars, TrainerTypeOK
  <2> QED
    BY <2>1, <2>2 DEF ResumeInv
<1>4. CASE Load
  <2>1. /\ saved' = saved /\ form' = form /\ gymCooldown' = 0
        /\ badges' = saved.badges /\ ball' = saved.ball /\ totalCaught' = saved.totalCaught
    BY <1>4 DEF Load, Restored
  <2>2. Snapshot' = saved
    BY <1>4 DEF Load, Restored, Snapshot, ResumeInv, Sound, SnapshotType
  <2>3. Shares'
    BY <2>1 DEF Shares, ResumeInv, Sound, SnapshotType
  <2>4. 0 \in 0 .. GymCooldown
    BY WorldAssumption
  <2> QED
    BY <2>1, <2>2, <2>3, <2>4 DEF ResumeInv
<1>5. CASE UNCHANGED saveVars
  <2>1. Snapshot' = Snapshot /\ UNCHANGED <<saved, form, gymCooldown, badges, ball, totalCaught>>
    BY <1>5 DEF saveVars, trainerVars, Snapshot
  <2> QED
    BY <2>1 DEF ResumeInv, Shares
<1> QED
  BY <1>2, <1>3, <1>4, <1>5 DEF SaveNext

\* The strengthened invariant holds throughout.
LEMMA ResumeInvariant == ASSUME PowerIsNat PROVE SaveSpec => []ResumeInv
  BY ResumeInit, ResumeStep, PTL DEF SaveSpec

\* The catch-up is a way of playing: among absences the trainer, its snapshot
\* and its restores do only what they do without them.
LEMMA OfflineNextSaves == [OfflineNext]_offlineVars => [SaveNext]_saveVars
<1> SUFFICES ASSUME [OfflineNext]_offlineVars PROVE [SaveNext]_saveVars
  OBVIOUS
<1>1. CASE Online
  BY <1>1 DEF Online, SaveNext
<1>2. CASE CatchupTick
  BY <1>2 DEF CatchupTick, SaveNext
<1>3. CASE EndCatchup
  BY <1>3 DEF EndCatchup
<1>4. ASSUME NEW elapsed \in Absences, BeginCatchup(elapsed) PROVE UNCHANGED saveVars
  BY <1>4 DEF BeginCatchup
<1>5. CASE UNCHANGED offlineVars
  BY <1>5 DEF offlineVars
<1> QED
  BY <1>1, <1>2, <1>3, <1>4, <1>5 DEF OfflineNext

(***************************************************************************)
(* Absences change nothing about saving and restoring: every behaviour     *)
(* with catch-ups is one of SaveResume.                                    *)
(***************************************************************************)
THEOREM OfflineImplementsSave == OfflineSpec => SaveSpec
<1>1. OfflineInit => SaveInit
  BY DEF OfflineInit
<1> QED
  BY <1>1, OfflineNextSaves, PTL DEF OfflineSpec, SaveSpec

(***************************************************************************)
(* A snapshot of any age gives back no ball that was thrown for a monster  *)
(* it holds, though saveTrainer shares badges and items with the live      *)
(* trainer and copies the rest.                                            *)
(***************************************************************************)
THEOREM SnapshotsAccounted ==
    ASSUME PowerIsNat PROVE OfflineSpec => []SnapshotAccounted
<1>1. ResumeInv => SnapshotAccounted
  BY SoundTrainer DEF ResumeInv, SnapshotAccounted, Sound
<1> QED
  BY <1>1, ResumeInvariant, OfflineImplementsSave, PTL

(***************************************************************************)
(* A trainer restored from a snapshot of any age stands where its badges   *)
(* lead.                                                                   *)
(***************************************************************************)
THEOREM RestoresInOrder ==
    ASSUME PowerIsNat PROVE OfflineSpec => []RestoredInOrder
<1>1. ResumeInv => RestoredInOrder
  BY SoundTrainer DEF ResumeInv, RestoredInOrder, Sound
<1> QED
  BY <1>1, ResumeInvariant, OfflineImplementsSave, PTL

-----------------------------------------------------------------------------
\* A gym that was lost rests: the ticks counted since and those still to come
\* make up the cooldown.
Rested ==
    /\ waited \in Nat
    /\ gymCooldown \in 0 .. GymCooldown
    /\ waited + gymCooldown >= GymCooldown

\* A tick that challenges a gym finds the cooldown over; another one counts it
\* down by one or leaves it.
LEMMA TickCooldown ==
    ASSUME TrainerTypeOK, Tick
    PROVE  /\ gymCooldown' \in 0 .. GymCooldown
           /\ \/ gymCooldown = 0 /\ gymCooldown' = GymCooldown
              \/ gymCooldown = 0 /\ gymCooldown' = gymCooldown
              \/ badges' = badges /\ gymCooldown' = gymCooldown
              \/ badges' = badges /\ gymCooldown' = gymCooldown - 1
<1>1. gymCooldown' \in 0 .. GymCooldown
  BY TickBalls
<1>2. CASE HealTick
  BY <1>1, <1>2 DEF HealTick
<1>3. CASE WinGym
  <2>1. gymCooldown' = gymCooldown /\ ChallengesGym
    BY <1>3, Zenon DEF WinGym
  <2> QED
    BY <1>1, <2>1 DEF ChallengesGym
<1>4. CASE LoseGym
  BY <1>1, <1>4 DEF LoseGym, ChallengesGym
<1>5. CASE MoveTick
  BY <1>1, <1>5 DEF MoveTick
<1>6. HuntFrame => /\ badges' = badges
                   /\ gymCooldown' = gymCooldown \/ gymCooldown' = gymCooldown - 1
  BY DEF HuntFrame
<1>7. CASE Search
  BY <1>1, <1>6, <1>7 DEF Search
<1>8. ASSUME NEW wild \in Wilds, LoseBattle(wild) \/ WinBattle(wild) PROVE HuntFrame
  BY <1>8, Zenon DEF LoseBattle, WinBattle
<1>9. CASE HuntFrame
  BY <1>1, <1>6, <1>9
<1> QED
  BY <1>2, <1>3, <1>4, <1>5, <1>7, <1>8, <1>9 DEF Tick

\* Every step counts what it takes from the cooldown.
LEMMA RestedStep == ResumeInv /\ Rested /\ [OfflineNext]_offlineVars => Rested'
<1> SUFFICES ASSUME ResumeInv, Rested, [OfflineNext]_offlineVars PROVE Rested'
  OBVIOUS
<1>1. TrainerTypeOK /\ GymCooldown \in Nat
  BY SoundTrainer, WorldAssumption DEF ResumeInv
<1>2. ASSUME Play, CountsTick PROVE Rested'
  <2>1. Tick
    BY <1>2 DEF Play
  <2>2. /\ gymCooldown' \in 0 .. GymCooldown
        /\ \/ gymCooldown = 0 /\ gymCooldown' = GymCooldown
           \/ gymCooldown' = gymCooldown
           \/ gymCooldown' = gymCooldown - 1
    BY <1>1, <2>1, TickCooldown
  <2>3. /\ gymCooldown \in Nat /\ gymCooldown' \in Nat /\ waited \in Nat
        /\ waited + gymCooldown >= GymCooldown
    BY <1>1, <2>2 DEF Rested
  <2>4. waited' \in Nat /\ waited' + gymCooldown' >= GymCooldown
    <3>1. CASE gymCooldown' = gymCooldown
      BY <1>2, <2>3, <3>1 DEF CountsTick
    <3>2. CASE gymCooldown' = gymCooldown - 1
      BY <1>2, <2>3, <3>2 DEF CountsTick
    <3>3. CASE gymCooldown' = GymCooldown
      BY <1>1, <1>2, <2>3, <3>3 DEF CountsTick
    <3> QED
      BY <2>2, <3>1, <3>2, <3>3
  <2> QED
    BY <2>2, <2>4 DEF Rested
<1>3. CASE Online
  <2>1. CASE Save /\ UNCHANGED waited
    BY <2>1 DEF Save, trainerVars, Rested
  <2>2. CASE Load /\ waited' = GymCooldown
    BY <1>1, <2>2 DEF Load, Rested
  <2> QED
    BY <1>2, <1>3, <2>1, <2>2 DEF Online
<1>4. CASE CatchupTick
  BY <1>2, <1>4 DEF CatchupTick
<1>5. CASE UNCHANGED <<saveVars, waited>>
  BY <1>5 DEF saveVars, trainerVars, Rested
<1> QED
  BY <1>3, <1>4, <1>5 DEF OfflineNext, EndCatchup, BeginCatchup, offlineVars

(***************************************************************************)
(* A lost gym rests its cooldown: between a lost challenge and the next    *)
(* lie GymCooldown ticks that counted down, replayed or live, or a restore *)
(* (engine.ts's gymCooldown, which save.ts leaves out).                    *)
(***************************************************************************)
THEOREM GymsRestAfterLoss == ASSUME PowerIsNat PROVE OfflineSpec => RestsAfterLoss
<1>1. OfflineInit => Rested
  BY WorldAssumption DEF OfflineInit, SaveInit, TrainerInit, Rested
<1>2. ASSUME ResumeInv, Rested, Tick, ChallengeMade PROVE waited >= GymCooldown
  <2>1. TrainerTypeOK
    BY <1>2, SoundTrainer DEF ResumeInv
  <2>2. gymCooldown = 0
    BY <1>2, <2>1, TickCooldown DEF ChallengeMade, Rested
  <2> QED
    BY <1>2, <2>2, WorldAssumption DEF Rested
<1>3. ResumeInv /\ Rested =>
         [Tick /\ ChallengeMade => waited >= GymCooldown]_offlineVars
  BY <1>2
<1> QED
  BY <1>1, <1>3, RestedStep, ResumeInvariant, OfflineImplementsSave, PTL
     DEF OfflineSpec, RestsAfterLoss

-----------------------------------------------------------------------------
LogType == [played : Nat, kept : Nat, won : Nat, gained : Int]

AwayType ==
    [before : [caught : Nat, badges : Nat, teamLv : Int], elapsed : Int, capped : BOOLEAN,
     ticks : Nat, left : Nat, log : LogType]

\* A catch-up under way: how many ticks it has to play, and what those played
\* so far have done to the numbers its summary will compare.
UnderWay ==
    /\ away \in AwayType
    /\ away.ticks = CappedMs(away.elapsed) \div TickMs
    /\ away.log.played + away.left = away.ticks
    /\ totalCaught = away.before.caught + away.log.kept
    /\ Len(badges) = away.before.badges + away.log.won
    /\ away.log.kept = 0 => PartyLevels = away.before.teamLv + away.log.gained

OfflineInv ==
    /\ away = Here \/ UnderWay
    /\ SummaryIsTrue

\* Whole ticks of a span: what they leave over is less than one tick.
LEMMA WholeTicksOf ==
    ASSUME NEW span \in Nat
    PROVE  /\ span \div TickMs \in Nat
           /\ (span \div TickMs) * TickMs <= span
           /\ span - (span \div TickMs) * TickMs \in 0 .. TickMs - 1
<1> DEFINE whole == span \div TickMs
<1>1. TickMs \in Nat \ {0}
  BY OfflineAssumption
<1>2. /\ whole \in Nat /\ span % TickMs \in 0 .. TickMs - 1
      /\ span = TickMs * whole + (span % TickMs)
  BY <1>1
<1> HIDE DEF whole
<1>3. whole * TickMs = TickMs * whole /\ whole * TickMs \in Nat
  BY <1>1, <1>2
<1>4. span - whole * TickMs = span % TickMs
  BY <1>2, <1>3
<1>5. span % TickMs \in Nat /\ whole * TickMs <= span
  BY <1>1, <1>2, <1>3
<1> QED
  BY <1>2, <1>4, <1>5 DEF whole

\* The ticks of an absence are its whole ticks, capped at a day's, none for a
\* clock that ran backwards.
LEMMA TicksOfAbsence ==
    ASSUME NEW elapsed \in Int
    PROVE  LET played == CappedMs(elapsed) \div TickMs IN
           /\ played \in Nat
           /\ played * TickMs <= MaxOfflineMs
           /\ elapsed <= 0 => played = 0
           /\ elapsed \in 0 .. MaxOfflineMs => elapsed - played * TickMs \in 0 .. TickMs - 1
<1> DEFINE span   == CappedMs(elapsed)
           played == span \div TickMs
<1>1. MaxOfflineMs \in Nat /\ TickMs \in Nat \ {0}
  BY OfflineAssumption
<1>2. /\ span \in Nat /\ span <= MaxOfflineMs
      /\ elapsed <= 0 => span = 0
      /\ elapsed \in 0 .. MaxOfflineMs => span = elapsed
  BY <1>1 DEF CappedMs
<1>3. /\ played \in Nat /\ played * TickMs <= span
      /\ span - played * TickMs \in 0 .. TickMs - 1
  <2> HIDE DEF span
  <2> QED
    BY <1>2, WholeTicksOf
<1>4. played * TickMs \in Nat
  <2> HIDE DEF played
  <2> QED
    BY <1>1, <1>3
<1>5. span = 0 => played = 0
  <2> HIDE DEF span
  <2> QED
    BY <1>1
<1> HIDE DEF span, played
<1>6. /\ played \in Nat
      /\ played * TickMs <= MaxOfflineMs
      /\ elapsed <= 0 => played = 0
      /\ elapsed \in 0 .. MaxOfflineMs => elapsed - played * TickMs \in 0 .. TickMs - 1
  BY <1>1, <1>2, <1>3, <1>4, <1>5
<1> QED
  BY <1>6 DEF span, played

-----------------------------------------------------------------------------
\* The sum of the party's levels is a number.
LEMMA PartyLevelsInt == TrainerTypeOK => PartyLevels \in Int
<1> SUFFICES ASSUME TrainerTypeOK PROVE PartyLevels \in Int
  OBVIOUS
<1> DEFINE levels == [i \in DOMAIN team |-> team[i].level]
<1>1. DOMAIN team = 1 .. Len(team) /\ Len(team) \in Nat
  BY LenProperties DEF TrainerTypeOK
<1>2. \A i \in DOMAIN team : levels[i] \in Int
  <2>1. \A i \in DOMAIN team : team[i] \in Monsters
    BY <1>1, ElementOfSeq DEF TrainerTypeOK
  <2> QED
    BY <2>1 DEF Monsters
<1>3. IsFiniteSet(DOMAIN team)
  BY <1>1, FS_Interval
<1>4. PartyLevels = SumFunctionOnSet(levels, DOMAIN team)
  BY DEF PartyLevels, SumFunction
<1> HIDE DEF levels
<1> QED
  BY <1>2, <1>3, <1>4, SumType

\* Without a catch the party's levels rise by what its members gain.
LEMMA LevelsGained ==
    ASSUME TrainerTypeOK, Carried(team, team'), NEW log
    PROVE  \E rise \in Int : /\ Happened(log).gained = log.gained + rise
                             /\ PartyLevels' = PartyLevels + rise
<1> DEFINE old  == [i \in DOMAIN team |-> team[i].level]
           new  == [i \in DOMAIN team |-> team'[i].level]
           diff == [i \in DOMAIN team |->
                      IF i \in DOMAIN team' THEN team'[i].level - team[i].level ELSE 0]
           rise == SumFunctionOnSet(diff, DOMAIN team)
<1>1. DOMAIN team = 1 .. Len(team) /\ Len(team) \in Nat /\ DOMAIN team' = DOMAIN team
  BY LenProperties, CarriedSpecies DEF TrainerTypeOK
<1>2. /\ Happened(log).gained = log.gained + rise
      /\ PartyLevels = SumFunctionOnSet(old, DOMAIN team)
  BY DEF Happened, PartyLevels, SumFunction
<1>3. PartyLevels' = SumFunctionOnSet(new, DOMAIN team)
  <2>1. PartyLevels' = SumFunction([i \in DOMAIN team' |-> team'[i].level])
    BY DEF PartyLevels
  <2>2. [i \in DOMAIN team' |-> team'[i].level] = new
    BY <1>1
  <2> QED
    BY <2>1, <2>2 DEF SumFunction
<1>4. \A i \in DOMAIN team :
         /\ old[i] \in Int /\ diff[i] \in Int /\ new[i] = old[i] + diff[i]
  <2>1. \A i \in DOMAIN team : team[i] \in Monsters /\ team'[i] \in Monsters
    BY <1>1, ElementOfSeq DEF TrainerTypeOK, Carried
  <2>2. \A i \in DOMAIN team : team[i].level \in Int /\ team'[i].level \in Int
    BY <2>1 DEF Monsters
  <2> QED
    BY <1>1, <2>2
<1>5. IsFiniteSet(DOMAIN team)
  BY <1>1, FS_Interval
<1> HIDE DEF old, new, diff
<1>6. SumFunctionOnSet(new, DOMAIN team) = SumFunctionOnSet(old, DOMAIN team) + rise
  BY <1>4, <1>5, SumPlus
<1>7. rise \in Int
  BY <1>4, <1>5, SumType
<1> QED
  BY <1>2, <1>3, <1>6, <1>7

\* What a log gains by a tick is a number.
LEMMA GainedIsInt ==
    ASSUME TrainerTypeOK, TrainerTypeOK', NEW log, log.gained \in Int
    PROVE  Happened(log).gained \in Int
<1> DEFINE diff == [i \in DOMAIN team |->
                      IF i \in DOMAIN team' THEN team'[i].level - team[i].level ELSE 0]
<1>1. /\ DOMAIN team = 1 .. Len(team) /\ Len(team) \in Nat
      /\ DOMAIN team' = 1 .. Len(team') /\ Len(team') \in Nat
  BY LenProperties DEF TrainerTypeOK
<1>2. \A i \in DOMAIN team : diff[i] \in Int
  <2>1. /\ \A i \in DOMAIN team : team[i] \in Monsters
        /\ \A i \in DOMAIN team' : team'[i] \in Monsters
    BY <1>1, ElementOfSeq DEF TrainerTypeOK
  <2>2. /\ \A i \in DOMAIN team : team[i].level \in Int
        /\ \A i \in DOMAIN team' : team'[i].level \in Int
    BY <2>1 DEF Monsters
  <2> QED
    BY <2>2
<1>3. IsFiniteSet(DOMAIN team)
  BY <1>1, FS_Interval
<1>4. Happened(log).gained = log.gained + SumFunctionOnSet(diff, DOMAIN team)
  BY DEF Happened, SumFunction
<1> HIDE DEF diff
<1>5. SumFunctionOnSet(diff, DOMAIN team) \in Int
  BY <1>2, <1>3, SumType
<1> QED
  BY <1>4, <1>5

\* A replayed tick counts a catch exactly when the roster has a new species.
LEMMA TickKept ==
    ASSUME PowerIsNat, TrainerTypeOK, TrainerTypeOK', NoDuplicateSpecies, Tick, NEW log,
           log.kept \in Nat
    PROVE  \/ /\ Happened(log).kept = log.kept /\ totalCaught' = totalCaught
              /\ Carried(team, team')
           \/ Happened(log).kept = log.kept + 1 /\ totalCaught' = totalCaught + 1
<1> DEFINE news == \E s \in Species : ~Owned(team \o box, s) /\ Owned(team' \o box', s)
<1>1. Happened(log).kept = IF news THEN log.kept + 1 ELSE log.kept
  BY DEF Happened
<1>2. CASE CarriedOver
  <2>1. \A s : Owned(team', s) <=> Owned(team, s)
    BY <1>2, CarriedSpecies DEF CarriedOver, TrainerTypeOK
  <2>2. \A s : Owned(team' \o box', s) <=> Owned(team \o box, s)
    BY <1>2, <2>1, RosterSplit DEF CarriedOver, TrainerTypeOK
  <2> QED
    BY <1>1, <1>2, <2>2 DEF CarriedOver
<1>3. ASSUME NEW after, NEW wild, Carried(team, after), Catches(after, wild)
      PROVE  Happened(log).kept = log.kept + 1 /\ totalCaught' = totalCaught + 1
  <2>1. totalCaught' = totalCaught + 1 /\ totalCaught' > totalCaught
    BY <1>3 DEF Catches, TrainerTypeOK
  <2>2. PICK i \in DOMAIN (team' \o box') :
          ~Owned(team \o box, (team' \o box')[i].species)
    BY <2>1, CaughtStep
  <2> DEFINE roster == team' \o box'
             s      == roster[i].species
  <2>3. roster \in Seq(Monsters)
    BY ConcatProperties DEF TrainerTypeOK
  <2>4. i \in 1 .. Len(roster)
    BY <2>2, <2>3, LenProperties
  <2> HIDE DEF roster
  <2>5. s \in Species
    <3>1. roster[i] \in Monsters
      BY <2>3, <2>4, ElementOfSeq
    <3> QED
      BY <3>1 DEF Monsters
  <2>6. ~Owned(team \o box, s) /\ Owned(roster, s)
    BY <2>2 DEF Owned, roster
  <2> HIDE DEF s
  <2>7. news
    BY <2>5, <2>6 DEF roster
  <2> QED
    BY <1>1, <2>1, <2>7
<1> QED
  BY <1>2, <1>3, TickRoster DEF CarriedOver

\* It counts a badge exactly when one was won: badges are never won twice.
LEMMA TickWon ==
    ASSUME TrainerTypeOK, Tick, NEW log, log.won \in Nat
    PROVE  \/ Happened(log).won = log.won /\ Len(badges') = Len(badges)
           \/ Happened(log).won = log.won + 1 /\ Len(badges') = Len(badges) + 1
<1>1. Happened(log).won = log.won + Cardinality(Range(badges') \ Range(badges))
  BY DEF Happened
<1>2. CASE badges' = badges
  <2>1. Range(badges') \ Range(badges) = {}
    BY <1>2
  <2> QED
    BY <1>1, <1>2, <2>1, FS_EmptySet
<1>3. CASE badges' = Append(badges, location) /\ ~HasBadge(location)
  <2>1. /\ Len(badges) \in Nat /\ DOMAIN badges = 1 .. Len(badges)
        /\ badges' \in Seq(Towns) /\ Len(badges') = Len(badges) + 1
        /\ \A i \in 1 .. Len(badges) : badges'[i] = badges[i]
        /\ badges'[Len(badges) + 1] = location
    BY <1>3, AppendProperties, LenProperties DEF TrainerTypeOK
  <2>2. DOMAIN badges' = 1 .. Len(badges) + 1
    BY <2>1, LenProperties
  <2>3. Range(badges') = Range(badges) \cup {location} /\ location \notin Range(badges)
    BY <1>3, <2>1, <2>2 DEF Range, HasBadge
  <2>4. Range(badges') \ Range(badges) = {location}
    BY <2>3
  <2> QED
    BY <1>1, <2>1, <2>4, FS_Singleton
<1> QED
  BY <1>2, <1>3, TickBadges

-----------------------------------------------------------------------------
\* Beginning an absence: nothing has happened in it.
LEMMA UnderWayBegins ==
    ASSUME TrainerTypeOK, NEW elapsed \in Absences, BeginCatchup(elapsed)
    PROVE  UnderWay'
<1> DEFINE ticks == CappedMs(elapsed) \div TickMs
           start == [before |-> Counters, elapsed |-> elapsed, capped |-> elapsed > MaxOfflineMs,
                     ticks |-> ticks, left |-> ticks, log |-> NothingYet]
<1>1. elapsed \in Int /\ ticks \in Nat
  BY OfflineAssumption, TicksOfAbsence
<1>2. /\ Counters \in [caught : Nat, badges : Nat, teamLv : Int]
      /\ Counters.caught = totalCaught /\ Counters.badges = Len(badges)
      /\ Counters.teamLv = PartyLevels
  BY PartyLevelsInt, LenProperties DEF Counters, TrainerTypeOK
<1>3. /\ NothingYet \in LogType /\ NothingYet.played = 0 /\ NothingYet.kept = 0
      /\ NothingYet.won = 0 /\ NothingYet.gained = 0
  BY DEF NothingYet, LogType
<1>4. /\ away' = start /\ totalCaught' = totalCaught /\ badges' = badges /\ team' = team
  BY DEF BeginCatchup, saveVars, trainerVars
<1>5. PartyLevels' = PartyLevels
  BY <1>4 DEF PartyLevels
<1> HIDE DEF ticks
<1>6. /\ start \in AwayType /\ start.before = Counters /\ start.elapsed = elapsed
      /\ start.ticks = ticks /\ start.left = ticks /\ start.log = NothingYet
  BY <1>1, <1>2, <1>3 DEF AwayType
<1>7. Len(badges) \in Nat /\ totalCaught \in Nat /\ PartyLevels \in Int
  BY PartyLevelsInt, LenProperties DEF TrainerTypeOK
<1> HIDE DEF start
<1>8. away'.ticks = CappedMs(away'.elapsed) \div TickMs
  BY <1>4, <1>6 DEF ticks
<1> QED
  BY <1>1, <1>2, <1>3, <1>4, <1>5, <1>6, <1>7, <1>8 DEF UnderWay

\* A replayed tick keeps the account.
LEMMA UnderWayGoesOn ==
    ASSUME PowerIsNat, ResumeInv, TrainerTypeOK', UnderWay, CatchupTick
    PROVE  UnderWay'
<1> DEFINE log  == away.log
           next == Happened(log)
<1>1. TrainerTypeOK /\ NoDuplicateSpecies /\ Tick
  BY SoundTrainer DEF ResumeInv, CatchupTick, Play
<1>2. /\ log \in LogType /\ log.played \in Nat /\ log.kept \in Nat /\ log.won \in Nat
      /\ log.gained \in Int /\ away.left \in Nat /\ away.left > 0 /\ away.ticks \in Nat
      /\ away.before.caught \in Nat /\ away.before.badges \in Nat
      /\ away.before.teamLv \in Int
  BY DEF UnderWay, AwayType, LogType, CatchupTick
<1>3. /\ away' = [away EXCEPT !.left = away.left - 1, !.log = next]
  BY DEF CatchupTick
<1>4. next.played = log.played + 1
  BY DEF Happened
<1>5. \/ next.kept = log.kept /\ totalCaught' = totalCaught /\ Carried(team, team')
      \/ next.kept = log.kept + 1 /\ totalCaught' = totalCaught + 1
  BY <1>1, <1>2, TickKept
<1>6. \/ next.won = log.won /\ Len(badges') = Len(badges)
      \/ next.won = log.won + 1 /\ Len(badges') = Len(badges) + 1
  BY <1>1, <1>2, TickWon
<1>7. /\ next.gained \in Int
      /\ next = [played |-> next.played, kept |-> next.kept, won |-> next.won,
                 gained |-> next.gained]
  BY <1>1, <1>2, GainedIsInt DEF Happened
<1>8. Carried(team, team') => \E rise \in Int : /\ next.gained = log.gained + rise
                                                 /\ PartyLevels' = PartyLevels + rise
  BY <1>1, LevelsGained
<1> HIDE DEF next
<1>9. next \in LogType
  <2> HIDE DEF log
  <2>1. next.played \in Nat /\ next.kept \in Nat /\ next.won \in Nat
    BY <1>2, <1>4, <1>5, <1>6, SMTT(20)
  <2> QED
    BY <1>7, <2>1, SMTT(20) DEF LogType
<1>10. /\ away' \in AwayType /\ away'.before = away.before /\ away'.elapsed = away.elapsed
       /\ away'.ticks = away.ticks /\ away'.left = away.left - 1 /\ away'.log = next
  <2>1. away \in AwayType /\ away.left - 1 \in Nat
    <3>1. away \in AwayType
      BY DEF UnderWay
    <3> QED
      BY <1>2, <3>1
  <2> HIDE DEF log
  <2>2. /\ away'.before = away.before /\ away'.elapsed = away.elapsed
        /\ away'.ticks = away.ticks /\ away'.left = away.left - 1 /\ away'.log = next
    BY <1>3, <2>1 DEF AwayType
  <2>3. away' \in AwayType
    <3> DEFINE left == away.left - 1
    <3>1. away' = [away EXCEPT !.left = left, !.log = next] /\ left \in Nat
      BY <1>3, <2>1
    <3> HIDE DEF left
    <3> QED
      BY <1>9, <2>1, <3>1 DEF AwayType
  <2> QED
    BY <2>2, <2>3
<1>11. totalCaught \in Nat /\ totalCaught = away.before.caught + log.kept
       /\ Len(badges) \in Nat /\ Len(badges) = away.before.badges + log.won
       /\ log.played + away.left = away.ticks
  BY <1>1, LenProperties DEF UnderWay, TrainerTypeOK
<1>12. /\ next.played + away'.left = away.ticks
       /\ totalCaught' = away.before.caught + next.kept
       /\ Len(badges') = away.before.badges + next.won
  <2> HIDE DEF log
  <2>1. next.played + away'.left = away.ticks
    BY <1>2, <1>4, <1>10, <1>11, SMTT(20)
  <2>2. totalCaught' = away.before.caught + next.kept
    <3>1. totalCaught = away.before.caught + log.kept
      BY <1>11
    <3>2. CASE next.kept = log.kept /\ totalCaught' = totalCaught
      BY <3>1, <3>2
    <3>3. CASE next.kept = log.kept + 1 /\ totalCaught' = totalCaught + 1
      <4> DEFINE b == away.before.caught
      <4>1. totalCaught \in Nat /\ b \in Nat /\ log.kept \in Nat /\ totalCaught = b + log.kept
        BY <1>2, <1>11
      <4> HIDE DEF b
      <4>2. totalCaught' = b + next.kept
        BY <3>3, <4>1
      <4> QED
        BY <4>2 DEF b
    <3> QED
      BY <1>5, <3>2, <3>3
  <2>3. Len(badges') = away.before.badges + next.won
    <3>1. Len(badges) = away.before.badges + log.won
      BY <1>11
    <3>2. CASE next.won = log.won /\ Len(badges') = Len(badges)
      BY <3>1, <3>2
    <3>3. CASE next.won = log.won + 1 /\ Len(badges') = Len(badges) + 1
      <4> DEFINE n == Len(badges)
                 b == away.before.badges
      <4>1. n \in Nat /\ b \in Nat /\ log.won \in Nat /\ n = b + log.won
        BY <1>2, <1>11
      <4>2. next.won = log.won + 1 /\ Len(badges') = n + 1
        BY <3>3
      <4> HIDE DEF n, b
      <4>3. Len(badges') = b + next.won
        BY <4>1, <4>2
      <4> QED
        BY <4>3 DEF b
    <3> QED
      BY <1>6, <3>2, <3>3
  <2> QED
    BY <2>1, <2>2, <2>3
<1>13. ASSUME next.kept = 0 PROVE PartyLevels' = away.before.teamLv + next.gained
  <2>1. Carried(team, team') /\ log.kept = 0
    BY <1>2, <1>5, <1>13
  <2>2. PartyLevels = away.before.teamLv + log.gained
    BY <2>1 DEF UnderWay
  <2>3. PICK rise \in Int : next.gained = log.gained + rise /\ PartyLevels' = PartyLevels + rise
    BY <1>8, <2>1
  <2> HIDE DEF log
  <2> QED
    BY <1>2, <2>2, <2>3
<1>14. away'.ticks = CappedMs(away'.elapsed) \div TickMs
  BY <1>10 DEF UnderWay
<1> HIDE DEF log
<1> QED
  BY <1>10, <1>12, <1>13, <1>14 DEF UnderWay

\* At its end the summary says what happened.
LEMMA SummaryAtEnd ==
    ASSUME TrainerTypeOK, UnderWay, EndCatchup
    PROVE  SummaryIsTrue'
<1> DEFINE log == away.log
           said == Reported(Counters)
<1>1. /\ summary' = [left |-> 0, said |-> said, log |-> log, elapsed |-> away.elapsed]
      /\ away.left = 0
  BY DEF EndCatchup
<1>2. /\ log \in LogType /\ log.played \in Nat /\ log.kept \in Nat /\ log.won \in Nat
      /\ log.gained \in Int /\ away.ticks \in Nat /\ away.elapsed \in Int
      /\ away.before.caught \in Nat /\ away.before.badges \in Nat
      /\ away.before.teamLv \in Int
  BY DEF UnderWay, AwayType, LogType
<1>3. /\ said.ticks = away.ticks
      /\ said.caught = totalCaught - away.before.caught
      /\ said.levels = PartyLevels - away.before.teamLv
      /\ said.badges = Len(badges) - away.before.badges
  BY DEF Reported, Counters
<1>4. /\ away.ticks = CappedMs(away.elapsed) \div TickMs
      /\ log.played + away.left = away.ticks
      /\ totalCaught = away.before.caught + log.kept
      /\ Len(badges) = away.before.badges + log.won
      /\ log.kept = 0 => PartyLevels = away.before.teamLv + log.gained
  BY DEF UnderWay
<1> HIDE DEF log, said
<1>5. log.played = away.ticks
  BY <1>1, <1>2, <1>4
<1>6. summary'.said = said /\ summary'.log = log /\ summary'.elapsed = away.elapsed
  BY <1>1
<1>7. /\ log.played * TickMs <= MaxOfflineMs
      /\ away.elapsed <= 0 => log.played = 0
      /\ away.elapsed \in 0 .. MaxOfflineMs =>
            away.elapsed - log.played * TickMs \in 0 .. TickMs - 1
  BY <1>2, <1>4, <1>5, TicksOfAbsence
<1>8. /\ said.ticks = log.played /\ said.badges = log.won /\ said.caught = log.kept
      /\ log.kept = 0 => said.levels = log.gained
  <2>1. log.kept = 0 => PartyLevels - away.before.teamLv = log.gained
    BY <1>2, <1>4
  <2>2. Len(badges) - away.before.badges = log.won
    <3>1. /\ Len(badges) = away.before.badges + log.won
          /\ {away.before.badges, log.won} \subseteq Nat
      BY <1>2, <1>4
    <3> QED
      BY <3>1
  <2>3. totalCaught - away.before.caught = log.kept
    <3>1. /\ totalCaught = away.before.caught + log.kept
          /\ {away.before.caught, log.kept} \subseteq Nat
      BY <1>2, <1>4
    <3> QED
      BY <3>1
  <2> QED
    BY <1>3, <1>5, <2>1, <2>2, <2>3
<1> QED
  <2>1. WholeTicks(summary.log.played)'
    BY <1>6, <1>7 DEF WholeTicks
  <2> QED
    BY <1>6, <1>8, <2>1 DEF SummaryIsTrue

\* Every step keeps the account of an absence, and a summary that is there
\* is true.
LEMMA OfflineStep ==
    ASSUME PowerIsNat
    PROVE  ResumeInv /\ ResumeInv' /\ OfflineInv /\ [OfflineNext]_offlineVars => OfflineInv'
<1> SUFFICES ASSUME ResumeInv, ResumeInv', OfflineInv, [OfflineNext]_offlineVars
             PROVE  OfflineInv'
  OBVIOUS
<1>1. TrainerTypeOK /\ TrainerTypeOK'
  <2>1. TrainerTypeOK
    BY SoundTrainer DEF ResumeInv
  <2>2. /\ Snapshot' \in SnapshotType /\ gymCooldown' \in 0 .. GymCooldown
        /\ Len(Snapshot'.team) \in 1 .. PartySize /\ Len(Snapshot'.box) <= BoxSize
    BY DEF ResumeInv, Sound
  <2>3. TrainerTypeOK'
    BY <2>2 DEF Snapshot, SnapshotType, TrainerTypeOK
  <2> QED
    BY <2>1, <2>3
<1>2. summary' = Here => SummaryIsTrue'
  BY DEF SummaryIsTrue
<1>3. CASE Online
  BY <1>2, <1>3 DEF Online, OfflineInv
<1>4. CASE CatchupTick
  <2>1. UnderWay
    BY <1>4 DEF OfflineInv, CatchupTick, Here
  <2>2. UnderWay'
    BY <1>1, <1>4, <2>1, UnderWayGoesOn
  <2>3. summary' = summary
    BY <1>4 DEF CatchupTick
  <2>4. SummaryIsTrue'
    BY <2>3 DEF OfflineInv, SummaryIsTrue, WholeTicks
  <2> QED
    BY <2>2, <2>4 DEF OfflineInv
<1>5. CASE EndCatchup
  <2>1. UnderWay /\ away' = Here
    BY <1>5 DEF OfflineInv, EndCatchup
  <2>2. SummaryIsTrue'
    BY <1>1, <1>5, <2>1, SummaryAtEnd
  <2>3. Here' = Here
    BY DEF Here
  <2> QED
    BY <2>1, <2>2, <2>3 DEF OfflineInv
<1>6. ASSUME NEW elapsed \in Absences, BeginCatchup(elapsed) PROVE OfflineInv'
  <2>1. UnderWay'
    BY <1>1, <1>6, UnderWayBegins
  <2>2. SummaryIsTrue'
    BY <1>2, <1>6 DEF BeginCatchup
  <2> QED
    BY <2>1, <2>2 DEF OfflineInv
<1>7. CASE UNCHANGED offlineVars
  <2>1. UNCHANGED <<away, summary, totalCaught, badges, team>>
    BY <1>7 DEF offlineVars, saveVars, trainerVars
  <2>2. PartyLevels' = PartyLevels
    BY <2>1 DEF PartyLevels
  <2> QED
    BY <2>1, <2>2 DEF OfflineInv, UnderWay, SummaryIsTrue, WholeTicks
<1> QED
  BY <1>3, <1>4, <1>5, <1>6, <1>7 DEF OfflineNext

(***************************************************************************)
(* The summary of an absence is true for every absence, also one of a      *)
(* clock set back or of more than a day: its ticks are the whole ticks of  *)
(* the absence, its badges and catches are what the replayed ticks did,    *)
(* and without a catch so are its levels (runOfflineCatchup compares       *)
(* counters before and after).                                             *)
(***************************************************************************)
THEOREM SummariesAreTrue == ASSUME PowerIsNat PROVE OfflineSpec => []SummaryIsTrue
<1>1. OfflineInit => OfflineInv
  BY DEF OfflineInit, OfflineInv, SummaryIsTrue
<1>2. OfflineInv => SummaryIsTrue
  BY DEF OfflineInv
<1> QED
  BY <1>1, <1>2, OfflineStep, ResumeInvariant, OfflineImplementsSave, PTL DEF OfflineSpec
==============================================================================
