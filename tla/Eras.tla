-------------------------------- MODULE Eras --------------------------------
(***************************************************************************)
(* The session and era clock of the staking pallet (frame/staking).        *)
(*                                                                         *)
(* The session pallet calls the staking pallet three times when a session  *)
(* ends, all inside one on_initialize: end_session(i), start_session(i+1)  *)
(* and new_session(i+2).  An era is therefore PLANNED (CurrentEra) two     *)
(* session indices ahead and STARTED (ActiveEra) at the next rotation; the *)
(* two counters run one era apart in between.  All                         *)
(* information about an era is kept for HistoryDepth eras, counted from    *)
(* the planned one, and Root may change that depth and the forcing mode at *)
(* any time.                                                               *)
(*                                                                         *)
(* Block structure: on_initialize (BeginBlock, RotateSession), then the    *)
(* extrinsics, then on_finalize (OnFinalize).  The state below is that of  *)
(* the chain after genesis has been built.                                 *)
(***************************************************************************)
EXTENDS Integers

CONSTANTS
    SessionsPerEra,   \* T::SessionsPerEra
    HistoryDepths,    \* the values HistoryDepth may take: Root's arguments
                      \* to set_history_depth and the genesis value
    GenesisHistoryDepth, \* the genesis configuration's history_depth (84)
    ForcingModes,     \* the forcing modes genesis, Root and offences use
    U32,              \* the modulus of u32 arithmetic: 2^32 in the code
    None,             \* an absent storage entry
    MaxSession        \* BOUND: the last session a behaviour reaches

Forcing == {"NotForcing", "ForceNew", "ForceNone", "ForceAlways"}

ASSUME ErasAssumption ==
    /\ SessionsPerEra \in Nat
    /\ U32 \in Nat
    /\ MaxSession \in Nat
    /\ MaxSession + 2 < U32
    /\ HistoryDepths \subseteq 0..(U32 - 1)
    /\ GenesisHistoryDepth \in HistoryDepths \cap (1..(U32 - 2))
    /\ ForcingModes \subseteq Forcing
    /\ None \notin Nat

\* Eras a bounded behaviour can plan: one more than its last session.
Era == 0..(MaxSession + 1)

VARIABLES
    session_index,            \* pallet_session's CurrentIndex
    current_era,              \* CurrentEra, the latest planned era
    active_era,               \* ActiveEra.index, the era being served
    active_start,             \* whether ActiveEra.start is Some
    eras_start_session_index, \* ErasStartSessionIndex
    force_era,                \* ForceEra
    history_depth,            \* HistoryDepth
    in_block                  \* between on_initialize and on_finalize

eraVars == <<session_index, current_era, active_era, active_start,
             eras_start_session_index, force_era, history_depth, in_block>>

-----------------------------------------------------------------------------
SaturatingSub(a, b) == IF a >= b THEN a - b ELSE 0

\* u32 addition and subtraction of a release build, which wrap.
WrappingAdd(a, b) == (a + b) % U32
WrappingSub(a, b) == (a - b) % U32

\* new_session's decision to call try_trigger_new_era for session `index`.
EraIsDue(index, force, start) ==
    \/ force \in {"ForceNew", "ForceAlways"}
    \/ /\ force = "NotForcing"
       /\ SaturatingSub(index, IF start = None THEN 0 ELSE start)
            >= SessionsPerEra

\* trigger_new_era's clean-up: the eras cleared when `era` gets planned.
ErasClearedByPlanning(era) ==
    {e \in Era : e + WrappingAdd(history_depth, 1) = era}

\* clear_era_information, for the one map of this module.
ClearStart(starts, cleared) ==
    [e \in Era |-> IF e \in cleared THEN None ELSE starts[e]]

-----------------------------------------------------------------------------
(***************************************************************************)
(* Genesis: new_session_genesis(0) plans era 0 in session 0 whatever the   *)
(* election gives; new_session_genesis(1) plans era 1 if it is due (it is  *)
(* when the genesis configuration forces an era, or eras last one          *)
(* session) and enough validators are elected; start_session(0) makes era  *)
(* 0 active without a start time.  Behaviours begin in block 1, at which   *)
(* BABE never ends the session.                                            *)
(***************************************************************************)
ErasInit ==
    /\ session_index = 0
    /\ active_era = 0
    /\ active_start = FALSE
    /\ in_block = TRUE
    /\ history_depth = GenesisHistoryDepth
    /\ \E force \in ForcingModes, elected \in BOOLEAN :
         LET plans == elected /\ EraIsDue(1, force, 0)
         IN  /\ current_era = IF plans THEN 1 ELSE 0
             /\ force_era = IF plans /\ force = "ForceNew"
                            THEN "NotForcing" ELSE force
             /\ eras_start_session_index =
                  [e \in Era |-> IF e <= current_era THEN e ELSE None]

-----------------------------------------------------------------------------
(***************************************************************************)
(* The pieces of a session rotation.                                       *)
(***************************************************************************)

\* end_session(session_index) calls end_era.
EndsEra == eras_start_session_index[active_era + 1] = session_index + 1

\* MUTANT: start_session compares with `<`, the era starts a session late.
StartsEraLate ==
    /\ eras_start_session_index[active_era + 1] # None
    /\ eras_start_session_index[active_era + 1] < session_index + 1

\* start_session(session_index + 1) calls start_era (a start that lies in the
\* past is the arm the code calls a skipped session).
StartsEra ==
    /\ eras_start_session_index[active_era + 1] # None
    /\ eras_start_session_index[active_era + 1] <= session_index + 1

\* new_session(session_index + 2) triggers a new era: it is due, the election
\* succeeded and gave at least the minimum number of validators (`elected`).
PlansEra(elected) ==
    /\ elected
    /\ EraIsDue(session_index + 2, force_era,
                eras_start_session_index[current_era])

\* The eras whose information a rotation clears.
ClearedEras(elected) ==
    IF PlansEra(elected) THEN ErasClearedByPlanning(current_era + 1) ELSE {}

\* The rotation itself: end_session, start_session, new_session.
RotateSession(elected) ==
    /\ session_index < MaxSession
    /\ session_index' = session_index + 1
    /\ active_era' = IF StartsEra THEN active_era + 1 ELSE active_era
    /\ active_start' = (active_start /\ ~StartsEra)
    /\ IF PlansEra(elected)
       THEN /\ current_era' = current_era + 1
            /\ eras_start_session_index' =
                 ClearStart([eras_start_session_index EXCEPT
                               ![current_era + 1] = session_index + 2],
                            ClearedEras(elected))
            /\ force_era' = IF force_era = "ForceNew" THEN "NotForcing"
                            ELSE force_era
       ELSE UNCHANGED <<current_era, eras_start_session_index, force_era>>
    /\ UNCHANGED history_depth

\* on_initialize of a block that ends no session.
BeginBlock ==
    /\ ~in_block
    /\ in_block' = TRUE
    /\ UNCHANGED <<session_index, current_era, active_era, active_start,
                   eras_start_session_index, force_era, history_depth>>

\* on_initialize of a block at which the session pallet rotates.
BeginBlockRotating(elected) ==
    /\ ~in_block
    /\ in_block' = TRUE
    /\ RotateSession(elected)

\* on_finalize gives the active era its start time if it has none.
OnFinalize ==
    /\ in_block
    /\ in_block' = FALSE
    /\ active_start' = TRUE
    /\ UNCHANGED <<session_index, current_era, active_era,
                   eras_start_session_index, force_era, history_depth>>

-----------------------------------------------------------------------------
(***************************************************************************)
(* Root calls, and the forcing an offence brings about.                    *)
(***************************************************************************)

\* MUTANT: an inclusive range, which for depth 0 clears the planned era too.
ErasClearedByDepthInclusive(d) ==
    {e \in Era : /\ SaturatingSub(current_era, history_depth) <= e
                 /\ e <= SaturatingSub(current_era, d)}

\* The eras set_history_depth(d) clears.
ErasClearedByDepth(d) ==
    {e \in Era : /\ SaturatingSub(current_era, history_depth) <= e
                 /\ e < SaturatingSub(current_era, d)}

\* set_history_depth, for the maps of this module.
SetHistoryDepth(d) ==
    /\ in_block
    /\ history_depth' = d
    /\ eras_start_session_index' =
         ClearStart(eras_start_session_index, ErasClearedByDepth(d))
    /\ UNCHANGED <<session_index, current_era, active_era, active_start,
                   force_era, in_block>>

PutForcing(force) ==
    /\ force \in ForcingModes
    /\ force_era' = force
    /\ UNCHANGED <<session_index, current_era, active_era, active_start,
                   eras_start_session_index, history_depth, in_block>>

ForceNoEras == in_block /\ PutForcing("ForceNone")

ForceNewEra == in_block /\ PutForcing("ForceNew")

ForceNewEraAlways == in_block /\ PutForcing("ForceAlways")

\* ensure_new_era, called when enough validators have offended.  Offences are
\* reported by extrinsics, and by im-online in on_initialize just before the
\* session rotates, so the step is not bound to a block's extrinsics.
EnsureNewEra ==
    /\ force_era \in {"NotForcing", "ForceNone"}
    /\ PutForcing("ForceNew")

(***************************************************************************)
(* next_election_prediction, in sessions: the election provider prepares   *)
(* itself (its signed and unsigned phases) for the block it names.  It     *)
(* counts from CurrentPlannedSession, one ahead of the session pallet's    *)
(* index.  Without new eras it is the largest number.                      *)
(***************************************************************************)

\* MUTANT: counts from the running session.
SessionsLeftFromRunning ==
    LET start == eras_start_session_index[current_era]
        progress == SaturatingSub(session_index,
                                  IF start = None THEN 0 ELSE start)
    IN  CASE force_era = "ForceNone" -> U32
          [] force_era \in {"ForceNew", "ForceAlways"} -> 0
          [] OTHER -> SaturatingSub(SaturatingSub(SessionsPerEra, progress), 1)

SessionsLeft ==
    LET start == eras_start_session_index[current_era]
        progress == SaturatingSub(session_index + 1,
                                  IF start = None THEN 0 ELSE start)
    IN  CASE force_era = "ForceNone" -> U32
          [] force_era \in {"ForceNew", "ForceAlways"} -> 0
          [] OTHER -> SaturatingSub(SaturatingSub(SessionsPerEra, progress), 1)

ErasNext ==
    \/ BeginBlock
    \/ \E elected \in BOOLEAN : BeginBlockRotating(elected)
    \/ OnFinalize
    \/ \E d \in HistoryDepths : SetHistoryDepth(d)
    \/ ForceNoEras
    \/ ForceNewEra
    \/ ForceNewEraAlways
    \/ EnsureNewEra

\* Blocks are finalized, and BABE ends the session once the epoch's slots are
\* over: some later block rotates, whatever happens in between.
ErasFairness ==
    /\ WF_eraVars(OnFinalize)
    /\ SF_eraVars(\E elected \in BOOLEAN : BeginBlockRotating(elected))

ErasSpec == ErasInit /\ [][ErasNext]_eraVars

ErasFairSpec == ErasSpec /\ ErasFairness

-----------------------------------------------------------------------------
(***************************************************************************)
(* Properties.                                                             *)
(***************************************************************************)

ErasTypeOK ==
    /\ session_index \in 0..MaxSession
    /\ current_era \in Era
    /\ active_era \in 0..MaxSession
    /\ active_start \in BOOLEAN
    /\ eras_start_session_index \in [Era -> Nat \cup {None}]
    /\ force_era \in Forcing
    /\ history_depth \in HistoryDepths
    /\ in_block \in BOOLEAN

\* The planned era is the active one, whose first session has come, or the
\* next one, which starts with exactly the next session: start_session's
\* "session appears to have been skipped" arm is never taken and end_era and
\* start_era always happen in the same rotation.
EraPipeline ==
    \/ /\ current_era = active_era
       /\ eras_start_session_index[current_era] # None
       /\ eras_start_session_index[current_era] <= session_index
    \/ /\ current_era = active_era + 1
       /\ eras_start_session_index[current_era] = session_index + 1

\* Era information is kept for [current_era - history_depth; current_era] and
\* for no other era, through plannings and changes of the depth.
HistoryWindow ==
    \A e \in Era : eras_start_session_index[e] # None =>
        /\ e <= current_era
        /\ e >= SaturatingSub(current_era, history_depth)

\* An era never ends before on_finalize has given it a start time, so end_era
\* never takes the branch that records no reward.
EndedEraHasStart ==
    [][active_era' # active_era => active_start]_eraVars

\* The election provider is told the truth: new_session calls for an election
\* exactly when the prediction has come down to the coming rotation, and a
\* rotation that leaves the era and the forcing alone brings it one closer.
PredictionIsExact ==
    [][session_index' # session_index =>
         /\ SessionsLeft = 0 <=>
              EraIsDue(session_index + 2, force_era,
                       eras_start_session_index[current_era])
         /\ /\ SessionsLeft \notin {0, U32}
            /\ force_era' = force_era
            => SessionsLeft' = SessionsLeft - 1]_eraVars

\* A planned era becomes the active one, whatever Root changes in between.
PlannedEraStarts ==
    \A e \in Era : (current_era = e /\ session_index < MaxSession)
                      ~> active_era >= e
=============================================================================
