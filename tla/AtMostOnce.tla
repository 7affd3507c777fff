----------------------------- MODULE AtMostOnce -----------------------------
(***************************************************************************)
(* What the fence promises: the effects of different runs do not mix.  A   *)
(* run has an effect only while it is the owner, nobody takes the owner's  *)
(* place before it is over, and one whose effect has landed makes way only *)
(* if it finished well or somebody who saw its last effect decided so.     *)
(***************************************************************************)
EXTENDS Integers

CONSTANTS Runs, MaxPushes

VARIABLES
    owner,     \* the run that owns the effect, 0 if nobody does
    effects,   \* the number of the last effect of each run that has landed
    well,      \* the runs that finished well
    over,      \* the runs nobody works for any more
    shown      \* the owner and effect a person was last shown, and may act on

vars == <<owner, effects, well, over, shown>>

Init ==
    /\ owner = 0
    /\ effects = [r \in Runs |-> 0]
    /\ well = {}
    /\ over = {}
    /\ shown = <<0, 0>>

Take(r) ==
    /\ owner = 0 /\ effects[r] = 0
    /\ owner' = r
    /\ UNCHANGED <<effects, well, over, shown>>

\* The effects of a run are numbered and land in order; some may never land.
Land(r) ==
    /\ owner = r
    /\ \E n \in 1..MaxPushes : n > effects[r] /\ effects' = [effects EXCEPT ![r] = n]
    /\ UNCHANGED <<owner, well, over, shown>>

FinishWell(r) ==
    /\ r \notin well
    /\ well' = well \cup {r}
    /\ UNCHANGED <<owner, effects, over, shown>>

Stop(r) ==
    /\ r \notin over
    /\ over' = over \cup {r}
    /\ UNCHANGED <<owner, effects, well, shown>>

\* An owner with nothing landed may go; one with an effect must have done well.
Leave(r) ==
    /\ owner = r /\ r \in over
    /\ effects[r] = 0 \/ r \in well
    /\ owner' = 0
    /\ UNCHANGED <<effects, well, over, shown>>

Look(r) ==
    /\ owner = r
    /\ shown' = <<r, effects[r]>>
    /\ UNCHANGED <<owner, effects, well, over>>

\* A person takes the ownership away, but not if more has landed than they saw.
Break(r) ==
    /\ owner = r /\ shown = <<r, effects[r]>>
    /\ owner' = 0 /\ shown' = <<0, 0>>
    /\ UNCHANGED <<effects, well, over>>

\* The person leaves it as it is.
Forget ==
    /\ shown' = <<0, 0>>
    /\ UNCHANGED <<owner, effects, well, over>>

Next ==
    \/ Forget
    \/ \E r \in Runs :
         Take(r) \/ Land(r) \/ FinishWell(r) \/ Stop(r) \/ Leave(r) \/ Look(r) \/ Break(r)

Spec == Init /\ [][Next]_vars
=============================================================================
