------------------------------ MODULE TaskLife ------------------------------
(***************************************************************************)
(* What whoever submits a task is promised of it, through cancels and      *)
(* restarts of the daemon: it is worked on by one job at a time, an        *)
(* attempt has one job in all, another attempt begins only after a job     *)
(* that said the usage ran out, only a task's last job can say that it     *)
(* succeeded, and it has not failed while a job of it is alive.            *)
(***************************************************************************)
EXTENDS Integers

CONSTANTS Tasks, Attempts, Outcomes

VARIABLES
    phase,     \* where a task stands
    begun,     \* how many attempts were begun
    job,       \* the job of each attempt: "none", "live" or "done"
    word       \* what a job of the task has said last, and which one

vars == <<phase, begun, job, word>>

Nothing == [out |-> "none", by |-> 0]
Over    == {"succeeded", "failed", "lost", "cancelled"}

Init ==
    /\ phase = [t \in Tasks |-> "none"]
    /\ begun = [t \in Tasks |-> 0]
    /\ job = [t \in Tasks |-> [a \in Attempts |-> "none"]]
    /\ word = [t \in Tasks |-> Nothing]

Quiet(t)    == \A a \in Attempts : job[t][a] # "live"
MayBegin(t) == Quiet(t) /\ (begun[t] = 0 \/ word[t].out = "limit")

\* The attempt that was begun last has no job yet.
Idle(t) == begun[t] # 0 /\ job[t][begun[t]] = "none"

Enter(t, p) == phase' = [phase EXCEPT ![t] = p]

Submit(t) ==
    /\ phase[t] = "none"
    /\ Enter(t, "waiting")
    /\ UNCHANGED <<begun, job, word>>

\* A cancel may come too late to keep the task from being begun.
Begin(t) ==
    /\ phase[t] \in {"waiting", "cancelled"} /\ MayBegin(t)
    /\ Enter(t, "running")
    /\ begun' = [begun EXCEPT ![t] = @ + 1]
    /\ UNCHANGED <<job, word>>

\* The word of an earlier job is forgotten before the job of this attempt starts.
Forget(t) ==
    /\ phase[t] \in {"running", "cancelled", "gone"} /\ Idle(t)
    /\ word' = [word EXCEPT ![t] = Nothing]
    /\ UNCHANGED <<phase, begun, job>>

StartJob(t) ==
    /\ phase[t] \in {"running", "cancelled"}
    /\ Idle(t) /\ Quiet(t) /\ word[t].out = "none"
    /\ job' = [job EXCEPT ![t][begun[t]] = "live"]
    /\ UNCHANGED <<phase, begun, word>>

\* A job speaks once, at its end, or not at all.
Speak(t, a) ==
    /\ job[t][a] = "live" /\ a = begun[t] /\ phase[t] # "gone"
    /\ job' = [job EXCEPT ![t][a] = "done"]
    /\ \E out \in Outcomes : word' = [word EXCEPT ![t] = [out |-> out, by |-> a]]
    /\ UNCHANGED <<phase, begun>>

End(t, a) ==
    /\ job[t][a] = "live"
    /\ job' = [job EXCEPT ![t][a] = "done"]
    /\ UNCHANGED <<phase, begun, word>>

Succeed(t) ==
    /\ phase[t] = "running" /\ Quiet(t)
    /\ word[t] = [out |-> "ok", by |-> begun[t]]
    /\ Enter(t, "succeeded")
    /\ UNCHANGED <<begun, job, word>>

Fail(t) ==
    /\ phase[t] = "running" /\ Quiet(t)
    /\ Enter(t, "failed")
    /\ UNCHANGED <<begun, job, word>>

\* A job nobody finds is given up; it may be alive.
Lose(t) ==
    /\ phase[t] = "running"
    /\ Enter(t, "lost")
    /\ UNCHANGED <<begun, job, word>>

\* A task whose job ran out of usage waits again, and so does one that a cancel
\* reached too late.
PutBack(t) ==
    /\ phase[t] \in {"running", "cancelled"} /\ MayBegin(t)
    /\ Enter(t, "waiting")
    /\ UNCHANGED <<begun, job, word>>

Cancel(t) ==
    /\ phase[t] \in {"waiting", "running"}
    /\ Enter(t, "cancelled")
    /\ UNCHANGED <<begun, job, word>>

Drop(t) ==
    /\ phase[t] \in Over
    /\ Enter(t, "gone")
    /\ word' = [word EXCEPT ![t] = Nothing]
    /\ UNCHANGED <<begun, job>>

Next ==
    \E t \in Tasks :
        \/ Submit(t) \/ Begin(t) \/ Forget(t) \/ StartJob(t)
        \/ Succeed(t) \/ Fail(t) \/ Lose(t) \/ PutBack(t) \/ Cancel(t) \/ Drop(t)
        \/ \E a \in Attempts : Speak(t, a) \/ End(t, a)

Spec == Init /\ [][Next]_vars
=============================================================================
