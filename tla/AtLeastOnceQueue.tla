-------------------------- MODULE AtLeastOnceQueue --------------------------
(***************************************************************************)
(* What the reliable Redis queue promises for the copies of a payload: a   *)
(* copy is delivered, rejected and delivered again until it is done or out *)
(* of attempts.  It never comes back once it is settled, and its           *)
(* rejections only count up.  The implementation leaves two holes: a retry *)
(* is not atomic (Lose), and a push whose reply is lost is made again: a   *)
(* submission or a rejection then leaves one copy too many, each counted   *)
(* in doubled.                                                             *)
(***************************************************************************)
EXTENDS Integers

CONSTANTS
    Payloads,     (* what gets enqueued                                      *)
    MaxAttempts   (* rejections after which a copy is dead                   *)

VARIABLES
    open,    (* open[p][n]: copies of p still to be served, rejected n times *)
    done,    (* copies of each payload that are done,                        *)
    dead,    (* out of attempts,                                             *)
    lost,    (* or lost                                                      *)
    doubled  (* copies that exist because a push was made again              *)

vars == <<open, done, dead, lost, doubled>>

Rejections == 0..(MaxAttempts - 1)
None == [p \in Payloads |-> 0]
OneMore(count, p) == [count EXCEPT ![p] = @ + 1]

Init ==
    /\ open = [p \in Payloads |-> [n \in Rejections |-> 0]]
    /\ done = None /\ dead = None /\ lost = None /\ doubled = None

Submit(p) ==
    /\ open' = [open EXCEPT ![p][0] = @ + 1]
    /\ UNCHANGED <<done, dead, lost, doubled>>

Reject(p, n) ==
    /\ open[p][n] > 0
    /\ n + 1 \in Rejections
    /\ open' = [open EXCEPT ![p][n] = @ - 1, ![p][n + 1] = @ + 1]
    /\ UNCHANGED <<done, dead, lost, doubled>>

Settle(p, n) ==
    /\ open[p][n] > 0
    /\ open' = [open EXCEPT ![p][n] = @ - 1]

Complete(p, n) ==
    Settle(p, n) /\ done' = OneMore(done, p) /\ UNCHANGED <<dead, lost, doubled>>
Bury(p) ==
    /\ Settle(p, MaxAttempts - 1)
    /\ dead' = OneMore(dead, p)
    /\ UNCHANGED <<done, lost, doubled>>
Lose(p, n) ==
    Settle(p, n) /\ lost' = OneMore(lost, p) /\ UNCHANGED <<done, dead, doubled>>

\* The push of a submission, or of a rejected copy, that will be made again: the copy
\* it is made for is still there.
SubmitTwice(p) ==
    /\ open' = [open EXCEPT ![p][0] = @ + 1]
    /\ doubled' = OneMore(doubled, p)
    /\ UNCHANGED <<done, dead, lost>>

RejectTwice(p, n) ==
    /\ open[p][n] > 0
    /\ n + 1 \in Rejections
    /\ open' = [open EXCEPT ![p][n + 1] = @ + 1]
    /\ doubled' = OneMore(doubled, p)
    /\ UNCHANGED <<done, dead, lost>>

BuryTwice(p) ==
    /\ open[p][MaxAttempts - 1] > 0
    /\ dead' = OneMore(dead, p)
    /\ doubled' = OneMore(doubled, p)
    /\ UNCHANGED <<open, done, lost>>

Next == \E p \in Payloads :
    \/ Submit(p) \/ SubmitTwice(p) \/ Bury(p) \/ BuryTwice(p)
    \/ \E n \in Rejections : \/ Reject(p, n) \/ RejectTwice(p, n)
                            \/ Complete(p, n) \/ Lose(p, n)

Spec == Init /\ [][Next]_vars

=============================================================================
