---------------------------- MODULE CloudReports ----------------------------
(***************************************************************************)
(* What the terminal posts to the cloud (Index.ets): the plain reports,    *)
(* which are dropped while another report is under way; the two slots,     *)
(* alarm and actuator state, in which a newer packet replaces an older one *)
(* and which are retried until the cloud has taken the packet; and the     *)
(* command the cloud holds for the house, which is polled, carried out and *)
(* acknowledged.                                                           *)
(*                                                                         *)
(* A post is asynchronous: a poster queues it here and learns its end from *)
(* ReportEnds or CommandEnds, which CloudLink takes when the link is done. *)
(* CLOUD_SYNC_ENABLED is TRUE.  The pause after two failed plain reports   *)
(* and the intervals of the retry timers are not modelled: a report may    *)
(* come at any time or never, a timer may fire at any time.                *)
(***************************************************************************)
EXTENDS Naturals

Slots     == {"alarm", "actuator"}
Reporters == Slots \cup {"report"}
Posters   == Reporters \cup {"command"}

CONSTANTS
    Crowds,     \* bound: the sets of posters that are looked at together
    MaxPackets  \* bound: packets queued for the two slots together

ASSUME CloudBounds == Crowds \subseteq SUBSET Posters /\ MaxPackets \in Nat

VARIABLES
    crowd,      \* the posters of this behaviour
    inFlight,   \* cloudReportInFlight, cloudAlarmReportInFlight, cloudActuatorReportInFlight
    slot,       \* per slot: packets issued, the pending one, the one being posted, the timer
    command,    \* pollCloudCommand: where it is, and whether an acknowledgement has succeeded
    post        \* per poster: its call of postSecure

reportVars == <<crowd, inFlight, slot, command, post>>

ReportsInit ==
    /\ crowd \in Crowds
    /\ inFlight = [r \in Reporters |-> FALSE]
    /\ slot = [s \in Slots |-> [issued |-> 0, pending |-> 0, posting |-> 0, retry |-> FALSE]]
    /\ command = [at |-> "idle", acked |-> FALSE]
    /\ post = [p \in Posters |-> "none"]

Queued(p) == [post EXCEPT ![p] = "queued"]

\* scheduleCloudAlarmRetry, scheduleCloudActuatorRetry: a timer already set stays
Scheduled(sl, s) == [sl EXCEPT ![s].retry = TRUE]

-----------------------------------------------------------------------------
(* reportCloud: a report that finds another one under way is dropped. *)
ReportCloud ==
    /\ "report" \in crowd
    /\ \A r \in Reporters : ~inFlight[r]
    /\ inFlight' = [inFlight EXCEPT !["report"] = TRUE]
    /\ post' = Queued("report")
    /\ UNCHANGED <<crowd, slot, command>>

(* flushCloudAlarmReport, flushCloudActuatorReport up to their first await,
   called with the slots as sl. *)
Flush(s, sl) ==
    \/ /\ sl[s].pending = 0 \/ inFlight[s]
       /\ slot' = sl
       /\ UNCHANGED <<inFlight, post>>
    \/ /\ sl[s].pending # 0 /\ ~inFlight[s]
       /\ \E r \in Reporters : inFlight[r]
       /\ slot' = Scheduled(sl, s)
       /\ UNCHANGED <<inFlight, post>>
    \/ /\ sl[s].pending # 0
       /\ \A r \in Reporters : ~inFlight[r]
       /\ slot' = [sl EXCEPT ![s].posting = sl[s].pending]
       /\ inFlight' = [inFlight EXCEPT ![s] = TRUE]
       /\ post' = Queued(s)

(* queueCloudAlarmReport, queueCloudActuatorReport. *)
QueueReport(s) ==
    /\ s \in crowd
    /\ slot["alarm"].issued + slot["actuator"].issued < MaxPackets
    /\ LET new == slot[s].issued + 1
       IN  Flush(s, [slot EXCEPT ![s].issued = new, ![s].pending = new])
    /\ UNCHANGED <<crowd, command>>

RetryFires(s) ==
    /\ slot[s].retry
    /\ Flush(s, [slot EXCEPT ![s].retry = FALSE])
    /\ UNCHANGED <<crowd, command>>

(* The slot after its post ended: the packet leaves the slot only if no newer
   one replaced it; the timer is set after a failure, and for what is left. *)
\* Mutant of SlotAfter: success empties the slot, whatever is in it by now.
SlotEmptied(s, ok) ==
    LET kept == IF ok THEN 0 ELSE slot[s].pending
    IN  [slot[s] EXCEPT !.pending = kept, !.posting = 0, !.retry = @ \/ ~ok \/ kept # 0]

SlotAfter(s, ok) ==
    LET kept == IF ok /\ slot[s].pending = slot[s].posting THEN 0 ELSE slot[s].pending
    IN  [slot[s] EXCEPT !.pending = kept, !.posting = 0, !.retry = @ \/ ~ok \/ kept # 0]

(* The end of a report: finally clears its flag and sets the timers of the
   slots that were refused meanwhile: a plain report wakes the actuator only,
   each slot wakes the other. *)
ReportEnds(r, ok) ==
    LET own   == IF r \in Slots THEN [slot EXCEPT ![r] = SlotAfter(r, ok)] ELSE slot
        woken == IF r = "report" THEN {"actuator"} ELSE Slots \ {r}
    IN  /\ inFlight' = [inFlight EXCEPT ![r] = FALSE]
        /\ slot' = [s \in Slots |-> [own[s] EXCEPT
                       !.retry = @ \/ (s \in woken /\ own[s].pending # 0)]]
        /\ post' = [post EXCEPT ![r] = "none"]
        /\ UNCHANGED <<crowd, command>>

-----------------------------------------------------------------------------
(* pollCloudCommand: the timer finds no poll under way. *)
PollCommand ==
    /\ "command" \in crowd /\ command.at = "idle"
    /\ command' = [command EXCEPT !.at = "poll"]
    /\ post' = Queued("command")
    /\ UNCHANGED <<crowd, inFlight, slot>>

(* executeCloudCommand sends the command into the house and acknowledges it. *)
CarryOut ==
    /\ command.at = "carry"
    /\ command' = [command EXCEPT !.at = "yes"]
    /\ post' = Queued("command")
    /\ UNCHANGED <<crowd, inFlight, slot>>

(* It cannot be carried out now (no bridge, light busy, a passing error) and
   is left to the next poll. *)
LeaveForRetry ==
    /\ command.at = "carry"
    /\ command' = [command EXCEPT !.at = "idle"]
    /\ UNCHANGED <<crowd, inFlight, slot, post>>

(* It is refused: a kind or target the house has not ("unsupported", inside the
   try), or an error that will not pass ("no", in the catch). *)
Refuse ==
    /\ command.at = "carry"
    /\ \E a \in {"unsupported", "no"} : command' = [command EXCEPT !.at = a]
    /\ post' = Queued("command")
    /\ UNCHANGED <<crowd, inFlight, slot>>

(* The end of a poll or of an acknowledgement.  A failed acknowledgement from
   inside the try is caught: by its text it passes (the next poll finds the
   command again) or is answered with a negative acknowledgement; one that
   fails in the catch ends the poll. *)
CommandEnds(ok, found) ==
    /\ \/ /\ ok /\ command.at = "poll" /\ found
          /\ command' = [command EXCEPT !.at = "carry"]
          /\ post' = [post EXCEPT !["command"] = "none"]
       \/ /\ ~ok \/ command.at # "poll" \/ ~found
          /\ command' = [command EXCEPT !.at = "idle", !.acked = @ \/ (ok /\ command.at # "poll")]
          /\ post' = [post EXCEPT !["command"] = "none"]
       \/ /\ ~ok /\ command.at \in {"yes", "unsupported"}
          /\ command' = [command EXCEPT !.at = "no"]
          /\ post' = Queued("command")
    /\ UNCHANGED <<crowd, inFlight, slot>>

ReportsNext ==
    \/ ReportCloud
    \/ \E s \in Slots : QueueReport(s) \/ RetryFires(s)
    \/ PollCommand \/ CarryOut \/ LeaveForRetry \/ Refuse
=============================================================================
