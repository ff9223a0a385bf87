----------------------------- MODULE GroupWrite -----------------------------
(***************************************************************************)
(* What the user changes on the phone besides messages: groups, blocks and *)
(* hidden contacts.  legacy_groups_write.handle turns the call into a      *)
(* command, queues it like a message (module SendPipeline) and waits 25    *)
(* seconds for its result; handleGroupCommand of bridge_worker.mjs carries *)
(* it out.  An answer other than success is an exception on the phone, and *)
(* the user may try again, which makes a new request.                      *)
(*                                                                         *)
(* A task is something the user wants done once.  The queue hands the      *)
(* bridge each request in order; what the files do is in SendPipeline.     *)
(***************************************************************************)
EXTENDS Naturals, Sequences, FiniteSets, SequencesExt

CONSTANTS
    Tasks,       \* what the user wants
    MethodOf,    \* the method of TalkService each task calls
    MaxTries,    \* bound: requests of one task
    MaxErrors,   \* bound: commands LINE refuses, or does without its answer arriving
    MaxTimeouts  \* bound: waits of 25 seconds that run out

\* What handle makes of a method; updateContactSetting is hideContact or
\* unhideContact here, as its argument says.
Command == [createGroup |-> "create", updateGroup |-> "rename",
            inviteIntoGroup |-> "invite", cancelGroupInvitation |-> "cancel_invite",
            kickoutFromGroup |-> "kickout", leaveGroup |-> "leave",
            acceptGroupInvitation |-> "accept", rejectGroupInvitation |-> "reject",
            blockContact |-> "contact_block", blockRecommendation |-> "contact_block",
            unblockContact |-> "contact_unblock", unblockRecommendation |-> "contact_unblock",
            hideContact |-> "contact_hide", unhideContact |-> "contact_unhide"]

\* Mutant: kickout is left out.
SupportedButKickout == {"create", "rename", "invite", "leave", "contact_block",
                        "contact_unblock", "contact_hide", "contact_unhide"}

\* The commands handleGroupCommand knows.
Supported == {"create", "rename", "invite", "leave", "kickout", "contact_block",
              "contact_unblock", "contact_hide", "contact_unhide"}

GroupAssumption ==
    /\ MethodOf \in [Tasks -> DOMAIN Command]
    /\ MaxTries \in Nat /\ MaxErrors \in Nat /\ MaxTimeouts \in Nat

VARIABLES
    phone,     \* what the phone knows of each task
    tries,     \* requests made for it
    queue,     \* requests queued and not reached by the bridge
    results,   \* send_out.jsonl
    performed, \* how often LINE carried out each task
    errors, timeouts

vars == <<phone, tries, queue, results, performed, errors, timeouts>>

Request(t) == [task |-> t, try |-> tries[t]]

CommandOf(t) == Command[MethodOf[t]]

-----------------------------------------------------------------------------
Init ==
    /\ phone = [t \in Tasks |-> "idle"] /\ tries = [t \in Tasks |-> 0]
    /\ queue = <<>> /\ results = {}
    /\ performed = [t \in Tasks |-> 0]
    /\ errors = 0 /\ timeouts = 0

\* _dispatch: a fresh id, a line in the queue, and the phone waits.  A task
\* that failed may be tried again.
Dispatch(t) ==
    /\ phone[t] \in {"idle", "failed"} /\ tries[t] < MaxTries
    /\ tries' = [tries EXCEPT ![t] = @ + 1]
    /\ queue' = Append(queue, [task |-> t, try |-> tries[t] + 1])
    /\ phone' = [phone EXCEPT ![t] = "waiting"]
    /\ UNCHANGED <<results, performed, errors, timeouts>>

\* A result names the request; only createChat answers with the chat, and it
\* does so as chatMid.
Result(r, ok) ==
    [request |-> r, ok |-> ok,
     fields |-> IF ok /\ CommandOf(r.task) = "create" THEN {"chatMid"} ELSE {}]

\* handleGroupCommand: an unknown command fails; LINE carries out the others,
\* refuses them, or its answer is lost.
HandleCommand ==
    /\ queue # <<>> /\ queue' = Tail(queue)
    /\ LET r == Head(queue)
           known == CommandOf(r.task) \in Supported
       IN \E does \in BOOLEAN, tells \in BOOLEAN :
            /\ known \/ ~(does \/ tells)
            /\ results' = results \cup {Result(r, does /\ tells)}
            /\ performed' = IF does THEN [performed EXCEPT ![r.task] = @ + 1] ELSE performed
            /\ errors' = IF known /\ ~(does /\ tells) THEN errors + 1 ELSE errors
            /\ errors' <= MaxErrors
    /\ UNCHANGED <<phone, tries, timeouts>>

\* The result wait_send_result finds: the one of this request.
ResultsOf(t) == {x \in results : x.request = Request(t)}

\* Does handle accept the result?  createGroup also wants a groupId.
Good(x) == x.ok /\ (CommandOf(x.request.task) = "create" => "groupId" \in x.fields)

\* handle answers: a struct, or an application exception.
Answer(t) ==
    /\ phone[t] = "waiting"
    /\ \E x \in ResultsOf(t) :
         phone' = [phone EXCEPT ![t] = IF Good(x) THEN "done" ELSE "failed"]
    /\ UNCHANGED <<tries, queue, results, performed, errors, timeouts>>

\* The 25 seconds are over: the same exception.
Timeout(t) ==
    /\ phone[t] = "waiting" /\ ResultsOf(t) = {}
    /\ timeouts < MaxTimeouts
    /\ timeouts' = timeouts + 1
    /\ phone' = [phone EXCEPT ![t] = "failed"]
    /\ UNCHANGED <<tries, queue, results, performed, errors>>

-----------------------------------------------------------------------------
Next ==
    \/ \E t \in Tasks : Dispatch(t) \/ Answer(t) \/ Timeout(t)
    \/ HandleCommand

Spec == Init /\ [][Next]_vars

FairSpec == Spec /\ WF_vars(HandleCommand) /\ \A t \in Tasks : WF_vars(Answer(t))

-----------------------------------------------------------------------------
(* Every variable has its type and keeps its bound.                          *)
TypeOK ==
    /\ phone \in [Tasks -> {"idle", "waiting", "done", "failed"}]
    /\ tries \in [Tasks -> 0..MaxTries]
    /\ queue \in Seq([task : Tasks, try : 1..MaxTries])
    /\ results \subseteq [request : [task : Tasks, try : 1..MaxTries], ok : BOOLEAN,
                          fields : SUBSET {"chatMid"}]
    /\ performed \in [Tasks -> 0..MaxTries]
    /\ errors \in 0..MaxErrors /\ timeouts \in 0..MaxTimeouts

(* What the phone was told is done, LINE has carried out, also when results  *)
(* of earlier tries of the same task come late; and no leftover request of a *)
(* try it had given up will carry it out once more.                          *)
DoneMeansPerformed ==
    \A t \in Tasks : phone[t] = "done" =>
        /\ performed[t] > 0
        /\ \A i \in 1..Len(queue) : queue[i].task # t

(* Said by the exception "Group command failed": as long as LINE refuses     *)
(* nothing and no wait runs out, a task reported as failed was not done.     *)
FailedMeansNotPerformed ==
    errors + timeouts = 0 =>
        \A t \in Tasks : phone[t] = "failed" => performed[t] = 0

(* A task whose request the bridge has still to reach when the last fault is *)
(* over gets done, behind requests that were given up; but four of the       *)
(* methods the module bridges never succeed: the bridge knows no command for *)
(* three, and the answer to createGroup names no group.                      *)
Reachable(t) ==
    /\ phone[t] = "waiting" /\ Request(t) \in ToSet(queue)
    /\ errors = MaxErrors /\ timeouts = MaxTimeouts
    /\ MethodOf[t] \notin {"createGroup", "cancelGroupInvitation",
                            "acceptGroupInvitation", "rejectGroupInvitation"}
TaskGetsDone == \A t \in Tasks : Reachable(t) ~> phone[t] = "done"
=============================================================================
