--------------------------- MODULE MessageStream ---------------------------
(***************************************************************************)
(* What the message layer promises about numbered messages, as             *)
(* MessageProtocol.h:101-103 puts it: "all commands are processed in order *)
(* exactly once.  Requests are not guaranteed to process in order and may  *)
(* execute more than once".  No two messages are the same, since each has  *)
(* a number of its own.                                                    *)
(***************************************************************************)
EXTENDS Sequences, Naturals

VARIABLES
    sent,   \* the messages sent, oldest first
    done    \* what was processed, oldest first

IsCommand(m) == m.type = "COMMAND"
Done(m)      == \E i \in DOMAIN done : done[i] = m

Init == sent = <<>> /\ done = <<>>

Send ==
    /\ Len(sent') = Len(sent) + 1
    /\ SubSeq(sent', 1, Len(sent)) = sent
    /\ \A i \in DOMAIN sent : sent[i] # sent'[Len(sent) + 1]
    /\ UNCHANGED done

Process(i) == done' = Append(done, sent[i]) /\ UNCHANGED sent

\* The oldest command that has not been processed.
ProcessCommand(i) ==
    /\ IsCommand(sent[i]) /\ ~ Done(sent[i])
    /\ \A j \in 1 .. (i - 1) : IsCommand(sent[j]) => Done(sent[j])
    /\ Process(i)

\* Any request, whether or not it has been processed before.
ProcessRequest(i) == ~ IsCommand(sent[i]) /\ Process(i)

Next == Send \/ \E i \in DOMAIN sent : ProcessCommand(i) \/ ProcessRequest(i)

Spec == Init /\ [][Next]_<<sent, done>>

\* As long as something has not been processed, something of it will be.
ProcessNew == \E i \in DOMAIN sent : ~ Done(sent[i]) /\ (ProcessCommand(i) \/ ProcessRequest(i))
FairSpec   == Spec /\ WF_<<sent, done>>(ProcessNew)
=============================================================================
