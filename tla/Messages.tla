------------------------------- MODULE Messages -------------------------------
(***************************************************************************)
(* Direct messages (modules/messages/messages.service.ts).  The thread of  *)
(* a pair is made by the first message.  Its document carries the last     *)
(* message and how many each of the two has not read; a send and a read    *)
(* change the document they read before and save it.                       *)
(***************************************************************************)
EXTENDS Social, Notices

VARIABLES
    threads,    \* thread -> [pair, last, unread]; its id is the request that made it
    messages    \* message -> [thread, from, to]; its id is the request that sent it

messageVars == <<threads, messages>>

None == 0

Thread(pair) == [pair |-> pair, last |-> None, unread |-> [u \in pair |-> 0]]

MessagesInit == threads = <<>> /\ messages = <<>>

pairOf(r) == {call(r).user, call(r).to}
threadsOf(pair) == {t \in DOMAIN threads : threads[t].pair = pair}

------------------------------------------------------------------------------
\* sendMessage.

Send(r) ==
    /\ Begins(r, "send")
    /\ Passes(r, IF call(r).user # call(r).to /\ call(r).to \in People THEN "sendFind" ELSE "failed")
    /\ UNCHANGED messageVars

\* r has the document of the pair's thread.
Opens(r, t, document) ==
    Learns(r, [thread |-> t, doc |-> document]) /\ Goes(r, "sendMessage")

\* findOrCreateConversation: found, made, or found made by another.
SendFind(r) ==
    /\ pc[r] \in {"sendFind", "sendWinner"}
    /\ IF threadsOf(pairOf(r)) = {} THEN UNCHANGED job /\ Goes(r, "sendCreate")
       ELSE \E t \in threadsOf(pairOf(r)) : Opens(r, t, threads[t])
    /\ UNCHANGED <<ledger, messageVars>>

MutantSendCreate(r) ==
    /\ pc[r] = "sendCreate"
    /\ threads' = Put(threads, r, Thread(pairOf(r))) /\ Opens(r, r, Thread(pairOf(r)))
    /\ UNCHANGED <<ledger, messages>>

SendCreate(r) ==
    /\ pc[r] = "sendCreate"
    /\ IF threadsOf(pairOf(r)) = {}
       THEN threads' = Put(threads, r, Thread(pairOf(r))) /\ Opens(r, r, Thread(pairOf(r)))
       ELSE UNCHANGED <<threads, job>> /\ Goes(r, "sendWinner")
    /\ UNCHANGED <<ledger, messages>>

SendMessage(r) ==
    /\ pc[r] = "sendMessage"
    /\ messages' = Put(messages, r,
                         [thread |-> job[r].thread, from |-> call(r).user, to |-> call(r).to])
    /\ Passes(r, "sendSave") /\ UNCHANGED threads

\* save(): the last message, and the counters that differ from those read.
SaveThread(r, last, unread, to) ==
    /\ threads' = [threads EXCEPT ![job[r].thread].last = last,
                                  ![job[r].thread].unread = Saves(@, job[r].doc.unread, unread)]
    /\ Passes(r, to) /\ UNCHANGED messages

SendSave(r) ==
    /\ pc[r] = "sendSave"
    /\ SaveThread(r, r, [job[r].doc.unread EXCEPT ![call(r).to] = @ + 1], "sendNotice")

SendNotice(r) ==
    /\ pc[r] = "sendNotice"
    /\ Notify(r, call(r).to)
    /\ Passes(r, "done") /\ UNCHANGED messageVars

------------------------------------------------------------------------------
\* markRead.

ReadThread(r) ==
    LET mine == threadsOf(pairOf(r)) IN
    /\ Begins(r, "readThread")
    /\ IF \E t \in mine : threads[t].unread[call(r).user] > 0
       THEN \E t \in mine :
               /\ Learns(r, [thread |-> t, doc |-> threads[t]]) /\ Goes(r, "readSave")
               /\ UNCHANGED ledger
       ELSE Passes(r, "done")
    /\ UNCHANGED messageVars

\* `seen` is what the reader's app shows him when the answer comes.
ReadSave(r) ==
    LET t == job[r].thread IN
    /\ pc[r] = "readSave"
    /\ threads' = [threads EXCEPT ![t].unread = Saves(@, job[r].doc.unread,
                       [job[r].doc.unread EXCEPT ![call(r).user] = 0])]
    /\ Learns(r, [seen |-> {m \in DOMAIN messages : messages[m].thread = t}])
    /\ Goes(r, "done") /\ UNCHANGED <<ledger, messages>>

MessagesStep(r) ==
    \/ Send(r) /\ UNCHANGED noticeVars
    \/ SendFind(r) /\ UNCHANGED noticeVars
    \/ SendCreate(r) /\ UNCHANGED noticeVars
    \/ SendMessage(r) /\ UNCHANGED noticeVars
    \/ SendSave(r) /\ UNCHANGED noticeVars
    \/ SendNotice(r)
    \/ ReadThread(r) /\ UNCHANGED noticeVars
    \/ ReadSave(r) /\ UNCHANGED noticeVars

------------------------------------------------------------------------------
\* The property.

\* The messages to u that no read of his has covered.
Unseen(u, t) ==
    {m \in DOMAIN messages : messages[m].thread = t /\ messages[m].to = u}
        \ UNION {job[r].seen : r \in {q \in Requests : "seen" \in DOMAIN job[q]
                                                        /\ call(q).user = u}}

\* sendMessage and markRead: however the first messages of a pair overlap, from both sides,
\* all of them are in the one thread of the two, and each answered one left one notice to
\* its recipient; and when calls wait for each other and none dies, a thread's counters are
\* the messages not yet read, and its preview is a message of its own.
ThreadsHold ==
    /\ \A m \in DOMAIN messages :
          /\ threadsOf({messages[m].from, messages[m].to}) = {messages[m].thread}
          /\ pc[m] = "done" => <<m, messages[m].to>> \in DOMAIN inbox
    /\ load.patient /\ stops = 0 /\ (\A r \in Requests : pc[r] \in Over \cup {"idle"}) =>
          \A t \in DOMAIN threads :
              /\ messages[threads[t].last].thread = t
              /\ \A u \in threads[t].pair : threads[t].unread[u] = Cardinality(Unseen(u, t))
==============================================================================
