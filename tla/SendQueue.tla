----------------------------- MODULE SendQueue ------------------------------
(***************************************************************************)
(* What the controller has for a client: a connection at a time, each with *)
(* a bounded queue of messages and a goroutine that writes them out.  The  *)
(* goroutine of the run, the HTTP handlers and the handler of the          *)
(* connection itself (the welcome) put messages in without waiting and     *)
(* without a lock.                                                         *)
(*                                                                         *)
(* Abstractions.  A message is its sender and its number.  What becomes of *)
(* a message once it is written to the connection is left out.  The handler*)
(* stores the new queue in the map in the step in which it makes it.       *)
(***************************************************************************)
EXTENDS Naturals, Sequences, FiniteSets

CONSTANTS
    Senders,    \* goroutines that send to the client by its ID
    Cap,        \* clientSendQueue
    \* Bounds.
    MaxConns,   \* on the number of connections
    MaxSends    \* on the number of messages of a sender

ASSUME SendQueueAssumption ==
    /\ Cap \in Nat \ {0}
    /\ MaxConns \in Nat \ {0}
    /\ MaxSends \in Nat \ {0}
    /\ Senders \cap (0..MaxConns) = {}

Conns == 1..MaxConns
NoConn == 0
Everyone == Senders \cup Conns
Messages == [by : Everyone, n : 1..MaxSends]

VARIABLES
    clients,    \* Server.clients: the connection of the client, or NoConn
    conns,      \* number of connections so far
    open,       \* the connections that are open
    done,       \* wsClient.done: the connections that are stopped
    out,        \* wsClient.out
    writer,     \* writeLoop: where it is
    hand,       \* the message it has taken (none or one)
    sender,     \* enqueue: where a sender is, the connection it holds, the
                \* number of its latest message
    \* Ghosts.
    written,    \* the messages written to each connection
    lost,       \* the messages dropped
    last,       \* the latest message put into a queue (none or one)
    rival       \* another sender has put something in since this one's look

conn == <<clients, conns, open, done>>
ghosts == <<written, lost, last, rival>>
vars == <<conn, out, writer, hand, sender, ghosts>>

SenderPCs == {"idle", "try", "drop", "retry"}
WriterPCs == {"loop", "write", "off"}

TypeOK ==
    /\ clients \in {NoConn} \cup Conns
    /\ conns \in 0..MaxConns
    /\ open \in SUBSET Conns
    /\ done \in SUBSET Conns
    /\ out \in [Conns -> Seq(Messages)]
    /\ \A c \in Conns : Len(out[c]) <= Cap
    /\ writer \in [Conns -> WriterPCs]
    /\ hand \in [Conns -> Seq(Messages)]
    /\ \A c \in Conns : Len(hand[c]) = IF writer[c] = "write" THEN 1 ELSE 0
    /\ sender \in [Everyone -> [pc : SenderPCs, conn : {NoConn} \cup Conns, n : 0..MaxSends]]
    /\ \A s \in Everyone : /\ sender[s].pc = "idle" <=> sender[s].conn = NoConn
                           /\ sender[s].n = 0 => sender[s].pc = "idle"
    /\ written \in [Conns -> Seq(Messages)]
    /\ lost \in SUBSET Messages
    /\ last \in [Conns -> SUBSET Messages]
    /\ rival \in [Everyone -> BOOLEAN]

Init ==
    /\ clients = NoConn
    /\ conns = 0
    /\ open = {}
    /\ done = {}
    /\ out = [c \in Conns |-> << >>]
    /\ writer = [c \in Conns |-> "off"]
    /\ hand = [c \in Conns |-> << >>]
    /\ sender = [s \in Everyone |-> [pc |-> "idle", conn |-> NoConn, n |-> 0]]
    /\ written = [c \in Conns |-> << >>]
    /\ lost = {}
    /\ last = [c \in Conns |-> {}]
    /\ rival = [s \in Everyone |-> FALSE]

-----------------------------------------------------------------------------
(***************************************************************************)
(* Connections                                                             *)
(***************************************************************************)

\* A client registers: the connection it had is stopped and closed, and the
\* handler of the new one sends the welcome.
Connect ==
    /\ conns < MaxConns
    /\ conns' = conns + 1
    /\ clients' = conns + 1
    /\ open' = (open \ {clients}) \cup {conns + 1}
    /\ done' = done \cup ({clients} \ {NoConn})
    /\ writer' = [writer EXCEPT ![conns + 1] = "loop"]
    /\ sender' = [sender EXCEPT ![conns + 1] = [pc |-> "try", conn |-> conns + 1, n |-> 1]]
    /\ UNCHANGED <<out, hand, ghosts>>

\* The client hangs up, the network fails, or a ping is not answered.
Break(c) ==
    /\ c \in open
    /\ open' = open \ {c}
    /\ UNCHANGED <<clients, conns, done, out, writer, hand, sender, ghosts>>

\* Its handler finds out, or the client is pruned.
Teardown(c) ==
    /\ clients = c
    /\ c \notin open
    /\ clients' = NoConn
    /\ done' = done \cup {c}
    /\ UNCHANGED <<conns, open, out, writer, hand, sender, ghosts>>

-----------------------------------------------------------------------------
(***************************************************************************)
(* Sender s: SendTo, Broadcast and BroadcastTo, with enqueue               *)
(***************************************************************************)
SenderAt(s, pc) == sender[s].pc = pc
Own(s) == [by |-> s, n |-> sender[s].n]
Full(c) == Len(out[c]) = Cap
Looked(s) == sender[s].pc \in {"drop", "retry"}
Return(s) == sender' = [sender EXCEPT ![s].pc = "idle", ![s].conn = NoConn]

\* The connection is looked up under the server's mutex, which is released
\* before the message is put in.
BeginSend(s) ==
    /\ s \in Senders
    /\ SenderAt(s, "idle")
    /\ clients # NoConn
    /\ sender[s].n < MaxSends
    /\ sender' = [sender EXCEPT ![s] = [pc |-> "try", conn |-> clients, n |-> @.n + 1]]
    /\ UNCHANGED <<conn, out, writer, hand, ghosts>>

Put(s, c) ==
    /\ out' = [out EXCEPT ![c] = Append(@, Own(s))]
    /\ last' = [last EXCEPT ![c] = {Own(s)}]
    /\ rival' = [t \in Everyone |-> t # s /\ (rival[t] \/ (sender[t].conn = c /\ Looked(t)))]
    /\ Return(s)
    /\ UNCHANGED lost

Try(s) ==
    /\ SenderAt(s, "try")
    /\ LET c == sender[s].conn
       IN  \/ ~Full(c) /\ Put(s, c)
           \/ /\ Full(c)
              /\ sender' = [sender EXCEPT ![s].pc = "drop"]
              /\ UNCHANGED <<out, lost, last, rival>>
    /\ UNCHANGED <<conn, writer, hand, written>>

\* Mutant: what is taken out goes in again.
DropOldest_Rotates(s) ==
    /\ SenderAt(s, "drop")
    /\ sender' = [sender EXCEPT ![s].pc = "retry"]
    /\ LET c == sender[s].conn
       IN  out' = [out EXCEPT ![c] = IF @ = << >> THEN @ ELSE Append(Tail(@), Head(@))]
    /\ UNCHANGED <<conn, writer, hand, ghosts>>

\* The writer may have taken all the messages since the look.
DropOldest(s) ==
    /\ SenderAt(s, "drop")
    /\ sender' = [sender EXCEPT ![s].pc = "retry"]
    /\ LET c == sender[s].conn
       IN  \/ out[c] = << >> /\ UNCHANGED <<out, lost>>
           \/ /\ out[c] # << >>
              /\ out' = [out EXCEPT ![c] = Tail(@)]
              /\ lost' = lost \cup {Head(out[c])}
    /\ UNCHANGED <<conn, writer, hand, written, last, rival>>

\* Mutant: the message is given up although there is room.
Retry_GivesUp(s) ==
    /\ SenderAt(s, "retry")
    /\ Return(s)
    /\ lost' = lost \cup {Own(s)}
    /\ rival' = [rival EXCEPT ![s] = FALSE]
    /\ UNCHANGED <<conn, out, writer, hand, written, last>>

Retry(s) ==
    /\ SenderAt(s, "retry")
    /\ LET c == sender[s].conn
       IN  \/ ~Full(c) /\ Put(s, c)
           \/ /\ Full(c)
              /\ Return(s)
              /\ lost' = lost \cup {Own(s)}
              /\ rival' = [rival EXCEPT ![s] = FALSE]
              /\ UNCHANGED <<out, last>>
    /\ UNCHANGED <<conn, writer, hand, written>>

-----------------------------------------------------------------------------
(***************************************************************************)
(* writeLoop                                                               *)
(***************************************************************************)

\* The select takes either branch when both are ready.
TakeMessage(c) ==
    /\ writer[c] = "loop"
    /\ out[c] # << >>
    /\ out' = [out EXCEPT ![c] = Tail(@)]
    /\ hand' = [hand EXCEPT ![c] = <<Head(out[c])>>]
    /\ writer' = [writer EXCEPT ![c] = "write"]
    /\ UNCHANGED <<conn, sender, ghosts>>

\* Mutant: the goroutine ends when there is nothing to write.
Exit_WhenEmpty(c) ==
    /\ writer[c] = "loop"
    /\ c \in done \/ out[c] = << >>
    /\ writer' = [writer EXCEPT ![c] = "off"]
    /\ UNCHANGED <<conn, out, hand, sender, ghosts>>

Exit(c) ==
    /\ writer[c] = "loop"
    /\ c \in done
    /\ writer' = [writer EXCEPT ![c] = "off"]
    /\ UNCHANGED <<conn, out, hand, sender, ghosts>>

\* A write that fails, or takes too long, closes the connection.
Write(c) ==
    /\ writer[c] = "write"
    /\ hand' = [hand EXCEPT ![c] = << >>]
    /\ \/ /\ c \in open
          /\ written' = [written EXCEPT ![c] = @ \o hand[c]]
          /\ writer' = [writer EXCEPT ![c] = "loop"]
          /\ UNCHANGED open
       \/ /\ open' = open \ {c}
          /\ writer' = [writer EXCEPT ![c] = "off"]
          /\ UNCHANGED written
    /\ UNCHANGED <<clients, conns, done, out, sender, lost, last, rival>>

-----------------------------------------------------------------------------
SenderNext(s) == Try(s) \/ DropOldest(s) \/ Retry(s)
WriterNext(c) == TakeMessage(c) \/ Exit(c) \/ Write(c)

Next ==
    \/ Connect
    \/ \E c \in Conns : Break(c) \/ Teardown(c) \/ WriterNext(c)
    \/ \E s \in Everyone : BeginSend(s) \/ SenderNext(s)

Spec == Init /\ [][Next]_vars

\* Goroutines are scheduled.
FairSpec ==
    /\ Spec
    /\ \A s \in Everyone : WF_vars(SenderNext(s))
    /\ \A c \in Conns : WF_vars(WriterNext(c))

-----------------------------------------------------------------------------
(***************************************************************************)
(* Properties                                                              *)
(***************************************************************************)

\* What has been written to a connection, is being written, or is queued.
Stream(c) == written[c] \o hand[c] \o out[c]
InStream(c, m) == \E i \in DOMAIN Stream(c) : Stream(c)[i] = m

\* A client receives the messages of a sender in the order in which they were
\* sent, and none twice, whatever was dropped in between.
OrderIsKept ==
    \A c \in Conns : \A i, j \in DOMAIN Stream(c) :
        i < j /\ Stream(c)[i].by = Stream(c)[j].by => Stream(c)[i].n < Stream(c)[j].n

\* A sender gives up its own message only if another one has put a message into
\* the same queue since it found the queue full: the freshest goes through.
OwnLossNeedsRival ==
    \A s \in Everyone : SenderAt(s, "retry") /\ Full(sender[s].conn) => rival[s]

\* When nobody is sending to a connection, the message put in last has not been
\* dropped, so of a burst of messages the last is written, if anything is.
FreshestSurvives ==
    \A c \in Conns :
        (\A s \in Everyone : sender[s].conn # c) => last[c] \cap lost = {}

\* In the end every message that is queued has been written, or dropped for a
\* later one, on a connection that lasts.
QueuesEmpty ==
    \A c \in Conns :
        <>[]((out[c] = << >> /\ hand[c] = << >>) \/ c \notin open \/ c \in done)

-----------------------------------------------------------------------------
(***************************************************************************)
(* Claims the code does not keep                                           *)
(***************************************************************************)

\* "Drop oldest queued message to make room": no message is dropped when there
\* is room.
DropMakesRoom ==
    [][\A s \in Everyone : DropOldest(s) /\ out # out' => Full(sender[s].conn)]_vars
=============================================================================
