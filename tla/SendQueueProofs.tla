--------------------------- MODULE SendQueueProofs ---------------------------
(***************************************************************************)
(* Proofs about SendQueue, for any senders, capacity, and number of        *)
(* connections and messages.                                               *)
(***************************************************************************)
EXTENDS SendQueue, TLAPS

-----------------------------------------------------------------------------
(***************************************************************************)
(* Types.  The handler of a connection sends nothing before it is there.   *)
(***************************************************************************)
SenderStates == [pc : SenderPCs, conn : {NoConn} \cup Conns, n : 0..MaxSends]

NewAreSilent == \A c \in Conns : c > conns => sender[c].n = 0

\* Nor is there a goroutine that writes.
NewAreOff == \A c \in Conns : c > conns => writer[c] = "off"

TypeInv == TypeOK /\ NewAreSilent /\ NewAreOff

LEMMA ConnsAreNumbers ==
    /\ Conns \subseteq Nat
    /\ NoConn \notin Conns
    /\ Senders \cap Conns = {}
    /\ Senders \subseteq Everyone
    /\ Conns \subseteq Everyone
    /\ MaxSends \in Nat /\ MaxConns \in Nat /\ Cap \in Nat /\ Cap > 0
    /\ 0 \in 0..MaxSends /\ 1 \in 0..MaxSends
  BY SendQueueAssumption DEF Conns, NoConn, Everyone

LEMMA InitTypeInv == Init => TypeInv
  <1> SUFFICES ASSUME Init PROVE TypeInv
    OBVIOUS
  <1>1. sender \in [Everyone -> SenderStates]
    BY ConnsAreNumbers DEF Init, SenderStates, SenderPCs
  <1>2. /\ out \in [Conns -> Seq(Messages)]
        /\ hand \in [Conns -> Seq(Messages)]
        /\ written \in [Conns -> Seq(Messages)]
    BY DEF Init
  <1>3. \A c \in Conns : Len(out[c]) <= Cap /\ Len(hand[c]) = 0
    BY ConnsAreNumbers DEF Init
  <1>4. conns \in 0..MaxConns
    BY ConnsAreNumbers DEF Init
  <1> QED BY <1>1, <1>2, <1>3, <1>4, ConnsAreNumbers
          DEF Init, TypeInv, TypeOK, NewAreSilent, NewAreOff, SenderStates, WriterPCs,
              Everyone

\* The message a sender is about to put in is a message.
LEMMA OwnIsMessage ==
    ASSUME TypeInv, NEW s \in Everyone, ~SenderAt(s, "idle")
    PROVE  /\ Own(s) \in Messages
           /\ sender[s].conn \in Conns
  BY ConnsAreNumbers DEF TypeInv, TypeOK, SenderAt, Own, Messages

\* Sender s moves to the state `new', the other senders stay where they are.
LEMMA SenderMoves ==
    ASSUME TypeInv, NEW s \in Everyone, NEW new \in SenderStates,
           new.pc = "idle" <=> new.conn = NoConn,
           new.n = 0 => new.pc = "idle",
           s \in Conns => s <= conns \/ new.n = 0,
           conns' = conns,
           sender' = [sender EXCEPT ![s] = new]
    PROVE  /\ sender' \in [Everyone -> SenderStates]
           /\ \A t \in Everyone : /\ sender'[t].pc = "idle" <=> sender'[t].conn = NoConn
                                  /\ sender'[t].n = 0 => sender'[t].pc = "idle"
           /\ NewAreSilent'
  <1>1. sender \in [Everyone -> SenderStates] /\ conns \in Nat
    BY DEF TypeInv, TypeOK, SenderStates
  <1>2. \A t \in Everyone : sender'[t] = IF t = s THEN new ELSE sender[t]
    BY <1>1
  <1>3. sender' \in [Everyone -> SenderStates]
    BY <1>1
  <1>4. NewAreSilent'
    BY <1>1, <1>2, ConnsAreNumbers DEF TypeInv, NewAreSilent
  <1> QED BY <1>2, <1>3, <1>4 DEF TypeInv, TypeOK

LEMMA AtWorkIsThere ==
    ASSUME TypeInv, NEW s \in Everyone, ~SenderAt(s, "idle")
    PROVE  /\ sender[s].n \in 1..MaxSends
           /\ s \in Conns => s <= conns
  BY ConnsAreNumbers DEF TypeInv, TypeOK, NewAreSilent, SenderAt

LEMMA NextTypeInv == TypeInv /\ [Next]_vars => TypeInv'
  <1> SUFFICES ASSUME TypeInv, [Next]_vars PROVE TypeInv'
    OBVIOUS
  <1> USE ConnsAreNumbers
  <1>0. sender \in [Everyone -> SenderStates]
    BY DEF TypeInv, TypeOK, SenderStates
  <1>1. CASE Connect
    <2> DEFINE new == [pc |-> "try", conn |-> conns + 1, n |-> 1]
    <2>1. conns + 1 \in Conns /\ conns' = conns + 1 /\ conns \in Nat
      BY <1>1 DEF Connect, Conns, TypeInv, TypeOK
    <2>2. new \in SenderStates /\ new.pc = "try" /\ new.conn # NoConn /\ new.n = 1
      BY <2>1 DEF SenderStates, SenderPCs
    <2>3. sender' = [sender EXCEPT ![conns + 1] = new]
      BY <1>1 DEF Connect
    <2> HIDE DEF new
    <2>4. /\ sender' \in [Everyone -> SenderStates]
          /\ \A t \in Everyone : sender'[t] = IF t = conns + 1 THEN new ELSE sender[t]
      BY <1>0, <2>1, <2>2, <2>3
    <2>5. NewAreSilent'
      <3> SUFFICES ASSUME NEW c \in Conns, c > conns' PROVE sender'[c].n = 0
        BY DEF NewAreSilent
      <3>1. c # conns + 1 /\ c > conns /\ c \in Everyone
        BY <2>1 DEF Conns, Everyone
      <3>2. sender'[c] = sender[c]
        BY <2>4, <3>1
      <3> QED BY <3>1, <3>2 DEF TypeInv, NewAreSilent
    <2>6. /\ clients' \in {NoConn} \cup Conns
          /\ open' \in SUBSET Conns
          /\ done' \in SUBSET Conns
      BY <1>1, <2>1 DEF Connect, TypeInv, TypeOK
    <2>7. conns' \in 0..MaxConns
      BY <1>1 DEF Connect, TypeInv, TypeOK
    <2>8. /\ writer' \in [Conns -> WriterPCs]
          /\ writer[conns + 1] = "off"
          /\ \A c \in Conns : writer'[c] = IF c = conns + 1 THEN "loop" ELSE writer[c]
      BY <1>1, <2>1 DEF Connect, TypeInv, TypeOK, NewAreOff, WriterPCs
    <2>9. \A c \in Conns : Len(hand'[c]) = IF writer'[c] = "write" THEN 1 ELSE 0
      BY <1>1, <2>1, <2>8 DEF Connect, TypeInv, TypeOK
    <2>10. NewAreOff'
      BY <2>1, <2>8 DEF TypeInv, NewAreOff
    <2>11. \A t \in Everyone : /\ sender'[t].pc = "idle" <=> sender'[t].conn = NoConn
                               /\ sender'[t].n = 0 => sender'[t].pc = "idle"
      BY <2>2, <2>4 DEF TypeInv, TypeOK
    <2>12. UNCHANGED <<out, hand, written, lost, last, rival>>
      BY <1>1 DEF Connect, ghosts
    <2> QED BY <2>4, <2>5, <2>6, <2>7, <2>8, <2>9, <2>10, <2>11, <2>12
            DEF TypeInv, TypeOK, SenderStates
  <1>2. ASSUME NEW c \in Conns, Break(c) \/ Teardown(c) PROVE TypeInv'
    <2>1. CASE Break(c)
      BY <2>1 DEF Break, TypeInv, TypeOK, NewAreSilent, NewAreOff, ghosts
    <2>2. CASE Teardown(c)
      BY <2>2 DEF Teardown, TypeInv, TypeOK, NewAreSilent, NewAreOff, ghosts
    <2> QED BY <1>2, <2>1, <2>2
  <1>3. ASSUME NEW c \in Conns, TakeMessage(c) PROVE TypeInv'
    <2>1. /\ out[c] \in Seq(Messages) /\ out[c] # << >>
          /\ Head(out[c]) \in Messages
          /\ Tail(out[c]) \in Seq(Messages)
          /\ Len(Tail(out[c])) <= Cap
      BY <1>3 DEF TakeMessage, TypeInv, TypeOK
    <2>2. <<Head(out[c])>> \in Seq(Messages) /\ Len(<<Head(out[c])>>) = 1
      BY <2>1
    <2> QED BY <1>3, <2>1, <2>2
            DEF TakeMessage, TypeInv, TypeOK, NewAreSilent, NewAreOff, WriterPCs, conn,
                ghosts
  <1>4. ASSUME NEW c \in Conns, Exit(c) PROVE TypeInv'
    BY <1>4 DEF Exit, TypeInv, TypeOK, NewAreSilent, NewAreOff, WriterPCs, conn, ghosts
  <1>5. ASSUME NEW c \in Conns, Write(c) PROVE TypeInv'
    <2>1. hand' \in [Conns -> Seq(Messages)]
      BY <1>5 DEF Write, TypeInv, TypeOK
    <2>2. /\ writer' \in [Conns -> WriterPCs]
          /\ \A d \in Conns : Len(hand'[d]) = IF writer'[d] = "write" THEN 1 ELSE 0
      <3>1. /\ hand \in [Conns -> Seq(Messages)]
            /\ writer \in [Conns -> WriterPCs]
            /\ \A d \in Conns : Len(hand[d]) = IF writer[d] = "write" THEN 1 ELSE 0
        BY DEF TypeInv, TypeOK
      <3>2. PICK pc \in {"loop", "off"} : writer' = [writer EXCEPT ![c] = pc]
        BY <1>5 DEF Write
      <3>3. hand' = [hand EXCEPT ![c] = << >>]
        BY <1>5 DEF Write
      <3>4. Len(<< >>) = 0
        OBVIOUS
      <3>5. writer' \in [Conns -> WriterPCs]
        BY <3>1, <3>2 DEF WriterPCs
      <3>6. pc # "write"
        BY <3>2
      <3>7. ASSUME NEW d \in Conns
            PROVE  Len(hand'[d]) = IF writer'[d] = "write" THEN 1 ELSE 0
        <4>1. CASE c = d
          BY <3>1, <3>2, <3>3, <3>4, <3>6, <4>1
        <4>2. CASE c # d
          BY <3>1, <3>2, <3>3, <4>2
        <4> QED BY <4>1, <4>2
      <3> QED BY <3>5, <3>7
    <2>3. written[c] \o hand[c] \in Seq(Messages)
      BY DEF TypeInv, TypeOK
    <2>4. written' \in [Conns -> Seq(Messages)]
      <3>1. written \in [Conns -> Seq(Messages)]
        BY DEF TypeInv, TypeOK
      <3>2. written' = written \/ written' = [written EXCEPT ![c] = @ \o hand[c]]
        BY <1>5 DEF Write
      <3> QED BY <2>3, <3>1, <3>2
    <2>5. open' \in SUBSET Conns
      BY <1>5 DEF Write, TypeInv, TypeOK
    <2>6. NewAreSilent' /\ NewAreOff'
      <3>1. \A d \in Conns : writer[d] = "off" => writer'[d] = "off"
        BY <1>5 DEF Write, TypeInv, TypeOK
      <3> QED BY <1>5, <3>1 DEF Write, TypeInv, NewAreSilent, NewAreOff
    <2> QED BY <1>5, <2>1, <2>2, <2>4, <2>5, <2>6 DEF Write, TypeInv, TypeOK
  <1>6. ASSUME NEW s \in Everyone, BeginSend(s) PROVE TypeInv'
    <2> DEFINE new == [pc |-> "try", conn |-> clients, n |-> sender[s].n + 1]
    <2>1. /\ new \in SenderStates /\ new.pc = "try" /\ new.conn # NoConn
          /\ new.n # 0 /\ s \notin Conns
      BY <1>0, <1>6 DEF BeginSend, TypeInv, TypeOK, SenderStates, SenderPCs
    <2>2. sender' = [sender EXCEPT ![s] = new] /\ conns' = conns
      BY <1>6 DEF BeginSend, conn
    <2> HIDE DEF new
    <2>3. /\ sender' \in [Everyone -> SenderStates]
          /\ \A t \in Everyone : /\ sender'[t].pc = "idle" <=> sender'[t].conn = NoConn
                                 /\ sender'[t].n = 0 => sender'[t].pc = "idle"
          /\ NewAreSilent'
      BY <2>1, <2>2, SenderMoves
    <2> QED BY <1>6, <2>3 DEF BeginSend, TypeInv, TypeOK, NewAreOff, SenderStates,
               conn, ghosts
  <1>7. ASSUME NEW s \in Everyone, NEW pc \in {"drop", "retry"}, ~SenderAt(s, "idle"),
               sender' = [sender EXCEPT ![s].pc = pc], conns' = conns
        PROVE  /\ sender' \in [Everyone -> SenderStates]
               /\ \A t \in Everyone : /\ sender'[t].pc = "idle" <=> sender'[t].conn = NoConn
                                      /\ sender'[t].n = 0 => sender'[t].pc = "idle"
               /\ NewAreSilent'
    <2> DEFINE new == [sender[s] EXCEPT !.pc = pc]
    <2>1. /\ new \in SenderStates /\ new.pc = pc /\ new.conn = sender[s].conn
          /\ new.n = sender[s].n
      BY <1>0, <1>7 DEF SenderStates, SenderPCs
    <2>2. new.conn # NoConn /\ new.n # 0 /\ (s \in Conns => s <= conns)
      BY <1>7, <2>1, OwnIsMessage, AtWorkIsThere
    <2>3. sender' = [sender EXCEPT ![s] = new]
      BY <1>0, <1>7
    <2> HIDE DEF new
    <2> QED BY <1>7, <2>1, <2>2, <2>3, SenderMoves
  <1>8. ASSUME NEW s \in Everyone, ~SenderAt(s, "idle"), Return(s), conns' = conns
        PROVE  /\ sender' \in [Everyone -> SenderStates]
               /\ \A t \in Everyone : /\ sender'[t].pc = "idle" <=> sender'[t].conn = NoConn
                                      /\ sender'[t].n = 0 => sender'[t].pc = "idle"
               /\ NewAreSilent'
    <2> DEFINE new == [sender[s] EXCEPT !.pc = "idle", !.conn = NoConn]
    <2>0. sender[s] \in SenderStates
      BY <1>0
    <2>1. /\ new \in SenderStates /\ new.pc = "idle" /\ new.conn = NoConn
          /\ new.n = sender[s].n
      BY <2>0 DEF SenderStates, SenderPCs
    <2>2. s \in Conns => s <= conns
      BY <1>8, AtWorkIsThere
    <2>3. sender' = [sender EXCEPT ![s] = new]
      BY <1>0, <1>8 DEF Return
    <2> HIDE DEF new
    <2> QED BY <1>8, <2>1, <2>2, <2>3, SenderMoves
  <1>9. ASSUME NEW s \in Everyone, ~SenderAt(s, "idle"), ~Full(sender[s].conn),
               Put(s, sender[s].conn), UNCHANGED <<conn, writer, hand, written>>
        PROVE  TypeInv'
    <2> DEFINE c == sender[s].conn
    <2>1. Own(s) \in Messages /\ c \in Conns
      BY <1>9, OwnIsMessage
    <2>2. out[c] \in Seq(Messages) /\ Len(out[c]) < Cap
      <3>1. out[c] \in Seq(Messages) /\ Len(out[c]) <= Cap
        BY <2>1 DEF TypeInv, TypeOK
      <3>2. Len(out[c]) # Cap
        BY <1>9 DEF Full
      <3>3. Len(out[c]) \in Nat
        BY <3>1
      <3> QED BY <3>1, <3>2, <3>3
    <2>3. Append(out[c], Own(s)) \in Seq(Messages) /\ Len(Append(out[c], Own(s))) <= Cap
      BY <2>1, <2>2
    <2>4. out' = [out EXCEPT ![c] = Append(out[c], Own(s))]
      BY <1>9 DEF Put
    <2>5. out' \in [Conns -> Seq(Messages)] /\ \A d \in Conns : Len(out'[d]) <= Cap
      BY <2>1, <2>3, <2>4 DEF TypeInv, TypeOK
    <2>6. last' \in [Conns -> SUBSET Messages] /\ rival' \in [Everyone -> BOOLEAN]
      BY <1>9, <2>1 DEF Put, TypeInv, TypeOK
    <2> QED BY <1>8, <1>9, <2>5, <2>6 DEF Put, TypeInv, TypeOK, NewAreOff,
               SenderStates, conn
  <1>10. ASSUME NEW s \in Everyone, Try(s) PROVE TypeInv'
    <2>1. CASE ~Full(sender[s].conn) /\ Put(s, sender[s].conn)
      BY <1>9, <1>10, <2>1 DEF Try, SenderAt
    <2>2. CASE ~(~Full(sender[s].conn) /\ Put(s, sender[s].conn))
      BY <1>7, <1>10, <2>2 DEF Try, SenderAt, TypeInv, TypeOK, NewAreOff,
         SenderStates, conn
    <2> QED BY <2>1, <2>2
  <1>11. ASSUME NEW s \in Everyone, DropOldest(s) PROVE TypeInv'
    <2> DEFINE c == sender[s].conn
    <2>1. c \in Conns
      BY <1>11, OwnIsMessage DEF DropOldest, SenderAt
    <2>2. /\ out' \in [Conns -> Seq(Messages)]
          /\ \A d \in Conns : Len(out'[d]) <= Cap
          /\ lost' \in SUBSET Messages
      <3>1. CASE out[c] = << >>
        BY <1>11, <3>1 DEF DropOldest, TypeInv, TypeOK
      <3>2. CASE out[c] # << >>
        <4>1. /\ Head(out[c]) \in Messages
              /\ Tail(out[c]) \in Seq(Messages)
              /\ Len(Tail(out[c])) <= Cap
          <5>1. out[c] \in Seq(Messages) /\ Len(out[c]) <= Cap
            BY <2>1 DEF TypeInv, TypeOK
          <5> HIDE DEF c
          <5> QED BY <3>2, <5>1
        <4>2. out' = [out EXCEPT ![c] = Tail(out[c])] /\ lost' = lost \cup {Head(out[c])}
          BY <1>11, <3>2 DEF DropOldest
        <4> HIDE DEF c
        <4> QED BY <2>1, <4>1, <4>2 DEF TypeInv, TypeOK
      <3> QED BY <3>1, <3>2
    <2> QED BY <1>7, <1>11, <2>2
            DEF DropOldest, SenderAt, TypeInv, TypeOK, NewAreOff, SenderStates, conn
  <1>12. ASSUME NEW s \in Everyone, Retry(s) PROVE TypeInv'
    <2>1. CASE ~Full(sender[s].conn) /\ Put(s, sender[s].conn)
      BY <1>9, <1>12, <2>1 DEF Retry, SenderAt
    <2>2. CASE ~(~Full(sender[s].conn) /\ Put(s, sender[s].conn))
      <3>1. Own(s) \in Messages
        BY <1>12, OwnIsMessage DEF Retry, SenderAt
      <3>2. lost' \in SUBSET Messages /\ rival' \in [Everyone -> BOOLEAN]
        BY <1>12, <2>2, <3>1 DEF Retry, TypeInv, TypeOK
      <3> QED BY <1>8, <1>12, <2>2, <3>2
              DEF Retry, SenderAt, TypeInv, TypeOK, NewAreOff, SenderStates, conn
    <2> QED BY <2>1, <2>2
  <1>13. CASE UNCHANGED vars
    BY <1>13 DEF vars, conn, ghosts, TypeInv, TypeOK, NewAreSilent, NewAreOff
  <1> QED BY <1>1, <1>2, <1>3, <1>4, <1>5, <1>6, <1>10, <1>11, <1>12, <1>13
          DEF Next, WriterNext, SenderNext

LEMMA AlwaysTypeInv == Spec => []TypeInv
  BY InitTypeInv, NextTypeInv, PTL DEF Spec

\* Every variable keeps its type; no queue grows beyond its capacity.
THEOREM TypeCorrect == Spec => []TypeOK
  BY AlwaysTypeInv, PTL DEF TypeInv

-----------------------------------------------------------------------------
(***************************************************************************)
(* Room.  A sender that has made room finds room, but for a rival.         *)
(***************************************************************************)
LEMMA NextOwnLossNeedsRival ==
    ASSUME TypeInv, TypeInv', OwnLossNeedsRival, [Next]_vars
    PROVE  OwnLossNeedsRival'
  <1> SUFFICES ASSUME NEW s \in Everyone, sender'[s].pc = "retry",
                      Len(out'[sender'[s].conn]) = Cap
               PROVE  rival'[s]
    BY DEF OwnLossNeedsRival, SenderAt, Full
  <1> USE ConnsAreNumbers
  <1> DEFINE c == sender'[s].conn
  <1>0. /\ c \in Conns
        /\ sender \in [Everyone -> SenderStates]
        /\ \A d \in Conns : out[d] \in Seq(Messages) /\ Len(out[d]) <= Cap
    BY DEF TypeInv, TypeOK, SenderStates
  <1>1. CASE UNCHANGED <<out, rival>> /\ sender'[s] = sender[s]
    BY <1>1 DEF OwnLossNeedsRival, SenderAt, Full
  <1>2. CASE Connect
    <2>1. sender'[s] = sender[s]
      BY <1>0, <1>2 DEF Connect
    <2> QED BY <1>1, <1>2, <2>1 DEF Connect, ghosts
  <1>3. ASSUME NEW d \in Conns, Break(d) \/ Teardown(d) \/ Exit(d) \/ Write(d)
        PROVE  rival'[s]
    BY <1>1, <1>3 DEF Break, Teardown, Exit, Write, ghosts
  <1>4. ASSUME NEW d \in Conns, TakeMessage(d) PROVE rival'[s]
    <2>1. d # c
      <3>1. out[d] \in Seq(Messages) /\ out[d] # << >> /\ Len(out[d]) <= Cap
        BY <1>0, <1>4 DEF TakeMessage
      <3>3. out'[d] = Tail(out[d])
        BY <1>4 DEF TakeMessage, TypeInv, TypeOK
      <3>4. Len(Tail(out[d])) # Cap
        BY <3>1
      <3>5. Len(out'[c]) = Cap
        OBVIOUS
      <3> HIDE DEF c
      <3> QED BY <3>3, <3>4, <3>5, Zenon
    <2>2. out'[c] = out[c] /\ UNCHANGED <<sender, rival>>
      BY <1>0, <1>4, <2>1 DEF TakeMessage, ghosts, TypeInv, TypeOK
    <2> QED BY <2>2 DEF OwnLossNeedsRival, SenderAt, Full
  <1>5. ASSUME NEW t \in Everyone, BeginSend(t) PROVE rival'[s]
    BY <1>0, <1>1, <1>5 DEF BeginSend, ghosts
  <1>6. ASSUME NEW t \in Everyone, Put(t, sender[t].conn), ~SenderAt(t, "idle")
        PROVE  rival'[s]
    <2>1. sender[t].conn \in Conns
      BY <1>6, OwnIsMessage
    <2>2. t # s /\ sender'[s] = sender[s]
      BY <1>0, <1>6 DEF Put, Return
    <2>3. rival'[s] = (t # s /\ (rival[s] \/ (sender[s].conn = sender[t].conn /\ Looked(s))))
      BY <1>6 DEF Put
    <2>4. CASE sender[s].conn = sender[t].conn
      BY <2>2, <2>3, <2>4 DEF Looked
    <2>5. CASE sender[s].conn # sender[t].conn
      <3>1. out'[c] = out[c]
        BY <1>0, <1>6, <2>1, <2>2, <2>5 DEF Put, TypeInv, TypeOK
      <3>2. rival[s]
        BY <2>2, <3>1 DEF OwnLossNeedsRival, SenderAt, Full
      <3> QED BY <2>2, <2>3, <3>2
    <2> QED BY <2>4, <2>5
  <1>7. ASSUME NEW t \in Everyone, Try(t) PROVE rival'[s]
    <2>1. CASE ~Full(sender[t].conn) /\ Put(t, sender[t].conn)
      BY <1>6, <1>7, <2>1 DEF Try, SenderAt
    <2>2. CASE ~(~Full(sender[t].conn) /\ Put(t, sender[t].conn))
      <3>1. sender' = [sender EXCEPT ![t].pc = "drop"] /\ UNCHANGED <<out, rival>>
        BY <1>7, <2>2 DEF Try
      <3>2. s # t
        BY <1>0, <3>1
      <3> QED BY <1>0, <1>1, <3>1, <3>2
    <2> QED BY <2>1, <2>2
  <1>8. ASSUME NEW t \in Everyone, DropOldest(t) PROVE rival'[s]
    <2> DEFINE d == sender[t].conn
    <2>1. d \in Conns /\ sender'[s].conn = sender[s].conn
      BY <1>0, <1>8, OwnIsMessage DEF DropOldest, SenderAt
    <2>2. d # c
      <3>1. CASE out[d] = << >>
        <4>1. Len(out'[d]) = 0
          BY <1>0, <1>8, <2>1, <3>1 DEF DropOldest
        <4>2. Len(out'[c]) = Cap
          OBVIOUS
        <4> HIDE DEF c, d
        <4> QED BY <4>1, <4>2
      <3>2. CASE out[d] # << >>
        <4>1. out[d] \in Seq(Messages) /\ Len(out[d]) <= Cap
          BY <1>0, <2>1
        <4>2. out'[d] = Tail(out[d])
          BY <1>8, <2>1, <3>2 DEF DropOldest, TypeInv, TypeOK
        <4> HIDE DEF d
        <4>3. Len(Tail(out[d])) # Cap
          BY <3>2, <4>1
        <4>4. Len(out'[c]) = Cap
          OBVIOUS
        <4> HIDE DEF c
        <4> QED BY <4>2, <4>3, <4>4, Zenon
      <3> QED BY <3>1, <3>2
    <2>3. out'[c] = out[c] /\ UNCHANGED rival /\ s # t
      BY <1>0, <1>8, <2>1, <2>2, SMTT(30) DEF DropOldest, TypeInv, TypeOK
    <2>4. sender'[s] = sender[s]
      BY <1>0, <1>8, <2>3 DEF DropOldest
    <2> QED BY <2>3, <2>4 DEF OwnLossNeedsRival, SenderAt, Full
  <1>9. ASSUME NEW t \in Everyone, Retry(t) PROVE rival'[s]
    <2>1. CASE ~Full(sender[t].conn) /\ Put(t, sender[t].conn)
      BY <1>6, <1>9, <2>1 DEF Retry, SenderAt
    <2>2. CASE ~(~Full(sender[t].conn) /\ Put(t, sender[t].conn))
      <3>0. /\ sender' = [sender EXCEPT ![t].pc = "idle", ![t].conn = NoConn]
            /\ UNCHANGED out
        BY <1>9, <2>2 DEF Retry, Return
      <3>1. s # t /\ sender'[s] = sender[s] /\ UNCHANGED out
        BY <1>0, <3>0
      <3>2. rival'[s] = rival[s]
        BY <1>9, <2>2, <3>1 DEF Retry, TypeInv, TypeOK
      <3> QED BY <3>1, <3>2 DEF OwnLossNeedsRival, SenderAt, Full
    <2> QED BY <2>1, <2>2
  <1>10. CASE UNCHANGED vars
    BY <1>1, <1>10 DEF vars, ghosts
  <1> QED BY <1>2, <1>3, <1>4, <1>5, <1>7, <1>8, <1>9, <1>10
          DEF Next, WriterNext, SenderNext

\* A sender gives up its own message only if another one has put a message into
\* the same queue since it found the queue full.
THEOREM OwnMessageGoesThrough == Spec => []OwnLossNeedsRival
  <1>1. Init => OwnLossNeedsRival
    BY DEF Init, OwnLossNeedsRival, SenderAt
  <1> QED BY <1>1, AlwaysTypeInv, NextOwnLossNeedsRival, PTL DEF Spec

-----------------------------------------------------------------------------
(***************************************************************************)
(* Sequences of messages                                                   *)
(***************************************************************************)
Members(q) == {q[i] : i \in DOMAIN q}

Earlier(m, k) == m.by = k.by => m.n < k.n

\* The messages of q come in the order of their sender, and before those of r.
Ordered(q) == \A i, j \in DOMAIN q : i < j => Earlier(q[i], q[j])
Below(q, r) == \A i \in DOMAIN q, j \in DOMAIN r : Earlier(q[i], r[j])

LEMMA TailMembers ==
    ASSUME NEW q \in Seq(Messages), q # << >>
    PROVE  /\ Tail(q) \in Seq(Messages)
           /\ Head(q) \in Members(q)
           /\ Members(Tail(q)) \subseteq Members(q)
  <1>1. Len(Tail(q)) = Len(q) - 1 /\ \A i \in 1..Len(Tail(q)) : Tail(q)[i] = q[i + 1]
    OBVIOUS
  <1>2. \A i \in DOMAIN Tail(q) : i + 1 \in DOMAIN q
    BY <1>1
  <1>3. Head(q) = q[1] /\ 1 \in DOMAIN q
    OBVIOUS
  <1> QED BY <1>1, <1>2, <1>3 DEF Members

LEMMA AppendMembers ==
    ASSUME NEW q \in Seq(Messages), NEW m \in Messages
    PROVE  Members(Append(q, m)) = Members(q) \cup {m}
  <1> DEFINE r == Append(q, m)
  <1>1. /\ DOMAIN r = DOMAIN q \cup {Len(q) + 1}
        /\ r[Len(q) + 1] = m
        /\ \A i \in DOMAIN q : r[i] = q[i]
    OBVIOUS
  <1> HIDE DEF r
  <1>2. Members(r) = Members(q) \cup {m}
    BY <1>1 DEF Members
  <1> QED BY <1>2 DEF r

LEMMA ConcatMembers ==
    ASSUME NEW q \in Seq(Messages), NEW r \in Seq(Messages)
    PROVE  Members(q \o r) = Members(q) \cup Members(r)
  <1> DEFINE t == q \o r
  <1>1. /\ \A i \in DOMAIN q : i \in DOMAIN t /\ t[i] = q[i]
        /\ \A j \in DOMAIN r : Len(q) + j \in DOMAIN t /\ t[Len(q) + j] = r[j]
        /\ \A k \in DOMAIN t : \/ k \in DOMAIN q
                               \/ k - Len(q) \in DOMAIN r /\ Len(q) + (k - Len(q)) = k
    OBVIOUS
  <1> HIDE DEF t
  <1>2. Members(q) \subseteq Members(t)
    BY <1>1 DEF Members
  <1>3. Members(r) \subseteq Members(t)
    BY <1>1 DEF Members
  <1>4. Members(t) \subseteq Members(q) \cup Members(r)
    <2>1. ASSUME NEW k \in DOMAIN t PROVE t[k] \in Members(q) \cup Members(r)
      <3>1. CASE k \in DOMAIN q
        BY <1>1, <3>1 DEF Members
      <3>2. CASE k - Len(q) \in DOMAIN r /\ Len(q) + (k - Len(q)) = k
        BY <1>1, <3>2 DEF Members
      <3> QED BY <1>1, <3>1, <3>2
    <2> QED BY <2>1 DEF Members
  <1>5. Members(t) = Members(q) \cup Members(r)
    BY <1>2, <1>3, <1>4
  <1> QED BY <1>5 DEF t

LEMMA BelowMembers ==
    ASSUME NEW q, NEW r
    PROVE  Below(q, r) <=> \A m \in Members(q), k \in Members(r) : Earlier(m, k)
  BY DEF Below, Members

LEMMA OrderedTail ==
    ASSUME NEW q \in Seq(Messages), q # << >>, Ordered(q)
    PROVE  /\ Ordered(Tail(q))
           /\ \A m \in Members(Tail(q)) : Earlier(Head(q), m)
  <1>1. Len(Tail(q)) = Len(q) - 1 /\ \A i \in 1..Len(Tail(q)) : Tail(q)[i] = q[i + 1]
    OBVIOUS
  <1>2. \A i \in DOMAIN Tail(q) : i + 1 \in DOMAIN q /\ Tail(q)[i] = q[i + 1] /\ i \in Nat /\ i > 0
    BY <1>1
  <1>3. Ordered(Tail(q))
    BY <1>2 DEF Ordered
  <1>4. Head(q) = q[1] /\ 1 \in DOMAIN q
    OBVIOUS
  <1>5. \A i \in DOMAIN Tail(q) : Earlier(q[1], q[i + 1])
    BY <1>2, <1>4 DEF Ordered
  <1> QED BY <1>2, <1>3, <1>4, <1>5 DEF Members

LEMMA OrderedAppend ==
    ASSUME NEW q \in Seq(Messages), NEW m \in Messages, Ordered(q),
           \A k \in Members(q) : Earlier(k, m)
    PROVE  Ordered(Append(q, m))
  <1> DEFINE r == Append(q, m)
  <1>1. /\ \A i \in DOMAIN r : i \in Nat /\ (i \in DOMAIN q \/ i = Len(q) + 1)
        /\ r[Len(q) + 1] = m
        /\ \A i \in DOMAIN q : r[i] = q[i] /\ i <= Len(q)
        /\ Len(q) \in Nat
    OBVIOUS
  <1>2. \A i \in DOMAIN q : Earlier(q[i], m)
    BY DEF Members
  <1> HIDE DEF r
  <1>3. ASSUME NEW i \in DOMAIN r, NEW j \in DOMAIN r, i < j
        PROVE  Earlier(r[i], r[j])
    <2>1. i \in DOMAIN q
      BY <1>1, <1>3
    <2>2. CASE j \in DOMAIN q
      BY <1>1, <1>3, <2>1, <2>2 DEF Ordered
    <2>3. CASE j = Len(q) + 1
      BY <1>1, <1>2, <2>1, <2>3
    <2> QED BY <1>1, <2>2, <2>3
  <1>4. Ordered(r)
    BY <1>3 DEF Ordered
  <1> QED BY <1>4 DEF r

LEMMA OrderedConcat ==
    ASSUME NEW q \in Seq(Messages), NEW r \in Seq(Messages),
           Ordered(q), Ordered(r), Below(q, r)
    PROVE  Ordered(q \o r)
  <1> DEFINE t == q \o r
  <1>1. /\ \A i \in DOMAIN q : t[i] = q[i] /\ i <= Len(q) /\ i \in Nat
        /\ \A k \in DOMAIN t : \/ k \in DOMAIN q
                               \/ /\ k - Len(q) \in DOMAIN r
                                  /\ t[k] = r[k - Len(q)]
                                  /\ k > Len(q)
        /\ \A k \in DOMAIN t : k \in Nat
        /\ Len(q) \in Nat
    OBVIOUS
  <1> HIDE DEF t
  <1>2. ASSUME NEW i \in DOMAIN t, NEW j \in DOMAIN t, i < j
        PROVE  Earlier(t[i], t[j])
    <2>1. CASE i \in DOMAIN q /\ j \in DOMAIN q
      BY <1>1, <1>2, <2>1 DEF Ordered
    <2>2. CASE i \in DOMAIN q /\ j \notin DOMAIN q
      BY <1>1, <1>2, <2>2 DEF Below
    <2>3. CASE i \notin DOMAIN q /\ j \notin DOMAIN q
      <3>1. i - Len(q) < j - Len(q)
        BY <1>1, <1>2
      <3> QED BY <1>1, <2>3, <3>1 DEF Ordered
    <2>4. CASE i \notin DOMAIN q /\ j \in DOMAIN q
      BY <1>1, <1>2, <2>4
    <2> QED BY <2>1, <2>2, <2>3, <2>4
  <1>3. Ordered(t)
    BY <1>2 DEF Ordered
  <1> QED BY <1>3 DEF t

-----------------------------------------------------------------------------
(***************************************************************************)
(* Order.  A message that is anywhere has been sent: its sender has gone   *)
(* on, or is done with it.  So what a sender puts in comes after all that  *)
(* it has put in before.                                                   *)
(***************************************************************************)
Past(m) ==
    \/ m.n < sender[m.by].n
    \/ m.n = sender[m.by].n /\ SenderAt(m.by, "idle")

AllPast ==
    /\ \A c \in Conns :
           \A m \in Members(written[c]) \cup Members(hand[c]) \cup Members(out[c])
                        \cup last[c] : Past(m)
    /\ \A m \in lost : Past(m)

StreamsOrdered ==
    \A c \in Conns : /\ Ordered(written[c])
                     /\ Ordered(out[c])
                     /\ Below(written[c], hand[c])
                     /\ Below(written[c], out[c])
                     /\ Below(hand[c], out[c])

LEMMA MessagesAreMessages ==
    ASSUME TypeInv, NEW c \in Conns
    PROVE  /\ {written[c], hand[c], out[c]} \subseteq Seq(Messages)
           /\ Members(written[c]) \cup Members(hand[c]) \cup Members(out[c])
                  \cup last[c] \cup lost \subseteq Messages
  <1>1. {written[c], hand[c], out[c]} \subseteq Seq(Messages)
    BY DEF TypeInv, TypeOK
  <1>2. ASSUME NEW q \in Seq(Messages) PROVE Members(q) \subseteq Messages
    BY DEF Members
  <1>3. last[c] \cup lost \subseteq Messages
    BY DEF TypeInv, TypeOK
  <1> QED BY <1>1, <1>2, <1>3

\* What is past stays past, also when all that happens is that s moves on.
LEMMA PastStays ==
    ASSUME TypeInv, [Next]_vars, NEW m \in Messages, Past(m)
    PROVE  Past(m)'
  <1> USE ConnsAreNumbers
  <1>0. /\ m.by \in Everyone /\ m.n \in Nat /\ m.n > 0
        /\ sender \in [Everyone -> SenderStates]
        /\ sender[m.by].n \in Nat
    <2>1. m.by \in Everyone /\ m.n \in Nat /\ m.n > 0
      BY DEF Messages
    <2>2. sender \in [Everyone -> SenderStates]
      BY DEF TypeInv, TypeOK, SenderStates
    <2>3. sender[m.by] \in SenderStates
      BY <2>1, <2>2
    <2> QED BY <2>1, <2>2, <2>3 DEF SenderStates
  <1>1. CASE UNCHANGED sender
    BY <1>1 DEF Past, SenderAt
  <1>2. CASE Connect
    <2>1. conns + 1 \in Conns /\ sender[conns + 1].n = 0
      BY <1>2 DEF Connect, TypeInv, TypeOK, NewAreSilent, Conns
    <2>2. m.by # conns + 1
      BY <1>0, <2>1 DEF Past
    <2>3. sender'[m.by] = sender[m.by]
      BY <1>0, <1>2, <2>2 DEF Connect
    <2> QED BY <2>3 DEF Past, SenderAt
  <1>3. ASSUME NEW c \in Conns, Break(c) \/ Teardown(c) \/ WriterNext(c)
        PROVE  UNCHANGED sender
    BY <1>3 DEF Break, Teardown, WriterNext, TakeMessage, Exit, Write
  <1>4. ASSUME NEW s \in Everyone, BeginSend(s) PROVE Past(m)'
    <2>1. sender'[m.by].n = IF m.by = s THEN sender[m.by].n + 1 ELSE sender[m.by].n
      BY <1>0, <1>4 DEF BeginSend
    <2>2. m.by # s => sender'[m.by] = sender[m.by]
      BY <1>0, <1>4 DEF BeginSend
    <2> QED BY <1>0, <2>1, <2>2 DEF Past, SenderAt
  <1>5. ASSUME NEW s \in Everyone, SenderNext(s) PROVE Past(m)'
    <2>1. ~SenderAt(s, "idle")
      BY <1>5 DEF SenderNext, Try, DropOldest, Retry, SenderAt
    <2>2. sender'[m.by].n = sender[m.by].n
      <3>1. CASE Return(s)
        BY <1>0, <3>1 DEF Return
      <3>2. ASSUME NEW pc, sender' = [sender EXCEPT ![s].pc = pc]
            PROVE  sender'[m.by].n = sender[m.by].n
        BY <1>0, <3>2
      <3> QED BY <1>5, <3>1, <3>2 DEF SenderNext, Try, DropOldest, Retry, Put
    <2>3. m.by # s => sender'[m.by] = sender[m.by]
      BY <1>0, <1>5 DEF SenderNext, Try, DropOldest, Retry, Put, Return
    <2> QED BY <1>0, <2>1, <2>2, <2>3 DEF Past, SenderAt
  <1>6. CASE UNCHANGED vars
    BY <1>1, <1>6 DEF vars
  <1> QED BY <1>1, <1>2, <1>3, <1>4, <1>5, <1>6 DEF Next

\* What a sender is about to put in is not past; when it returns, it is.
LEMMA OwnIsNew ==
    ASSUME TypeInv, NEW s \in Everyone, ~SenderAt(s, "idle"),
           NEW m \in Messages, Past(m)
    PROVE  Earlier(m, Own(s)) /\ m # Own(s)
  <1>1. m.n \in Nat /\ sender[s].n \in Nat
    BY ConnsAreNumbers DEF TypeInv, TypeOK, Messages
  <1> QED BY <1>1 DEF Past, SenderAt, Own, Earlier

LEMMA OwnGetsPast ==
    ASSUME TypeInv, NEW s \in Everyone, Return(s), NEW m, m = Own(s)
    PROVE  Past(m)'
  BY DEF TypeInv, TypeOK, Return, Past, SenderAt, Own

-----------------------------------------------------------------------------
(***************************************************************************)
(* What a step can do to the messages: nothing, put one in, give one up,   *)
(* drop one, take one, or write one or lose it with the connection.        *)
(***************************************************************************)
messages == <<written, hand, out, last, lost>>

PutsIn(s) ==
    /\ ~SenderAt(s, "idle")
    /\ Put(s, sender[s].conn)
    /\ UNCHANGED <<written, hand>>

GivesUp(s) ==
    /\ SenderAt(s, "retry")
    /\ Full(sender[s].conn)
    /\ Return(s)
    /\ lost' = lost \cup {Own(s)}
    /\ UNCHANGED <<written, hand, out, last>>

Drops(c) ==
    /\ out[c] # << >>
    /\ out' = [out EXCEPT ![c] = Tail(@)]
    /\ lost' = lost \cup {Head(out[c])}
    /\ \E s \in Everyone : /\ SenderAt(s, "drop")
                           /\ sender[s].conn = c
                           /\ sender' = [sender EXCEPT ![s].pc = "retry"]
    /\ UNCHANGED <<written, hand, last>>

LEMMA StepKinds ==
    ASSUME TypeInv, [Next]_vars
    PROVE  \/ UNCHANGED messages
           \/ \E s \in Everyone : PutsIn(s) \/ GivesUp(s)
           \/ \E c \in Conns : Drops(c) \/ TakeMessage(c) \/ Write(c)
  <1>1. CASE Connect
    BY <1>1 DEF Connect, ghosts, messages
  <1>2. ASSUME NEW c \in Conns, Break(c) \/ Teardown(c) \/ Exit(c)
        PROVE  UNCHANGED messages
    BY <1>2 DEF Break, Teardown, Exit, ghosts, messages
  <1>3. ASSUME NEW s \in Everyone, BeginSend(s) PROVE UNCHANGED messages
    BY <1>3 DEF BeginSend, ghosts, messages
  <1>4. ASSUME NEW s \in Everyone, Try(s) PROVE PutsIn(s) \/ UNCHANGED messages
    BY <1>4 DEF Try, PutsIn, SenderAt, messages
  <1>5. ASSUME NEW s \in Everyone, DropOldest(s)
        PROVE  Drops(sender[s].conn) \/ UNCHANGED messages
    BY <1>5 DEF DropOldest, Drops, messages
  <1>6. ASSUME NEW s \in Everyone, DropOldest(s) PROVE sender[s].conn \in Conns
    BY <1>6, OwnIsMessage DEF DropOldest, SenderAt
  <1>7. ASSUME NEW s \in Everyone, Retry(s) PROVE PutsIn(s) \/ GivesUp(s)
    BY <1>7 DEF Retry, PutsIn, GivesUp, SenderAt
  <1>8. CASE UNCHANGED vars
    BY <1>8 DEF vars, ghosts, messages
  <1> QED BY <1>1, <1>2, <1>3, <1>4, <1>5, <1>6, <1>7, <1>8
          DEF Next, WriterNext, SenderNext

\* Which messages there are after each kind of step.
MessagesAt(c) == Members(written[c]) \cup Members(hand[c]) \cup Members(out[c]) \cup last[c]

LEMMA PutsInMembers ==
    ASSUME TypeInv, NEW s \in Everyone, PutsIn(s), NEW c \in Conns
    PROVE  /\ c # sender[s].conn => out'[c] = out[c] /\ last'[c] = last[c]
           /\ c = sender[s].conn => /\ out'[c] = Append(out[c], Own(s))
                                    /\ last'[c] = {Own(s)}
                                    /\ Members(out'[c]) = Members(out[c]) \cup {Own(s)}
           /\ UNCHANGED <<written, hand, lost>>
  <1>1. /\ out \in [Conns -> Seq(Messages)] /\ last \in [Conns -> SUBSET Messages]
    BY DEF TypeInv, TypeOK
  <1>2. Own(s) \in Messages /\ sender[s].conn \in Conns
    BY OwnIsMessage DEF PutsIn
  <1>3. /\ out' = [out EXCEPT ![sender[s].conn] = Append(@, Own(s))]
        /\ last' = [last EXCEPT ![sender[s].conn] = {Own(s)}]
        /\ UNCHANGED <<written, hand, lost>>
    BY DEF PutsIn, Put
  <1>4. Members(Append(out[c], Own(s))) = Members(out[c]) \cup {Own(s)}
    BY <1>1, <1>2, AppendMembers
  <1> QED BY <1>1, <1>2, <1>3, <1>4

LEMMA DropsMembers ==
    ASSUME TypeInv, NEW d \in Conns, Drops(d) \/ TakeMessage(d), NEW c \in Conns
    PROVE  /\ c # d => out'[c] = out[c]
           /\ c = d => out'[c] = Tail(out[c])
           /\ Members(out'[c]) \subseteq Members(out[c])
           /\ out[d] # << >>
           /\ Head(out[d]) \in Members(out[d])
           /\ UNCHANGED <<written, last>>
  <1>1. /\ out \in [Conns -> Seq(Messages)]
    BY DEF TypeInv, TypeOK
  <1>2. out[d] # << >> /\ out' = [out EXCEPT ![d] = Tail(@)] /\ UNCHANGED <<written, last>>
    BY DEF Drops, TakeMessage, ghosts
  <1>3. Head(out[d]) \in Members(out[d]) /\ Members(Tail(out[d])) \subseteq Members(out[d])
    BY <1>1, <1>2, TailMembers
  <1> QED BY <1>1, <1>2, <1>3

LEMMA NextAllPast ==
    ASSUME TypeInv, AllPast, [Next]_vars
    PROVE  AllPast'
  <1>0. ASSUME NEW m \in Messages, Past(m) PROVE Past(m)'
    BY <1>0, PastStays
  <1>1. /\ \A c \in Conns : \A m \in MessagesAt(c) : m \in Messages /\ Past(m)
        /\ \A m \in lost : m \in Messages /\ Past(m)
    BY MessagesAreMessages DEF AllPast, MessagesAt, TypeInv, TypeOK
  <1>2. SUFFICES /\ \A c \in Conns : \A m \in MessagesAt(c)' : Past(m)'
                 /\ \A m \in lost' : Past(m)'
    BY DEF AllPast, MessagesAt
  <1>3. CASE UNCHANGED messages
    BY <1>0, <1>1, <1>3 DEF messages, MessagesAt
  <1>4. ASSUME NEW s \in Everyone, PutsIn(s)
        PROVE  /\ \A c \in Conns : \A m \in MessagesAt(c)' : Past(m)'
               /\ \A m \in lost' : Past(m)'
    <2>1. ASSUME NEW m, m = Own(s) PROVE Past(m)'
      BY <1>4, <2>1, OwnGetsPast DEF PutsIn, Put
    <2>2. \A c \in Conns : MessagesAt(c)' \subseteq MessagesAt(c) \cup {Own(s)}
      BY <1>4, PutsInMembers DEF MessagesAt
    <2>3. lost' = lost
      BY <1>4 DEF PutsIn, Put
    <2> QED BY <1>0, <1>1, <2>1, <2>2, <2>3
  <1>5. ASSUME NEW s \in Everyone, GivesUp(s)
        PROVE  /\ \A c \in Conns : \A m \in MessagesAt(c)' : Past(m)'
               /\ \A m \in lost' : Past(m)'
    <2>1. ASSUME NEW m, m = Own(s) PROVE Past(m)'
      BY <1>5, <2>1, OwnGetsPast DEF GivesUp
    <2>2. lost' = lost \cup {Own(s)} /\ UNCHANGED <<written, hand, out, last>>
      BY <1>5 DEF GivesUp
    <2> QED BY <1>0, <1>1, <2>1, <2>2 DEF MessagesAt
  <1>6. ASSUME NEW d \in Conns, Drops(d)
        PROVE  /\ \A c \in Conns : \A m \in MessagesAt(c)' : Past(m)'
               /\ \A m \in lost' : Past(m)'
    <2>1. \A c \in Conns : MessagesAt(c)' \subseteq MessagesAt(c)
      BY <1>6, DropsMembers DEF MessagesAt, Drops
    <2>2. lost' = lost \cup {Head(out[d])} /\ Head(out[d]) \in MessagesAt(d)
      BY <1>6, DropsMembers DEF MessagesAt, Drops
    <2> QED BY <1>0, <1>1, <2>1, <2>2
  <1>7. ASSUME NEW d \in Conns, TakeMessage(d)
        PROVE  /\ \A c \in Conns : \A m \in MessagesAt(c)' : Past(m)'
               /\ \A m \in lost' : Past(m)'
    <2>1. hand' = [hand EXCEPT ![d] = <<Head(out[d])>>] /\ UNCHANGED lost
      BY <1>7 DEF TakeMessage, ghosts
    <2>2. Members(<<Head(out[d])>>) = {Head(out[d])}
      BY DEF Members
    <2>3. \A c \in Conns : Members(hand'[c]) \subseteq Members(hand[c]) \cup Members(out[c])
      BY <1>7, <2>1, <2>2, DropsMembers DEF TypeInv, TypeOK
    <2>4. \A c \in Conns : MessagesAt(c)' \subseteq MessagesAt(c)
      BY <1>7, <2>3, DropsMembers DEF MessagesAt
    <2> QED BY <1>0, <1>1, <2>1, <2>4
  <1>8. ASSUME NEW d \in Conns, Write(d)
        PROVE  /\ \A c \in Conns : \A m \in MessagesAt(c)' : Past(m)'
               /\ \A m \in lost' : Past(m)'
    <2>1. /\ hand' = [hand EXCEPT ![d] = << >>] /\ UNCHANGED <<out, last, lost>>
          /\ \/ UNCHANGED written
             \/ written' = [written EXCEPT ![d] = @ \o hand[d]]
      BY <1>8 DEF Write
    <2>2. Members(<< >>) = {}
      BY DEF Members
    <2>3. \A c \in Conns : Members(hand'[c]) \subseteq Members(hand[c])
      BY <2>1, <2>2 DEF TypeInv, TypeOK
    <2>4. Members(written[d] \o hand[d]) = Members(written[d]) \cup Members(hand[d])
      BY MessagesAreMessages, ConcatMembers
    <2>5. \A c \in Conns : Members(written'[c]) \subseteq Members(written[c]) \cup Members(hand[c])
      BY <2>1, <2>4 DEF TypeInv, TypeOK
    <2>6. \A c \in Conns : MessagesAt(c)' \subseteq MessagesAt(c)
      BY <2>1, <2>3, <2>5 DEF MessagesAt
    <2> QED BY <1>0, <1>1, <2>1, <2>6
  <1> QED BY <1>3, <1>4, <1>5, <1>6, <1>7, <1>8, StepKinds


LEMMA EmptyIsOrdered ==
    ASSUME NEW q
    PROVE  /\ Ordered(<< >>) /\ Below(<< >>, q) /\ Below(q, << >>)
           /\ Members(<< >>) = {}
  BY DEF Ordered, Below, Members

\* The writer has one message in hand at most.
LEMMA HandIsOrdered ==
    ASSUME TypeInv, NEW c \in Conns
    PROVE  Ordered(hand[c])
  <1>1. hand[c] \in Seq(Messages)
    BY DEF TypeInv, TypeOK
  <1>2. Len(hand[c]) = IF writer[c] = "write" THEN 1 ELSE 0
    BY DEF TypeInv, TypeOK
  <1>3. \A i \in DOMAIN hand[c] : i = 1
    BY <1>1, <1>2
  <1> QED BY <1>3 DEF Ordered

LEMMA NextStreamsOrdered ==
    ASSUME TypeInv, AllPast, StreamsOrdered, [Next]_vars
    PROVE  StreamsOrdered'
  <1> SUFFICES ASSUME NEW c \in Conns
               PROVE  /\ Ordered(written'[c])
                      /\ Ordered(out'[c])
                      /\ Below(written'[c], hand'[c])
                      /\ Below(written'[c], out'[c])
                      /\ Below(hand'[c], out'[c])
    BY DEF StreamsOrdered
  <1>0. /\ Ordered(written[c]) /\ Ordered(out[c])
        /\ Below(written[c], hand[c]) /\ Below(written[c], out[c]) /\ Below(hand[c], out[c])
        /\ {written[c], hand[c], out[c]} \subseteq Seq(Messages)
    BY MessagesAreMessages DEF StreamsOrdered
  <1>1. CASE UNCHANGED messages
    BY <1>0, <1>1 DEF messages
  <1>2. ASSUME NEW s \in Everyone, PutsIn(s), c = sender[s].conn
        PROVE  Ordered(out'[c]) /\ Below(written[c], out'[c]) /\ Below(hand[c], out'[c])
    <2>1. /\ out'[c] = Append(out[c], Own(s))
          /\ Members(out'[c]) = Members(out[c]) \cup {Own(s)}
      BY <1>2, PutsInMembers
    <2>2. Own(s) \in Messages /\ ~SenderAt(s, "idle")
      BY <1>2, OwnIsMessage DEF PutsIn
    <2>3. \A m \in MessagesAt(c) : m \in Messages /\ Past(m)
      BY MessagesAreMessages DEF AllPast, MessagesAt
    <2>4. \A m \in MessagesAt(c) : Earlier(m, Own(s))
      BY <2>2, <2>3, OwnIsNew
    <2>5. Ordered(out'[c])
      BY <1>0, <2>1, <2>2, <2>4, OrderedAppend DEF MessagesAt
    <2>6. \A q : Below(q, out[c]) /\ (\A m \in Members(q) : Earlier(m, Own(s)))
                   => Below(q, out'[c])
      BY <2>1, BelowMembers
    <2> QED BY <1>0, <2>4, <2>5, <2>6 DEF MessagesAt
  <1>3. ASSUME NEW s \in Everyone, PutsIn(s)
        PROVE  /\ Ordered(out'[c]) /\ Below(written[c], out'[c]) /\ Below(hand[c], out'[c])
               /\ UNCHANGED <<written, hand>>
    BY <1>0, <1>2, <1>3, PutsInMembers
  <1>4. ASSUME NEW s \in Everyone, GivesUp(s) PROVE UNCHANGED <<written, hand, out>>
    BY <1>4 DEF GivesUp
  <1>5. ASSUME NEW d \in Conns, Drops(d) \/ TakeMessage(d), c = d
        PROVE  /\ Ordered(out'[c])
               /\ Below(written[c], out'[c])
               /\ Below(hand[c], out'[c])
               /\ \A m \in Members(out'[c]) : Earlier(Head(out[c]), m)
               /\ \A m \in Members(written[c]) : Earlier(m, Head(out[c]))
    <2>1. /\ out'[c] = Tail(out[c]) /\ out[c] # << >>
          /\ Members(out'[c]) \subseteq Members(out[c])
          /\ Head(out[c]) \in Members(out[c])
      BY <1>5, DropsMembers
    <2>2. Ordered(out'[c]) /\ \A m \in Members(out'[c]) : Earlier(Head(out[c]), m)
      BY <1>0, <2>1, OrderedTail
    <2> QED BY <1>0, <2>1, <2>2, BelowMembers
  <1>6. ASSUME NEW d \in Conns, Drops(d)
        PROVE  /\ Ordered(out'[c]) /\ Below(written[c], out'[c]) /\ Below(hand[c], out'[c])
               /\ UNCHANGED <<written, hand>>
    <2>1. UNCHANGED <<written, hand>>
      BY <1>6 DEF Drops
    <2> QED BY <1>0, <1>5, <1>6, <2>1, DropsMembers
  <1>7. ASSUME NEW d \in Conns, TakeMessage(d)
        PROVE  /\ Ordered(out'[c]) /\ Below(written[c], out'[c]) /\ Below(hand'[c], out'[c])
               /\ Below(written[c], hand'[c])
               /\ UNCHANGED written
    <2>1. /\ c = d => hand'[c] = <<Head(out[c])>>
          /\ c # d => hand'[c] = hand[c]
          /\ UNCHANGED written
      BY <1>7 DEF TakeMessage, ghosts, TypeInv, TypeOK
    <2>2. CASE c # d
      BY <1>0, <1>7, <2>1, <2>2, DropsMembers
    <2>3. CASE c = d
      <3>1. Members(hand'[c]) = {Head(out[c])}
        BY <2>1, <2>3 DEF Members
      <3>2. Below(hand'[c], out'[c]) /\ Below(written[c], hand'[c])
        BY <1>5, <1>7, <2>3, <3>1, BelowMembers
      <3> QED BY <1>5, <1>7, <2>1, <2>3, <3>2
    <2> QED BY <2>2, <2>3
  <1>8. ASSUME NEW d \in Conns, Write(d)
        PROVE  /\ Ordered(written'[c])
               /\ Below(written'[c], hand'[c])
               /\ Below(written'[c], out[c])
               /\ Below(hand'[c], out[c])
               /\ UNCHANGED out
    <2>1. /\ hand'[c] = IF c = d THEN << >> ELSE hand[c]
          /\ UNCHANGED out
          /\ written'[c] = written[c] \/ (c = d /\ written'[c] = written[c] \o hand[c])
      BY <1>8, ZenonT(40) DEF Write, TypeInv, TypeOK
    <2>2. CASE c # d
      BY <1>0, <2>1, <2>2
    <2>3. CASE c = d
      <3>1. Below(hand'[c], out[c]) /\ \A q : Below(q, hand'[c])
        BY <2>1, <2>3, EmptyIsOrdered
      <3>2. Ordered(hand[c])
        BY HandIsOrdered
      <3>3. Ordered(written[c] \o hand[c])
        BY <1>0, <3>2, OrderedConcat
      <3>4. Below(written[c] \o hand[c], out[c])
        BY <1>0, ConcatMembers, BelowMembers
      <3> QED BY <1>0, <2>1, <2>3, <3>1, <3>3, <3>4
    <2> QED BY <2>2, <2>3
  <1> QED BY <1>0, <1>1, <1>3, <1>4, <1>6, <1>7, <1>8, StepKinds

LEMMA AlwaysOrdered == Spec => [](TypeInv /\ AllPast /\ StreamsOrdered)
  <1>1. Init => AllPast /\ StreamsOrdered
    <2> SUFFICES ASSUME Init PROVE AllPast /\ StreamsOrdered
      OBVIOUS
    <2>1. \A c \in Conns : /\ written[c] = << >> /\ hand[c] = << >> /\ out[c] = << >>
                           /\ last[c] = {}
      BY DEF Init
    <2>2. lost = {}
      BY DEF Init
    <2> QED BY <2>1, <2>2, EmptyIsOrdered DEF AllPast, StreamsOrdered
  <1> QED BY <1>1, InitTypeInv, NextTypeInv, NextAllPast, NextStreamsOrdered, PTL
             DEF Spec

LEMMA StreamIsOrdered ==
    ASSUME TypeInv, StreamsOrdered
    PROVE  OrderIsKept
  <1> SUFFICES ASSUME NEW c \in Conns PROVE Ordered(Stream(c))
    BY DEF OrderIsKept, Ordered, Earlier
  <1>1. /\ Ordered(written[c]) /\ Ordered(out[c])
        /\ Below(written[c], hand[c]) /\ Below(written[c], out[c]) /\ Below(hand[c], out[c])
        /\ {written[c], hand[c], out[c]} \subseteq Seq(Messages)
    BY MessagesAreMessages DEF StreamsOrdered
  <1>2. Ordered(hand[c])
    BY HandIsOrdered
  <1>3. Ordered(written[c] \o hand[c])
    BY <1>1, <1>2, OrderedConcat
  <1>4. Below(written[c] \o hand[c], out[c])
    BY <1>1, ConcatMembers, BelowMembers
  <1>5. written[c] \o hand[c] \in Seq(Messages)
    BY <1>1
  <1> QED BY <1>1, <1>3, <1>4, <1>5, OrderedConcat DEF Stream

\* A client receives the messages of a sender in the order in which they were
\* sent, and none twice, whatever enqueue drops in between.
THEOREM OrderKept == Spec => []OrderIsKept
  BY AlwaysOrdered, StreamIsOrdered, PTL

-----------------------------------------------------------------------------
(***************************************************************************)
(* The freshest message.  A queue that is not empty ends with it, and what *)
(* is queued is not lost.  It can be dropped only when it is alone, by a   *)
(* sender that is then about to put in its own.                            *)
(***************************************************************************)
EndsWithLast ==
    \A c \in Conns : out[c] # << >> => last[c] = {out[c][Len(out[c])]}

QueuedIsNotLost ==
    \A c \in Conns : Members(out[c]) \cap lost = {}

QueuesAreDisjoint ==
    \A c, d \in Conns : c # d => Members(out[c]) \cap (Members(out[d]) \cup last[d]) = {}

LostLastIsReplaced ==
    \A c \in Conns : last[c] \cap lost # {} =>
        /\ out[c] = << >>
        /\ \E s \in Everyone : SenderAt(s, "retry") /\ sender[s].conn = c

LastInv ==
    /\ EndsWithLast
    /\ QueuedIsNotLost
    /\ QueuesAreDisjoint
    /\ LostLastIsReplaced

\* A sender that is about to retry does that next.
LEMMA RetriesWait ==
    ASSUME TypeInv, [Next]_vars, NEW t \in Everyone, SenderAt(t, "retry")
    PROVE  sender'[t] = sender[t] \/ PutsIn(t) \/ GivesUp(t)
  <1>0. sender \in [Everyone -> SenderStates]
    BY DEF TypeInv, TypeOK, SenderStates
  <1>1. CASE Connect
    <2>1. conns + 1 \in Conns /\ sender[conns + 1].n = 0
      BY <1>1, ConnsAreNumbers DEF Connect, TypeInv, TypeOK, NewAreSilent, Conns
    <2>2. t # conns + 1
      BY <2>1, ConnsAreNumbers DEF TypeInv, TypeOK, SenderAt
    <2> QED BY <1>0, <1>1, <2>2 DEF Connect
  <1>2. ASSUME NEW c \in Conns, Break(c) \/ Teardown(c) \/ WriterNext(c)
        PROVE  UNCHANGED sender
    BY <1>2 DEF Break, Teardown, WriterNext, TakeMessage, Exit, Write
  <1>3. ASSUME NEW s \in Everyone, BeginSend(s) \/ Try(s) \/ DropOldest(s)
        PROVE  sender'[t] = sender[t]
    <2>1. s # t
      BY <1>3 DEF BeginSend, Try, DropOldest, SenderAt
    <2> QED BY <1>0, <1>3, <2>1 DEF BeginSend, Try, DropOldest, Put, Return
  <1>4. ASSUME NEW s \in Everyone, Retry(s), s # t PROVE sender'[t] = sender[t]
    BY <1>0, <1>4 DEF Retry, Put, Return
  <1>5. ASSUME Retry(t) PROVE PutsIn(t) \/ GivesUp(t)
    BY <1>5 DEF Retry, PutsIn, GivesUp, SenderAt
  <1>6. CASE UNCHANGED vars
    BY <1>6 DEF vars
  <1> QED BY <1>1, <1>2, <1>3, <1>4, <1>5, <1>6 DEF Next, SenderNext

LEMMA TailEnd ==
    ASSUME NEW q \in Seq(Messages), q # << >>
    PROVE  /\ Tail(q) # << >> => Tail(q)[Len(Tail(q))] = q[Len(q)]
           /\ q[Len(q)] \in Members(q)
           /\ Ordered(q) => Head(q) \notin Members(Tail(q))
           /\ Ordered(q) /\ Head(q) = q[Len(q)] => Tail(q) = << >>
  <1>1. /\ Len(Tail(q)) = Len(q) - 1 /\ \A i \in 1..Len(Tail(q)) : Tail(q)[i] = q[i + 1]
        /\ Len(q) \in Nat /\ Len(q) > 0
        /\ Tail(q) # << >> => Len(Tail(q)) > 0
        /\ Len(Tail(q)) = 0 => Tail(q) = << >>
        /\ Head(q) = q[1]
        /\ DOMAIN q = 1..Len(q)
    <2>1. /\ Len(Tail(q)) = Len(q) - 1 /\ \A i \in 1..Len(Tail(q)) : Tail(q)[i] = q[i + 1]
          /\ Len(q) \in Nat /\ Head(q) = q[1] /\ DOMAIN q = 1..Len(q)
      OBVIOUS
    <2>2. Len(q) > 0
      OBVIOUS
    <2>3. Tail(q) \in Seq(Messages)
      OBVIOUS
    <2>4. \A r \in Seq(Messages) : (r # << >> => Len(r) > 0) /\ (Len(r) = 0 => r = << >>)
      OBVIOUS
    <2> QED BY <2>1, <2>2, <2>3, <2>4
  <1>7. \A i \in 1..Len(q) : q[i].n \in Nat
    <2>1. \A i \in 1..Len(q) : q[i] \in Messages
      OBVIOUS
    <2>2. \A m \in Messages : m.n \in Nat
      BY DEF Messages
    <2> QED BY <2>1, <2>2
  <1>2. q[Len(q)] \in Members(q)
    BY <1>1 DEF Members
  <1>3. Tail(q) # << >> => Tail(q)[Len(Tail(q))] = q[Len(q)]
    BY <1>1
  <1>4. ASSUME Ordered(q), NEW i \in 1..Len(q), i > 1 PROVE q[i] # q[1]
    BY <1>1, <1>4, <1>7 DEF Ordered, Earlier
  <1>5. ASSUME Ordered(q) PROVE Head(q) \notin Members(Tail(q))
    <2>1. \A i \in DOMAIN Tail(q) : Tail(q)[i] = q[i + 1] /\ i + 1 \in 1..Len(q) /\ i + 1 > 1
      BY <1>1
    <2> QED BY <1>1, <1>4, <1>5, <2>1 DEF Members
  <1>6. ASSUME Ordered(q), Head(q) = q[Len(q)] PROVE Tail(q) = << >>
    <2>1. Len(q) = 1
      BY <1>1, <1>4, <1>6
    <2> QED BY <1>1, <2>1
  <1> QED BY <1>2, <1>3, <1>5, <1>6

\* A queue still ends with the last message when its first is taken out.
LEMMA TailEndsWithLast ==
    ASSUME TypeInv, LastInv, NEW d \in Conns, Drops(d) \/ TakeMessage(d)
    PROVE  EndsWithLast'
  <1> SUFFICES ASSUME NEW c \in Conns, out'[c] # << >>
               PROVE  last'[c] = {out'[c][Len(out'[c])]}
    BY DEF EndsWithLast
  <1>1. /\ c # d => out'[c] = out[c]
        /\ c = d => out'[c] = Tail(out[c])
        /\ out[d] # << >>
        /\ last' = last
    BY DropsMembers
  <1>2. CASE c # d
    BY <1>1, <1>2 DEF LastInv, EndsWithLast
  <1>3. CASE c = d
    <2>1. out[c] \in Seq(Messages) /\ out[c] # << >>
      BY <1>1, <1>3 DEF TypeInv, TypeOK
    <2>2. last[c] = {out[c][Len(out[c])]}
      BY <2>1 DEF LastInv, EndsWithLast
    <2>3. Tail(out[c]) # << >>
      BY <1>1, <1>3
    <2>4. Tail(out[c])[Len(Tail(out[c]))] = out[c][Len(out[c])]
      BY <2>1, <2>3, TailEnd
    <2>5. out'[c] = Tail(out[c]) /\ last'[c] = last[c]
      BY <1>1, <1>3
    <2> QED BY <2>2, <2>4, <2>5, Zenon
  <1> QED BY <1>2, <1>3

\* Nothing is put in, given up or dropped, but the writer may take a message.
LEMMA NextLastInvQuiet ==
    ASSUME TypeInv, StreamsOrdered, LastInv, [Next]_vars,
           \/ UNCHANGED <<out, last, lost>>
           \/ \E d \in Conns : TakeMessage(d)
    PROVE  LastInv'
  <1>0. out \in [Conns -> Seq(Messages)]
    BY DEF TypeInv, TypeOK
  <1>1. CASE UNCHANGED <<out, last, lost>>
    <2>1. \A t \in Everyone : SenderAt(t, "retry") => sender'[t] = sender[t] \/ PutsIn(t) \/ GivesUp(t)
      BY RetriesWait
    <2>2. ASSUME NEW s \in Everyone, PutsIn(s) PROVE FALSE
      <3>1. out[sender[s].conn] = Append(out[sender[s].conn], Own(s))
        BY <1>1, <2>2, PutsInMembers, OwnIsMessage DEF PutsIn
      <3>2. Own(s) \in Messages /\ sender[s].conn \in Conns
        BY <2>2, OwnIsMessage DEF PutsIn
      <3>3. ASSUME NEW q \in Seq(Messages), NEW m \in Messages PROVE q # Append(q, m)
        <4>1. Len(Append(q, m)) # Len(q)
          OBVIOUS
        <4> QED BY <4>1
      <3> QED BY <1>0, <3>1, <3>2, <3>3
    <2>3. ASSUME NEW s \in Everyone, GivesUp(s), NEW c \in Conns, out[c] = << >>
          PROVE  sender[s].conn # c
      BY <2>3, ConnsAreNumbers DEF GivesUp, Full
    <2>4. LostLastIsReplaced'
      BY <1>1, <2>1, <2>2, <2>3 DEF LastInv, LostLastIsReplaced, SenderAt
    <2> QED BY <1>1, <2>4 DEF LastInv, EndsWithLast, QueuedIsNotLost, QueuesAreDisjoint
  <1>2. ASSUME NEW d \in Conns, TakeMessage(d) PROVE LastInv'
    <2>1. \A c \in Conns : /\ c # d => out'[c] = out[c]
                           /\ c = d => out'[c] = Tail(out[c])
                           /\ Members(out'[c]) \subseteq Members(out[c])
      BY <1>2, DropsMembers
    <2>2. UNCHANGED <<last, lost, sender>> /\ out[d] # << >>
      BY <1>2 DEF TakeMessage, ghosts
    <2>3. EndsWithLast'
      BY <1>2, TailEndsWithLast
    <2>4. QueuedIsNotLost'
      BY <2>1, <2>2 DEF LastInv, QueuedIsNotLost
    <2>5. QueuesAreDisjoint'
      BY <2>1, <2>2 DEF LastInv, QueuesAreDisjoint
    <2>6. LostLastIsReplaced'
      BY <2>1, <2>2 DEF LastInv, LostLastIsReplaced, SenderAt
    <2> QED BY <2>3, <2>4, <2>5, <2>6 DEF LastInv
  <1> QED BY <1>1, <1>2

LEMMA NextLastInvPutsIn ==
    ASSUME TypeInv, AllPast, LastInv, [Next]_vars, NEW s \in Everyone, PutsIn(s)
    PROVE  LastInv'
  <1> DEFINE k == sender[s].conn
  <1>0. /\ out \in [Conns -> Seq(Messages)]
        /\ k \in Conns /\ Own(s) \in Messages /\ ~SenderAt(s, "idle")
    BY OwnIsMessage DEF PutsIn, TypeInv, TypeOK
  <1>1. /\ \A c \in Conns : c # k => out'[c] = out[c] /\ last'[c] = last[c]
        /\ out'[k] = Append(out[k], Own(s))
        /\ last'[k] = {Own(s)}
        /\ Members(out'[k]) = Members(out[k]) \cup {Own(s)}
        /\ lost' = lost
    BY <1>0, PutsInMembers
  <1>2. /\ \A c \in Conns : Own(s) \notin Members(out[c]) \cup last[c]
        /\ Own(s) \notin lost
    <2>1. \A m \in Messages : Past(m) => m # Own(s)
      BY <1>0, OwnIsNew
    <2>2. \A c \in Conns : \A m \in Members(out[c]) \cup last[c] \cup lost : m \in Messages /\ Past(m)
      BY MessagesAreMessages DEF AllPast
    <2> QED BY <1>0, <2>1, <2>2
  <1>3. \A t \in Everyone : SenderAt(t, "retry") /\ sender[t].conn # k => sender'[t] = sender[t]
    <2>1. sender' = [sender EXCEPT ![s].pc = "idle", ![s].conn = NoConn]
      BY DEF PutsIn, Put, Return
    <2> QED BY <2>1 DEF TypeInv, TypeOK
  <1> HIDE DEF k
  <1>4. EndsWithLast'
    <2>1. ASSUME NEW q \in Seq(Messages), NEW m \in Messages
          PROVE  Append(q, m)[Len(Append(q, m))] = m
      OBVIOUS
    <2>2. last'[k] = {out'[k][Len(out'[k])]}
      BY <1>0, <1>1, <2>1
    <2> QED BY <1>1, <2>2 DEF LastInv, EndsWithLast
  <1>5. QueuedIsNotLost'
    BY <1>1, <1>2 DEF LastInv, QueuedIsNotLost
  <1>6. QueuesAreDisjoint'
    <2> SUFFICES ASSUME NEW c \in Conns, NEW e \in Conns, c # e
                 PROVE  Members(out'[c]) \cap (Members(out'[e]) \cup last'[e]) = {}
      BY DEF QueuesAreDisjoint
    <2>1. Members(out[c]) \cap (Members(out[e]) \cup last[e]) = {}
      BY DEF LastInv, QueuesAreDisjoint
    <2>2. CASE c = k
      <3>1. out'[e] = out[e] /\ last'[e] = last[e] /\ Members(out'[c]) = Members(out[c]) \cup {Own(s)}
        BY <1>1, <2>2
      <3> QED BY <1>2, <2>1, <3>1
    <2>3. CASE e = k
      <3>1. out'[c] = out[c] /\ last'[e] = {Own(s)} /\ Members(out'[e]) = Members(out[e]) \cup {Own(s)}
        BY <1>1, <2>3
      <3> QED BY <1>2, <2>1, <3>1
    <2>4. CASE c # k /\ e # k
      BY <1>1, <2>1, <2>4
    <2> QED BY <2>2, <2>3, <2>4
  <1>7. LostLastIsReplaced'
    <2>1. last'[k] \cap lost' = {}
      BY <1>1, <1>2
    <2>2. ASSUME NEW c \in Conns, c # k, last[c] \cap lost # {}
          PROVE  \E t \in Everyone : SenderAt(t, "retry")' /\ sender'[t].conn = c
      BY <1>3, <2>2 DEF LastInv, LostLastIsReplaced, SenderAt
    <2> QED BY <1>1, <2>1, <2>2 DEF LastInv, LostLastIsReplaced
  <1> QED BY <1>4, <1>5, <1>6, <1>7 DEF LastInv

LEMMA NextLastInvGivesUp ==
    ASSUME TypeInv, AllPast, LastInv, [Next]_vars, NEW s \in Everyone, GivesUp(s)
    PROVE  LastInv'
  <1>0. Own(s) \in Messages /\ ~SenderAt(s, "idle")
    BY OwnIsMessage DEF GivesUp, SenderAt
  <1>1. UNCHANGED <<out, last>> /\ lost' = lost \cup {Own(s)}
    BY DEF GivesUp
  <1>2. \A c \in Conns : Own(s) \notin Members(out[c]) \cup last[c]
    <2>1. \A m \in Messages : Past(m) => m # Own(s)
      BY <1>0, OwnIsNew
    <2>2. \A c \in Conns : \A m \in Members(out[c]) \cup last[c] : m \in Messages /\ Past(m)
      BY MessagesAreMessages DEF AllPast
    <2> QED BY <1>0, <2>1, <2>2
  <1>3. ASSUME NEW c \in Conns, out[c] = << >>, NEW t \in Everyone, sender[t].conn = c
        PROVE  sender'[t] = sender[t]
    <2>1. t # s
      BY <1>3, ConnsAreNumbers DEF GivesUp, Full
    <2>2. sender' = [sender EXCEPT ![s].pc = "idle", ![s].conn = NoConn]
      BY DEF GivesUp, Return
    <2> QED BY <2>1, <2>2 DEF TypeInv, TypeOK
  <1>4. LostLastIsReplaced'
    BY <1>1, <1>2, <1>3 DEF LastInv, LostLastIsReplaced, SenderAt
  <1> QED BY <1>1, <1>2, <1>4 DEF LastInv, EndsWithLast, QueuedIsNotLost,
             QueuesAreDisjoint

LEMMA NextLastInvDrops ==
    ASSUME TypeInv, StreamsOrdered, LastInv, [Next]_vars, NEW d \in Conns, Drops(d)
    PROVE  LastInv'
  <1>0. out \in [Conns -> Seq(Messages)] /\ Ordered(out[d])
    BY DEF TypeInv, TypeOK, StreamsOrdered
  <1>1. /\ \A c \in Conns : /\ c # d => out'[c] = out[c]
                            /\ Members(out'[c]) \subseteq Members(out[c])
        /\ out'[d] = Tail(out[d])
        /\ out[d] # << >>
        /\ Head(out[d]) \in Members(out[d])
        /\ UNCHANGED last
    BY DropsMembers
  <1>2. lost' = lost \cup {Head(out[d])}
    BY DEF Drops
  <1>3. PICK s \in Everyone : /\ SenderAt(s, "drop")
                              /\ sender[s].conn = d
                              /\ sender' = [sender EXCEPT ![s].pc = "retry"]
    BY DEF Drops
  <1>4. /\ SenderAt(s, "retry")' /\ sender'[s].conn = d
        /\ \A t \in Everyone : SenderAt(t, "retry") => sender'[t] = sender[t]
    BY <1>3 DEF SenderAt, TypeInv, TypeOK
  <1>5. EndsWithLast'
    BY TailEndsWithLast
  <1>6. QueuedIsNotLost'
    <2>1. Head(out[d]) \notin Members(out'[d])
      BY <1>0, <1>1, TailEnd
    <2>2. \A c \in Conns : c # d => Head(out[d]) \notin Members(out[c])
      BY <1>1 DEF LastInv, QueuesAreDisjoint
    <2> QED BY <1>1, <1>2, <2>1, <2>2 DEF LastInv, QueuedIsNotLost
  <1>7. QueuesAreDisjoint'
    BY <1>1 DEF LastInv, QueuesAreDisjoint
  <1>8. LostLastIsReplaced'
    <2>1. ASSUME last[d] \cap lost' # {} PROVE out'[d] = << >>
      <3>1. last[d] = {out[d][Len(out[d])]} /\ last[d] \cap lost = {}
        BY <1>1 DEF LastInv, EndsWithLast, LostLastIsReplaced
      <3>2. Head(out[d]) = out[d][Len(out[d])]
        BY <1>2, <2>1, <3>1
      <3> QED BY <1>0, <1>1, <3>2, TailEnd
    <2>2. \A c \in Conns : c # d => Head(out[d]) \notin last[c]
      BY <1>1 DEF LastInv, QueuesAreDisjoint
    <2>3. ASSUME NEW c \in Conns, c # d, last[c] \cap lost' # {}
          PROVE  /\ out'[c] = << >>
                 /\ \E t \in Everyone : SenderAt(t, "retry")' /\ sender'[t].conn = c
      <3>1. last[c] \cap lost # {}
        BY <1>2, <2>2, <2>3
      <3> QED BY <1>1, <1>4, <2>3, <3>1 DEF LastInv, LostLastIsReplaced, SenderAt
    <2> QED BY <1>1, <1>4, <2>1, <2>3 DEF LostLastIsReplaced
  <1> QED BY <1>5, <1>6, <1>7, <1>8 DEF LastInv

LEMMA NextLastInv ==
    ASSUME TypeInv, AllPast, StreamsOrdered, LastInv, [Next]_vars
    PROVE  LastInv'
  <1>1. CASE UNCHANGED messages
    BY <1>1, NextLastInvQuiet DEF messages
  <1>2. ASSUME NEW d \in Conns, Write(d) PROVE LastInv'
    BY <1>2, NextLastInvQuiet DEF Write
  <1>3. ASSUME NEW d \in Conns, TakeMessage(d) PROVE LastInv'
    BY <1>3, NextLastInvQuiet
  <1> QED BY <1>1, <1>2, <1>3, StepKinds, NextLastInvPutsIn, NextLastInvGivesUp,
             NextLastInvDrops

\* When nobody is sending to a connection, the message that was put in last has
\* not been dropped.
THEOREM FreshestIsThere == Spec => []FreshestSurvives
  <1>1. Init => LastInv
    <2> SUFFICES ASSUME Init PROVE LastInv
      OBVIOUS
    <2>1. \A c \in Conns : out[c] = << >> /\ last[c] = {}
      BY DEF Init
    <2>2. lost = {}
      BY DEF Init
    <2> QED BY <2>1, <2>2, EmptyIsOrdered
            DEF LastInv, EndsWithLast, QueuedIsNotLost, QueuesAreDisjoint,
            LostLastIsReplaced
  <1>2. LastInv => FreshestSurvives
    BY DEF LastInv, LostLastIsReplaced, FreshestSurvives
  <1> QED BY <1>1, <1>2, AlwaysOrdered, NextLastInv, PTL DEF Spec
=============================================================================
