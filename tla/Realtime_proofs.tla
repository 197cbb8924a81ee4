---------------------------- MODULE Realtime_proofs ----------------------------
(***************************************************************************)
(* Proofs of safety properties of Realtime, for any number of connections  *)
(* and polls, any buffers, and any bounds.                                 *)
(***************************************************************************)
EXTENDS Realtime, TLAPS

USE DEF vars, pageVars, pollVars, connVars, ServerStep

(***************************************************************************)
(* Types, and the lock of a connection's writer.                           *)
(***************************************************************************)

\* The page tries again only while it has tries left.
TriesLeft == page # "alone" => retry <= RetryLimit

TypeInv == TypeOK /\ TriesLeft

LEMMA Bounds ==
  /\ RetryLimit \in Nat /\ MaxVersion \in Nat /\ MaxFaults \in Nat /\ WireCap \in Nat \ {0}
  /\ None \notin Conns /\ None \notin Nat
BY RealtimeAssumption

LEMMA BlankIsPicture == Blank \in Picture
BY DEF Blank, Picture, Answers

LEMMA ReadIsPicture ==
  ASSUME NEW picture \in Picture, NEW f \in Fields, NEW v \in Versions
  PROVE  [picture EXCEPT ![f] = v] \in Picture
BY DEF Picture, Answers

LEMMA TypeInit == Init => TypeInv
<1> SUFFICES ASSUME Init
             PROVE  TypeInv
  OBVIOUS
<1>1. wire \in [Conns -> Seq(Picture)] /\ \A c \in Conns : Len(wire[c]) <= WireCap
  BY Bounds DEF Init
<1>2. db \in Versions /\ retry \in 0..(RetryLimit + 1)
  BY Bounds DEF Init, Versions
<1>3. /\ sock \in Conns \cup {None} /\ (page \in {"opening", "open"} <=> sock # None)
      /\ page \in {"opening", "open", "waiting", "alone", "left"}
      /\ asked \subseteq Polls
  BY DEF Init
<1>4. shown \in Picture /\ poll \in [Polls -> Picture] /\ got \in [Conns -> Picture]
  BY BlankIsPicture DEF Init
<1>5. /\ link \in [Conns -> {"none", "up", "down"}]
      /\ serve \in [Conns -> {"off", "read", "reply", "write"}]
      /\ push \in [Conns -> {"off", "wait", "statuses", "nodes", "reply", "write"}]
      /\ \A c \in Conns : ~(serve[c] = "write" /\ push[c] = "write")
  BY DEF Init
<1>6. raced \in BOOLEAN
  BY DEF Init
<1>7. faults \in 0..MaxFaults /\ TriesLeft
  BY Bounds DEF Init, TriesLeft
<1> QED
  BY <1>1, <1>2, <1>3, <1>4, <1>5, <1>6, <1>7 DEF TypeInv, TypeOK

\* A connection that ends costs a try.
LEMMA ClosedType ==
  ASSUME TypeInv, page \in {"opening", "open"}, Closed,
         faults' \in 0..MaxFaults, UNCHANGED link
  PROVE  TypeInv'
<1>1. retry' \in 0..(RetryLimit + 1) /\ TriesLeft'
  BY Bounds DEF Closed, MayRetry, TypeInv, TypeOK, TriesLeft
<1>2. wire' \in [Conns -> Seq(Picture)] /\ \A c \in Conns : Len(wire'[c]) <= WireCap
  BY Bounds DEF Closed, Drained, TypeInv, TypeOK
<1> QED
  BY <1>1, <1>2 DEF Closed, TypeInv, TypeOK

LEMMA FaultType == TypeOK /\ Fault => faults' \in 0..MaxFaults
BY Bounds DEF Fault, TypeOK

LEMMA PageType == TypeInv /\ (PageGoesOn \/ ConnectFails \/ Leave) => TypeInv'
<1> SUFFICES ASSUME TypeInv, PageGoesOn \/ ConnectFails \/ Leave
             PROVE  TypeInv'
  OBVIOUS
<1> USE DEF TypeInv
<1>1. CASE Opened
  BY <1>1, Bounds DEF Opened, TypeOK, TriesLeft
<1>2. CASE Receive
  <2>1. sock \in Conns /\ wire[sock] \in Seq(Picture) /\ wire[sock] # <<>>
    BY <1>2 DEF Receive, TypeOK
  <2>2. /\ Head(wire[sock]) \in Picture /\ Tail(wire[sock]) \in Seq(Picture)
        /\ Len(Tail(wire[sock])) = Len(wire[sock]) - 1
    BY <2>1
  <2>3. wire' \in [Conns -> Seq(Picture)] /\ \A c \in Conns : Len(wire'[c]) <= WireCap
    BY <1>2, <2>1, <2>2, Bounds DEF Receive, TypeOK
  <2> QED
    BY <1>2, <2>2, <2>3 DEF Receive, TypeOK, TriesLeft
<1>3. CASE OnClose
  BY <1>3, ClosedType DEF OnClose, TypeOK
<1>4. ASSUME NEW c \in Conns, Connect(c)
      PROVE  TypeInv'
  BY <1>4, Bounds DEF Connect, TypeOK, TriesLeft
<1>5. ASSUME NEW c \in Conns, Accept(c)
      PROVE  TypeInv'
  BY <1>5 DEF Accept, TypeOK, TriesLeft
<1>6. CASE ConnectFails
  BY <1>6, ClosedType, FaultType DEF ConnectFails
<1>7. CASE Leave
  <2>1. wire' \in [Conns -> Seq(Picture)] /\ \A c \in Conns : Len(wire'[c]) <= WireCap
    BY <1>7, Bounds DEF Leave
  <2>2. link' \in [Conns -> {"none", "up", "down"}]
    BY <1>7 DEF Leave, TypeOK
  <2>3. retry' \in 0..(RetryLimit + 1) /\ TriesLeft'
    BY <1>7, Bounds DEF Leave, TriesLeft
  <2>4. shown' \in Picture /\ poll' \in [Polls -> Picture] /\ asked' \subseteq Polls
    BY <1>7, BlankIsPicture DEF Leave
  <2>5. /\ sock' = None /\ page' = "left" /\ raced' \in BOOLEAN
        /\ UNCHANGED <<db, serve, push, got, faults>>
    BY <1>7 DEF Leave
  <2> QED
    BY <2>1, <2>2, <2>3, <2>4, <2>5 DEF TypeOK
<1> QED
  BY <1>1, <1>2, <1>3, <1>4, <1>5, <1>6, <1>7 DEF PageGoesOn

LEMMA PollType ==
  ASSUME TypeInv, NEW p \in Polls, Poll(p)
  PROVE  TypeInv'
<1> USE DEF TypeInv
<1>1. CASE StartPoll(p)
  BY <1>1, BlankIsPicture DEF StartPoll, TypeOK, TriesLeft
<1>2. CASE PollReads(p)
  <2>1. PICK f \in Fields : poll' = [poll EXCEPT ![p][f] = db]
    BY <1>2 DEF PollReads
  <2>2. poll' \in [Polls -> Picture]
    BY <2>1, ReadIsPicture DEF TypeOK
  <2> QED
    BY <1>2, <2>2 DEF PollReads, TypeOK, TriesLeft
<1>3. CASE PollAnswered(p)
  BY <1>3, BlankIsPicture DEF PollAnswered, TypeOK, TriesLeft
<1>4. CASE PollFails(p)
  BY <1>4, FaultType, BlankIsPicture DEF PollFails, TypeOK, TriesLeft
<1> QED
  BY <1>1, <1>2, <1>3, <1>4 DEF Poll

LEMMA DispatcherType ==
  ASSUME TypeInv, NEW c \in Conns, Dispatcher(c)
  PROVE  TypeInv'
<1> USE DEF TypeInv
<1>1. CASE ReadRequest(c)
  BY <1>1 DEF ReadRequest, TypeOK, TriesLeft
<1>2. CASE ReadFails(c)
  BY <1>2 DEF ReadFails, TypeOK, TriesLeft
<1>3. CASE ServeLocks(c)
  BY <1>3 DEF ServeLocks, Writing, TypeOK, TriesLeft
<1>4. CASE ServeWrites(c)
  BY <1>4 DEF ServeWrites, TypeOK, TriesLeft
<1> QED
  BY <1>1, <1>2, <1>3, <1>4 DEF Dispatcher

LEMMA PusherType ==
  ASSUME TypeInv, NEW c \in Conns, Pusher(c)
  PROVE  TypeInv'
<1> USE DEF TypeInv
<1>1. CASE PushStops(c)
  BY <1>1 DEF PushStops, TypeOK, TriesLeft
<1>2. CASE PushTick(c)
  BY <1>2 DEF PushTick, TypeOK, TriesLeft
<1>3. CASE PushReads(c)
  <2>1. got' \in [Conns -> Picture]
    BY <1>3, ReadIsPicture DEF PushReads, TypeOK
  <2> QED
    BY <1>3, <2>1 DEF PushReads, TypeOK, TriesLeft
<1>4. CASE PushSkips(c)
  BY <1>4, FaultType, BlankIsPicture DEF PushSkips, TypeOK, TriesLeft
<1>5. CASE PushLocks(c)
  BY <1>5 DEF PushLocks, Writing, TypeOK, TriesLeft
<1>6. CASE PushWrites(c)
  <2>1. got[c] \in Picture /\ wire[c] \in Seq(Picture) /\ Len(wire[c]) < WireCap
    BY <1>6 DEF PushWrites, Writable, TypeOK
  <2>2. /\ Append(wire[c], got[c]) \in Seq(Picture)
        /\ Len(Append(wire[c], got[c])) = Len(wire[c]) + 1
    BY <2>1
  <2>3. wire' \in [Conns -> Seq(Picture)] /\ \A d \in Conns : Len(wire'[d]) <= WireCap
    BY <1>6, <2>1, <2>2, Bounds DEF PushWrites, TypeOK
  <2> QED
    BY <1>6, <2>3, BlankIsPicture DEF PushWrites, TypeOK, TriesLeft
<1>7. CASE PushFails(c)
  BY <1>7, BlankIsPicture DEF PushFails, TypeOK, TriesLeft
<1> QED
  BY <1>1, <1>2, <1>3, <1>4, <1>5, <1>6, <1>7 DEF Pusher

LEMMA TypeStep == TypeInv /\ [Next]_vars => TypeInv'
<1> SUFFICES ASSUME TypeInv, [Next]_vars
             PROVE  TypeInv'
  OBVIOUS
<1>1. CASE Change
  BY <1>1, Bounds DEF Change, TypeInv, TypeOK, TriesLeft, Versions
<1>2. CASE PageGoesOn \/ ConnectFails \/ Leave
  BY <1>2, PageType
<1>3. CASE \E p \in Polls : Poll(p)
  BY <1>3, PollType
<1>4. ASSUME NEW c \in Conns, Break(c)
      PROVE  TypeInv'
  BY <1>4, FaultType DEF Break, TypeInv, TypeOK, TriesLeft
<1>5. ASSUME NEW c \in Conns, Dispatcher(c) \/ Pusher(c)
      PROVE  TypeInv'
  BY <1>5, DispatcherType, PusherType
<1>6. CASE UNCHANGED vars
  BY <1>6 DEF TypeInv, TypeOK, TriesLeft
<1> QED
  BY <1>1, <1>2, <1>3, <1>4, <1>5, <1>6 DEF Next

\* Every variable keeps its type: a dispatcher and its pusher never write at once,
\* the buffers of a connection never overflow, and the page never tries oftener
\* than RetryLimit allows.
THEOREM TypeCorrect == Spec => []TypeOK
<1>1. TypeInv => TypeOK
  BY DEF TypeInv
<1> QED
  BY <1>1, TypeInit, TypeStep, PTL DEF Spec
(***************************************************************************)
(* The order of pictures.  On a connection that was opened with no poll    *)
(* under way, what the page shows, what is on its way and what the pusher  *)
(* has read so far were read in this order.  What an earlier connection    *)
(* left behind cannot get in between: a link that is up is the page's, and *)
(* nothing is under way on any other.                                      *)
(***************************************************************************)

OneLink ==
  \A c \in Conns :
    /\ link[c] = "up" => c = sock
    /\ wire[c] # <<>> => c = sock
    /\ c = sock /\ link[c] = "none" => push[c] = "off"

\* A pusher has read the statuses, then the nodes, or has nothing.
Reading ==
  \A c \in Conns :
    /\ push[c] \in {"off", "wait", "statuses"} => got[c] = Blank
    /\ push[c] = "nodes" => got[c]["statuses"] # None /\ got[c]["nodes"] = None
    /\ push[c] \in {"reply", "write"} => \A f \in Fields : got[c][f] # None

\* Nobody has an answer from the future.
FromTheStore(picture) == \A f \in Fields : picture[f] = None \/ picture[f] <= db

AllFromTheStore ==
  /\ FromTheStore(shown)
  /\ \A p \in Polls : FromTheStore(poll[p])
  /\ \A c \in Conns :
       FromTheStore(got[c]) /\ \A i \in 1..Len(wire[c]) : FromTheStore(wire[c][i])

\* new is not older than old as far as it has been read.
UpTo(old, new) == \A f \in Fields : old[f] = None \/ new[f] = None \/ old[f] <= new[f]

InOrder(c) ==
  /\ asked = {}
  /\ UpTo(shown, got[c])
  /\ \A i \in 1..Len(wire[c]) :
       /\ NotOlder(shown, wire[c][i])
       /\ UpTo(wire[c][i], got[c])
       /\ \A j \in 1..Len(wire[c]) : i <= j => NotOlder(wire[c][i], wire[c][j])

PushesInOrder == sock # None /\ ~raced => InOrder(sock)

PushInv == OneLink /\ Reading /\ AllFromTheStore /\ PushesInOrder

LEMMA BlankIsNone == \A f \in Fields : Blank[f] = None
BY DEF Blank

LEMMA BlankIsOlder ==
  ASSUME NEW picture
  PROVE  FromTheStore(Blank) /\ UpTo(picture, Blank) /\ NotOlder(Blank, picture)
BY BlankIsNone DEF FromTheStore, UpTo, NotOlder

LEMMA AnswerType ==
  ASSUME NEW picture \in Picture, NEW f \in Fields
  PROVE  picture[f] = None \/ picture[f] \in Nat
BY Bounds DEF Picture, Answers, Versions

LEMMA SameIsNotOlder ==
  ASSUME NEW picture \in Picture
  PROVE  NotOlder(picture, picture)
BY AnswerType DEF NotOlder

\* An answer that is read now is not older than anything.
LEMMA ReadIsNewest ==
  ASSUME TypeOK, NEW picture \in Picture, NEW f \in Fields, FromTheStore(picture)
  PROVE  /\ FromTheStore([picture EXCEPT ![f] = db])
         /\ \A old : FromTheStore(old) /\ UpTo(old, picture)
                       => UpTo(old, [picture EXCEPT ![f] = db])
<1>1. db \in Nat
  BY Bounds DEF TypeOK, Versions
<1>2. \A g \in Fields : [picture EXCEPT ![f] = db][g] = IF g = f THEN db ELSE picture[g]
  BY DEF Picture
<1> QED
  BY <1>1, <1>2 DEF FromTheStore, UpTo

\* As long as the store does not change it is enough to look at the new pictures.
LEMMA StillFromTheStore ==
  ASSUME db' = db, FromTheStore(shown'), \A p \in Polls : FromTheStore(poll'[p]),
         \A c \in Conns : FromTheStore(got'[c]),
         \A c \in Conns : \A i \in 1..Len(wire'[c]) : FromTheStore(wire'[c][i])
  PROVE  AllFromTheStore'
BY DEF AllFromTheStore, FromTheStore

LEMMA PushInit == Init => PushInv
<1> SUFFICES ASSUME Init
             PROVE  PushInv
  OBVIOUS
<1>1. OneLink
  BY Bounds DEF Init, OneLink
<1>2. Reading
  BY DEF Init, Reading
<1>3. FromTheStore(Blank)
  BY BlankIsOlder
<1>4. AllFromTheStore
  <2>1. \A c \in Conns : got[c] = Blank /\ wire[c] = <<>>
    BY DEF Init
  <2>2. shown = Blank /\ \A p \in Polls : poll[p] = Blank
    BY DEF Init
  <2> QED
    BY <1>3, <2>1, <2>2 DEF AllFromTheStore
<1>5. PushesInOrder
  BY DEF Init, PushesInOrder
<1> QED
  BY <1>1, <1>2, <1>4, <1>5 DEF PushInv

\* A step that reads nothing, sends nothing and shows nothing.
LEMMA QuietStep ==
  ASSUME PushInv, UNCHANGED <<db, sock, raced, shown, poll, asked, got, wire>>,
         OneLink', Reading'
  PROVE  PushInv'
BY DEF PushInv, AllFromTheStore, FromTheStore, PushesInOrder, InOrder, UpTo, NotOlder

\* The end of a connection takes what was on its way with it.
LEMMA ClosedKeepsOrder ==
  ASSUME TypeInv, PushInv, page \in {"opening", "open"}, link[sock] # "up", Closed,
         UNCHANGED link
  PROVE  PushInv'
<1>1. /\ sock' = None /\ sock \in Conns /\ wire' = [wire EXCEPT ![sock] = <<>>]
      /\ UNCHANGED <<db, shown, poll, asked, push, got>>
  BY DEF Closed, Drained, TypeInv, TypeOK
<1>2. \A c \in Conns : wire'[c] = <<>>
  BY <1>1 DEF PushInv, OneLink, TypeInv, TypeOK
<1>3. OneLink'
  BY <1>1, <1>2, Bounds DEF PushInv, OneLink
<1>4. Reading'
  BY <1>1 DEF PushInv, Reading
<1>5. AllFromTheStore'
  BY <1>1, <1>2 DEF PushInv, AllFromTheStore, FromTheStore
<1>6. PushesInOrder'
  BY <1>1 DEF PushesInOrder
<1> QED
  BY <1>3, <1>4, <1>5, <1>6 DEF PushInv

LEMMA ReceiveKeepsOrder ==
  ASSUME TypeInv, PushInv, Receive
  PROVE  PushInv'
<1> DEFINE w == wire[sock]
<1>1. /\ sock \in Conns /\ w \in Seq(Picture) /\ w # <<>>
      /\ shown' = Head(w) /\ wire' = [wire EXCEPT ![sock] = Tail(w)]
      /\ wire \in [Conns -> Seq(Picture)]
      /\ UNCHANGED <<db, sock, raced, poll, asked, link, push, got>>
  BY DEF Receive, TypeInv, TypeOK
<1>2. /\ 1 \in 1..Len(w) /\ Head(w) = w[1] /\ Len(w) \in Nat /\ Len(Tail(w)) = Len(w) - 1
      /\ \A i \in 1..Len(Tail(w)) : i + 1 \in 1..Len(w) /\ Tail(w)[i] = w[i + 1]
  BY <1>1
<1>3. /\ wire'[sock] = Tail(w)
      /\ \A c \in Conns : c # sock => wire'[c] = wire[c]
  BY <1>1
<1> HIDE DEF w
<1>4. OneLink'
  BY <1>1, <1>3 DEF PushInv, OneLink
<1>5. Reading'
  BY <1>1 DEF PushInv, Reading
<1>6. AllFromTheStore'
  <2>1. \A i \in 1..Len(w) : FromTheStore(w[i])
    BY <1>1 DEF PushInv, AllFromTheStore, w
  <2>2. FromTheStore(shown')
    BY <1>1, <1>2, <2>1
  <2>3. ASSUME NEW c \in Conns, NEW i \in 1..Len(wire'[c])
        PROVE  FromTheStore(wire'[c][i])
    <3>1. CASE c = sock
      BY <1>2, <1>3, <2>1, <2>3, <3>1
    <3>2. CASE c # sock
      BY <1>3, <2>3, <3>2 DEF PushInv, AllFromTheStore
    <3> QED
      BY <3>1, <3>2
  <2>4. /\ \A p \in Polls : FromTheStore(poll'[p])
        /\ \A c \in Conns : FromTheStore(got'[c])
    BY <1>1 DEF PushInv, AllFromTheStore
  <2> QED
    BY <1>1, <2>2, <2>3, <2>4, StillFromTheStore
<1>7. ASSUME ~raced
      PROVE  InOrder(sock)'
  <2>1. /\ asked = {}
        /\ \A i \in 1..Len(w) :
             /\ UpTo(w[i], got[sock])
             /\ \A j \in 1..Len(w) : i <= j => NotOlder(w[i], w[j])
    BY <1>1, <1>7, Bounds DEF PushInv, PushesInOrder, InOrder, w
  <2>2. UpTo(shown', got[sock])
    BY <1>1, <1>2, <2>1
  <2>3. ASSUME NEW i \in 1..Len(Tail(w))
        PROVE  /\ NotOlder(shown', Tail(w)[i])
               /\ UpTo(Tail(w)[i], got[sock])
               /\ \A j \in 1..Len(Tail(w)) : i <= j => NotOlder(Tail(w)[i], Tail(w)[j])
    <3>1. 1 <= i + 1 /\ i + 1 \in 1..Len(w) /\ Tail(w)[i] = w[i + 1]
      BY <1>2
    <3>2. NotOlder(w[1], w[i + 1]) /\ UpTo(w[i + 1], got[sock])
      BY <1>2, <2>1, <3>1
    <3>3. ASSUME NEW j \in 1..Len(Tail(w)), i <= j
          PROVE  NotOlder(w[i + 1], w[j + 1])
      <4>1. i + 1 <= j + 1 /\ j + 1 \in 1..Len(w)
        BY <1>2, <3>3
      <4> QED
        BY <2>1, <3>1, <4>1
    <3> QED
      BY <1>1, <1>2, <3>1, <3>2, <3>3
  <2> QED
    BY <1>1, <1>3, <2>1, <2>2, <2>3 DEF InOrder, NotOlder, UpTo
<1>8. PushesInOrder'
  BY <1>1, <1>7 DEF PushesInOrder
<1> QED
  BY <1>4, <1>5, <1>6, <1>8 DEF PushInv

LEMMA ConnectKeepsOrder ==
  ASSUME TypeInv, PushInv, NEW c \in Conns, Connect(c)
  PROVE  PushInv'
<1>1. /\ sock = None /\ sock' = c /\ raced' = (asked # {})
      /\ push[c] = "off" /\ link' = [link EXCEPT ![c] = "none"]
      /\ UNCHANGED <<db, shown, poll, asked, push, got, wire>>
  BY DEF Connect, Free, TypeInv, TypeOK
<1>2. \A d \in Conns : wire[d] = <<>> /\ link[d] # "up"
  BY <1>1, Bounds DEF PushInv, OneLink
<1>3. OneLink'
  BY <1>1, <1>2 DEF OneLink, TypeInv, TypeOK
<1>4. Reading'
  BY <1>1 DEF PushInv, Reading
<1>5. AllFromTheStore'
  BY <1>1 DEF PushInv, AllFromTheStore, FromTheStore
<1>6. got[c] = Blank /\ Len(wire[c]) = 0
  BY <1>1, <1>2 DEF PushInv, Reading
<1>7. PushesInOrder'
  <2> SUFFICES ASSUME ~raced'
               PROVE  InOrder(c)'
    BY <1>1 DEF PushesInOrder
  <2>1. asked = {} /\ UpTo(shown, Blank)
    BY <1>1, BlankIsOlder
  <2> QED
    BY <1>1, <1>6, <2>1 DEF InOrder, UpTo
<1> QED
  BY <1>3, <1>4, <1>5, <1>7 DEF PushInv

LEMMA LeaveKeepsOrder ==
  ASSUME TypeInv, PushInv, Leave
  PROVE  PushInv'
<1>1. /\ sock' = None /\ shown' = Blank /\ poll' = [p \in Polls |-> Blank]
      /\ link' = [c \in Conns |-> IF c = sock /\ link[c] = "up" THEN "down" ELSE link[c]]
      /\ \A c \in Conns : wire'[c] = <<>>
      /\ UNCHANGED <<db, push, got>>
  BY DEF Leave
<1>2. OneLink'
  BY <1>1, Bounds DEF PushInv, OneLink
<1>3. Reading'
  BY <1>1 DEF PushInv, Reading
<1>4. AllFromTheStore'
  <2>1. FromTheStore(shown') /\ \A p \in Polls : FromTheStore(poll'[p])
    BY <1>1, BlankIsOlder
  <2>2. \A c \in Conns : Len(wire'[c]) = 0 /\ got'[c] = got[c]
    BY <1>1
  <2>3. \A c \in Conns : FromTheStore(got'[c])
    BY <2>2 DEF PushInv, AllFromTheStore
  <2> QED
    BY <1>1, <2>1, <2>2, <2>3, StillFromTheStore
<1> QED
  BY <1>1, <1>2, <1>3, <1>4 DEF PushInv, PushesInOrder

LEMMA PageKeepsOrder ==
  TypeInv /\ PushInv /\ (PageGoesOn \/ ConnectFails \/ Leave) => PushInv'
<1> SUFFICES ASSUME TypeInv, PushInv, PageGoesOn \/ ConnectFails \/ Leave
             PROVE  PushInv'
  OBVIOUS
<1>1. CASE Opened
  BY <1>1, QuietStep DEF Opened, PushInv, OneLink, Reading
<1>2. CASE Receive
  BY <1>2, ReceiveKeepsOrder
<1>3. CASE OnClose
  BY <1>3, ClosedKeepsOrder DEF OnClose
<1>4. ASSUME NEW c \in Conns, Connect(c)
      PROVE  PushInv'
  BY <1>4, ConnectKeepsOrder
<1>5. ASSUME NEW c \in Conns, Accept(c)
      PROVE  PushInv'
  <2>1. OneLink'
    BY <1>5 DEF Accept, PushInv, OneLink, TypeInv, TypeOK
  <2>2. got[c] = Blank
    BY <1>5 DEF Accept, PushInv, OneLink, Reading
  <2>3. Reading'
    BY <1>5, <2>2 DEF Accept, PushInv, Reading, TypeInv, TypeOK
  <2> QED
    BY <1>5, <2>1, <2>3, QuietStep DEF Accept
<1>6. CASE ConnectFails
  BY <1>6, ClosedKeepsOrder DEF ConnectFails
<1>7. CASE Leave
  BY <1>7, LeaveKeepsOrder
<1> QED
  BY <1>1, <1>2, <1>3, <1>4, <1>5, <1>6, <1>7 DEF PageGoesOn

\* Polls are started and answered on connections only that count as raced.
LEMMA PollKeepsOrder ==
  ASSUME TypeInv, PushInv, NEW p \in Polls, Poll(p)
  PROVE  PushInv'
<1>1. UNCHANGED <<db, sock, link, push, got, wire>>
  BY DEF Poll, StartPoll, PollReads, PollAnswered, PollFails
<1>2. OneLink' /\ Reading'
  BY <1>1 DEF PushInv, OneLink, Reading
<1>3. FromTheStore(shown)' /\ \A q \in Polls : FromTheStore(poll[q])'
  <2> DEFINE Now(picture) == \A f \in Fields : picture[f] = None \/ picture[f] <= db
  <2>1. Now(Blank) /\ Now(shown) /\ \A q \in Polls : Now(poll[q])
    BY BlankIsOlder DEF PushInv, AllFromTheStore, FromTheStore
  <2>2. CASE shown' = shown /\ poll' = [poll EXCEPT ![p] = Blank]
    BY <1>1, <2>1, <2>2 DEF FromTheStore, TypeInv, TypeOK
  <2>3. CASE PollReads(p)
    <3>1. PICK f \in Fields : poll' = [poll EXCEPT ![p] = [poll[p] EXCEPT ![f] = db]]
      BY <2>3 DEF PollReads
    <3>2. Now([poll[p] EXCEPT ![f] = db])
      BY ReadIsNewest DEF PushInv, AllFromTheStore, FromTheStore, TypeInv, TypeOK
    <3> QED
      BY <1>1, <2>1, <2>3, <3>1, <3>2 DEF PollReads, FromTheStore, TypeInv, TypeOK
  <2>4. CASE PollAnswered(p)
    BY <1>1, <2>1, <2>4 DEF PollAnswered, FromTheStore, TypeInv, TypeOK
  <2> QED
    BY <2>2, <2>3, <2>4 DEF Poll, StartPoll, PollFails
<1>4. AllFromTheStore'
  BY <1>1, <1>3 DEF PushInv, AllFromTheStore, FromTheStore
<1>5. PushesInOrder'
  <2>1. CASE sock # None /\ ~raced'
    <3>1. ~raced /\ InOrder(sock) /\ asked = {}
      BY <2>1 DEF Poll, StartPoll, PollReads, PollAnswered, PollFails,
                  PushInv, PushesInOrder, InOrder
    <3>2. FALSE
      BY <2>1, <3>1 DEF Poll, StartPoll, PollReads, PollAnswered, PollFails, Polling,
                        TypeInv, TypeOK
    <3> QED
      BY <3>2
  <2> QED
    BY <1>1, <2>1 DEF PushesInOrder
<1> QED
  BY <1>2, <1>4, <1>5 DEF PushInv

LEMMA PushReadsKeepsOrder ==
  ASSUME TypeInv, PushInv, NEW c \in Conns, PushReads(c)
  PROVE  PushInv'
<1> DEFINE new == [got[c] EXCEPT ![push[c]] = db]
<1>1. /\ push[c] \in Fields /\ got' = [got EXCEPT ![c] = new]
      /\ push' = [push EXCEPT ![c] = IF push[c] = "statuses" THEN "nodes" ELSE "reply"]
      /\ UNCHANGED <<db, sock, raced, shown, poll, asked, link, wire>>
  BY DEF PushReads
<1>2. /\ got[c] \in Picture /\ FromTheStore(got[c]) /\ TypeOK
      /\ got \in [Conns -> Picture]
  BY DEF TypeInv, TypeOK, PushInv, AllFromTheStore
<1>3. /\ FromTheStore(new)
      /\ \A old : FromTheStore(old) /\ UpTo(old, got[c]) => UpTo(old, new)
  BY <1>1, <1>2, ReadIsNewest
<1>4. \A f \in Fields : new[f] = IF f = push[c] THEN db ELSE got[c][f]
  BY <1>2 DEF Picture
<1> HIDE DEF new
<1>5. got'[c] = new /\ \A d \in Conns : d # c => got'[d] = got[d]
  BY <1>1, <1>2
<1>6. OneLink'
  BY <1>1 DEF PushInv, OneLink, Fields, TypeInv, TypeOK
<1>7. Reading'
  <2>1. db # None
    BY Bounds DEF TypeInv, TypeOK, Versions
  <2>2. CASE push[c] = "statuses"
    <3>1. new["statuses"] # None /\ new["nodes"] = None
      BY <1>4, <2>1, <2>2, BlankIsNone DEF PushInv, Reading, Fields
    <3> QED
      BY <1>1, <1>5, <2>2, <3>1 DEF PushInv, Reading, TypeInv, TypeOK
  <2>3. CASE push[c] = "nodes"
    <3>1. \A f \in Fields : new[f] # None
      BY <1>4, <2>1, <2>3 DEF PushInv, Reading, Fields
    <3> QED
      BY <1>1, <1>5, <2>3, <3>1 DEF PushInv, Reading, TypeInv, TypeOK
  <2> QED
    BY <1>1, <2>2, <2>3 DEF Fields
<1>8. AllFromTheStore'
  BY <1>1, <1>3, <1>5 DEF PushInv, AllFromTheStore, FromTheStore
<1>9. PushesInOrder'
  <2> SUFFICES ASSUME sock # None, ~raced
               PROVE  InOrder(sock)'
    BY <1>1 DEF PushesInOrder
  <2>1. InOrder(sock) /\ sock \in Conns
    BY DEF PushInv, PushesInOrder, TypeInv, TypeOK
  <2>2. \A old : FromTheStore(old) /\ UpTo(old, got[sock]) => UpTo(old, got'[sock])
    BY <1>3, <1>5, <2>1
  <2>3. UpTo(shown, got'[sock]) /\ \A i \in 1..Len(wire[sock]) : UpTo(wire[sock][i], got'[sock])
    BY <2>1, <2>2 DEF PushInv, AllFromTheStore, InOrder
  <2> QED
    BY <1>1, <2>1, <2>3 DEF InOrder, UpTo, NotOlder
<1> QED
  BY <1>6, <1>7, <1>8, <1>9 DEF PushInv

LEMMA PushWritesKeepsOrder ==
  ASSUME TypeInv, PushInv, NEW c \in Conns, PushWrites(c)
  PROVE  PushInv'
<1> DEFINE w == wire[c]
           v == Append(w, got[c])
<1>1. /\ link[c] = "up" /\ push[c] = "write"
      /\ wire' = [wire EXCEPT ![c] = v] /\ got' = [got EXCEPT ![c] = Blank]
      /\ push' = [push EXCEPT ![c] = "wait"]
      /\ UNCHANGED <<db, sock, raced, shown, poll, asked, link>>
  BY DEF PushWrites, Writable
<1>2. c = sock /\ \A f \in Fields : got[c][f] # None
  BY <1>1 DEF PushInv, OneLink, Reading
<1>3. /\ w \in Seq(Picture) /\ got[c] \in Picture
      /\ wire \in [Conns -> Seq(Picture)] /\ got \in [Conns -> Picture]
      /\ push \in [Conns -> {"off", "wait", "statuses", "nodes", "reply", "write"}]
  BY DEF TypeInv, TypeOK
<1>4. /\ Len(w) \in Nat /\ Len(v) = Len(w) + 1 /\ v[Len(w) + 1] = got[c]
      /\ \A i \in 1..Len(w) : v[i] = w[i]
  BY <1>3
<1>5. \A i \in 1..Len(v) : i \in 1..Len(w) \/ i = Len(w) + 1
  BY <1>4
<1>6. /\ wire'[c] = v /\ got'[c] = Blank
      /\ \A d \in Conns : d # c => wire'[d] = wire[d] /\ got'[d] = got[d]
  BY <1>1, <1>3
<1> HIDE DEF v, w
<1>7. OneLink'
  BY <1>1, <1>2, <1>6 DEF PushInv, OneLink
<1>8. Reading'
  BY <1>1, <1>3, <1>6 DEF PushInv, Reading
<1>9. AllFromTheStore'
  <2>1. FromTheStore(Blank) /\ \A i \in 1..Len(v) : FromTheStore(v[i])
    BY <1>4, <1>5, BlankIsOlder DEF PushInv, AllFromTheStore, w
  <2> QED
    BY <1>1, <1>6, <2>1 DEF PushInv, AllFromTheStore, FromTheStore
<1>10. ASSUME ~raced
       PROVE  InOrder(c)'
  <2>1. /\ asked = {} /\ UpTo(shown, got[c])
        /\ \A i \in 1..Len(w) :
             /\ NotOlder(shown, w[i]) /\ UpTo(w[i], got[c])
             /\ \A j \in 1..Len(w) : i <= j => NotOlder(w[i], w[j])
    BY <1>2, <1>10, Bounds DEF PushInv, PushesInOrder, InOrder, w
  <2>2. \A old : UpTo(old, got[c]) => NotOlder(old, got[c])
    BY <1>2 DEF UpTo, NotOlder
  <2>3. NotOlder(got[c], got[c])
    BY <1>3, SameIsNotOlder
  <2>4. ASSUME NEW i \in 1..Len(v)
        PROVE  /\ NotOlder(shown, v[i])
               /\ \A j \in 1..Len(v) : i <= j => NotOlder(v[i], v[j])
    <3>1. CASE i \in 1..Len(w)
      BY <1>4, <1>5, <2>1, <2>2, <3>1
    <3>2. CASE i = Len(w) + 1
      <4>1. \A j \in 1..Len(v) : i <= j => j = i
        BY <1>4, <3>2
      <4> QED
        BY <1>4, <2>1, <2>2, <2>3, <3>2, <4>1
    <3> QED
      BY <1>5, <3>1, <3>2
  <2>5. \A old : UpTo(old, Blank)
    BY BlankIsOlder
  <2> QED
    BY <1>1, <1>6, <2>1, <2>4, <2>5 DEF InOrder, NotOlder, UpTo
<1>11. PushesInOrder'
  BY <1>1, <1>2, <1>10 DEF PushesInOrder
<1> QED
  BY <1>7, <1>8, <1>9, <1>11 DEF PushInv

\* A pusher that gives up forgets what it has read.
LEMMA ForgetKeepsOrder ==
  ASSUME TypeInv, PushInv, NEW c \in Conns, push[c] # "off", got' = [got EXCEPT ![c] = Blank],
         NEW place \in {"off", "wait"}, push' = [push EXCEPT ![c] = place],
         UNCHANGED <<db, sock, raced, shown, poll, asked, link, wire>>
  PROVE  PushInv'
<1>1. \A d \in Conns : got'[d] = Blank \/ got'[d] = got[d]
  BY DEF TypeInv, TypeOK
<1>2. OneLink'
  BY DEF PushInv, OneLink, TypeInv, TypeOK
<1>3. Reading'
  BY DEF PushInv, Reading, TypeInv, TypeOK
<1>4. AllFromTheStore'
  BY <1>1, BlankIsOlder DEF PushInv, AllFromTheStore, FromTheStore
<1>5. PushesInOrder'
  <2> SUFFICES ASSUME sock # None, ~raced
               PROVE  InOrder(sock)'
    BY DEF PushesInOrder
  <2>1. InOrder(sock) /\ sock \in Conns
    BY DEF PushInv, PushesInOrder, TypeInv, TypeOK
  <2>2. \A old : UpTo(old, got[sock]) => UpTo(old, got'[sock])
    BY <1>1, <2>1, BlankIsOlder
  <2> QED
    BY <2>1, <2>2 DEF InOrder, UpTo, NotOlder
<1> QED
  BY <1>2, <1>3, <1>4, <1>5 DEF PushInv

LEMMA ServerKeepsOrder ==
  ASSUME TypeInv, PushInv, NEW c \in Conns, Dispatcher(c) \/ Pusher(c)
  PROVE  PushInv'
<1>1. CASE Dispatcher(c)
  <2>1. UNCHANGED <<db, sock, raced, shown, poll, asked, link, push, got, wire>>
    BY <1>1 DEF Dispatcher, ReadRequest, ReadFails, ServeLocks, ServeWrites
  <2> QED
    BY <2>1, QuietStep DEF PushInv, OneLink, Reading
<1>2. CASE PushStops(c)
  BY <1>2, QuietStep DEF PushStops, PushInv, OneLink, Reading, TypeInv, TypeOK
<1>3. CASE PushTick(c)
  BY <1>3, QuietStep DEF PushTick, PushInv, OneLink, Reading, TypeInv, TypeOK
<1>4. CASE PushLocks(c)
  BY <1>4, QuietStep DEF PushLocks, PushInv, OneLink, Reading, TypeInv, TypeOK
<1>5. CASE PushSkips(c) \/ PushFails(c)
  BY <1>5, ForgetKeepsOrder DEF PushSkips, PushFails, Fields
<1> QED
  BY <1>1, <1>2, <1>3, <1>4, <1>5, PushReadsKeepsOrder, PushWritesKeepsOrder DEF Pusher

LEMMA PushStep == TypeInv /\ PushInv /\ [Next]_vars => PushInv'
<1> SUFFICES ASSUME TypeInv, PushInv, [Next]_vars
             PROVE  PushInv'
  OBVIOUS
<1>1. CASE Change
  <2>1. /\ db' = db + 1 /\ db \in Nat
        /\ UNCHANGED <<sock, raced, shown, poll, asked, link, push, got, wire>>
    BY <1>1, Bounds DEF Change, TypeInv, TypeOK, Versions
  <2>2. OneLink' /\ Reading'
    BY <2>1 DEF PushInv, OneLink, Reading
  <2>3. ASSUME NEW picture \in Picture, FromTheStore(picture)
        PROVE  \A f \in Fields : picture[f] = None \/ picture[f] <= db'
    BY <2>1, <2>3, AnswerType DEF FromTheStore
  <2>4. AllFromTheStore'
    <3>1. /\ shown \in Picture /\ \A p \in Polls : poll[p] \in Picture
          /\ \A c \in Conns : got[c] \in Picture /\ \A i \in 1..Len(wire[c]) : wire[c][i] \in Picture
      BY DEF TypeInv, TypeOK
    <3> QED
      BY <2>1, <2>3, <3>1 DEF PushInv, AllFromTheStore, FromTheStore
  <2>5. PushesInOrder'
    BY <2>1 DEF PushInv, PushesInOrder, InOrder, UpTo, NotOlder
  <2> QED
    BY <2>2, <2>4, <2>5 DEF PushInv
<1>2. CASE PageGoesOn \/ ConnectFails \/ Leave
  BY <1>2, PageKeepsOrder
<1>3. CASE \E p \in Polls : Poll(p)
  BY <1>3, PollKeepsOrder
<1>4. ASSUME NEW c \in Conns, Break(c)
      PROVE  PushInv'
  BY <1>4, QuietStep DEF Break, PushInv, OneLink, Reading, TypeInv, TypeOK
<1>5. ASSUME NEW c \in Conns, Dispatcher(c) \/ Pusher(c)
      PROVE  PushInv'
  BY <1>5, ServerKeepsOrder
<1>6. CASE UNCHANGED vars
  BY <1>6, QuietStep DEF PushInv, OneLink, Reading
<1> QED
  BY <1>1, <1>2, <1>3, <1>4, <1>5, <1>6 DEF Next

LEMMA StepIsForward ==
  ASSUME TypeInv, PushInv, [Next]_vars, page = "open", page' = "open", ~raced
  PROVE  NotOlder(shown, shown')
<1>1. sock \in Conns /\ asked = {} /\ InOrder(sock)
  BY DEF TypeInv, TypeOK, PushInv, PushesInOrder, InOrder
<1>2. CASE Receive
  <2>1. /\ wire[sock] \in Seq(Picture) /\ wire[sock] # <<>>
        /\ shown' = Head(wire[sock])
    BY <1>1, <1>2 DEF Receive, TypeInv, TypeOK
  <2>2. 1 \in 1..Len(wire[sock]) /\ shown' = wire[sock][1]
    BY <2>1
  <2> QED
    BY <1>1, <2>2 DEF InOrder
<1>3. CASE shown' = shown
  <2>1. NotOlder(shown, shown)
    BY SameIsNotOlder DEF TypeInv, TypeOK
  <2> QED
    BY <1>3, <2>1
<1>4. Receive \/ shown' = shown
  <2>1. CASE Change \/ UNCHANGED vars
    BY <2>1 DEF Change
  <2>2. CASE PageGoesOn \/ ConnectFails \/ Leave
    BY <2>2 DEF PageGoesOn, Opened, OnClose, Connect, Accept, ConnectFails, Leave, Closed
  <2>3. CASE \E p \in Polls : Poll(p)
    BY <1>1, <2>3 DEF Poll, StartPoll, PollReads, PollAnswered, PollFails
  <2>4. CASE \E c \in Conns : Break(c) \/ Dispatcher(c) \/ Pusher(c)
    BY <2>4 DEF Break, Dispatcher, ReadRequest, ReadFails, ServeLocks, ServeWrites,
                Pusher, PushStops, PushTick, PushReads, PushSkips, PushLocks, PushWrites, PushFails
  <2> QED
    BY <2>1, <2>2, <2>3, <2>4 DEF Next
<1> QED
  BY <1>2, <1>3, <1>4

\* On a connection that was opened with no poll under way the page never goes back
\* to an older picture, however many connections there were before, whoever still
\* serves them, and however much the buffers hold.
THEOREM NoStepBackCorrect == Spec => NoStepBack
<1>1. TypeInv /\ PushInv /\ [Next]_vars
        => [page = "open" /\ page' = "open" /\ ~raced => NotOlder(shown, shown')]_vars
  BY StepIsForward
<1> QED
  BY <1>1, TypeInit, TypeStep, PushInit, PushStep, PTL DEF Spec, NoStepBack
===============================================================================
