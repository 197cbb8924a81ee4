------------------------------- MODULE Realtime -------------------------------
(***************************************************************************)
(* The real-time channel: a page of the dashboard, its WebSocket to the    *)
(* server and the polls it falls back to.  On the server a connection has  *)
(* two goroutines, the dispatcher that reads and answers requests and the  *)
(* pusher that sends pictures of the store; they share the connection's    *)
(* writer and its lock.  The page shows what came last, from either way.   *)
(*                                                                         *)
(* A picture is two answers of the store, the statuses and the nodes, read *)
(* one after the other; an answer is the number of the store's changes it  *)
(* was read after.  The page connects again when its connection ends, at   *)
(* most RetryLimit times in a row.  Timers fire at any time, but fire.     *)
(***************************************************************************)
EXTENDS Integers, Sequences

CONSTANTS
  Conns,       \* connections, reused when both goroutines have ended
  Polls,       \* polls the page may have under way
  None,        \* no connection, no answer yet
  RetryLimit,  \* 10
  WireCap,     \* pictures that fit into the buffers of a connection
  MaxVersion,  \* bound: changes of the store
  MaxFaults    \* bound: broken connections, failed requests and statements

ASSUME RealtimeAssumption ==
  /\ None \notin Conns \cup Nat
  /\ {RetryLimit, MaxVersion, MaxFaults} \subseteq Nat /\ WireCap \in Nat \ {0}

Versions == 0..MaxVersion

Answers == Versions \cup {None}

Fields == {"statuses", "nodes"}

Picture == [Fields -> Answers]

Blank == [f \in Fields |-> None]

VARIABLES
  db,      \* the store's version
  page,    \* "opening", "open", "waiting" for the next try, "alone" or "left"
  sock,    \* the page's connection, or None
  retry,   \* tries in a row
  shown,   \* the picture on the page
  poll,    \* poll[p]: what poll p has been answered so far
  asked,   \* the polls under way
  link,    \* link[c]: "none", "up" or "down"
  serve,   \* serve[c]: the dispatcher, "off", "read", "reply" or "write"
  push,    \* push[c]: the pusher, "off", "wait", "statuses", "nodes", "reply" or "write"
  got,     \* got[c]: what the pusher has read
  wire,    \* wire[c]: pictures on their way to the page
  faults,
  raced    \* history: a poll was under way while the connection was opened

vars == <<db, page, sock, retry, shown, poll, asked, link, serve, push, got, wire, faults, raced>>

pageVars == <<page, sock, retry, raced>>
pollVars == <<poll, asked>>
connVars == <<link, serve, push, got, wire>>

\* The types; and no two goroutines ever write to one connection at a time.
TypeOK ==
  /\ db \in Versions
  /\ page \in {"opening", "open", "waiting", "alone", "left"}
  /\ sock \in Conns \cup {None}
  /\ page \in {"opening", "open"} <=> sock # None
  /\ retry \in 0..(RetryLimit + 1)
  /\ shown \in Picture
  /\ poll \in [Polls -> Picture]
  /\ asked \subseteq Polls
  /\ link \in [Conns -> {"none", "up", "down"}]
  /\ serve \in [Conns -> {"off", "read", "reply", "write"}]
  /\ push \in [Conns -> {"off", "wait", "statuses", "nodes", "reply", "write"}]
  /\ \A c \in Conns : ~(serve[c] = "write" /\ push[c] = "write")
  /\ got \in [Conns -> Picture]
  /\ wire \in [Conns -> Seq(Picture)] /\ \A c \in Conns : Len(wire[c]) <= WireCap
  /\ faults \in 0..MaxFaults
  /\ raced \in BOOLEAN

\* connectPush and the first refresh.
Init ==
  /\ db = 0
  /\ page = "waiting" /\ sock = None /\ retry = 0 /\ raced = FALSE
  /\ shown = Blank
  /\ poll = [p \in Polls |-> Blank]
  /\ \E p \in Polls : asked = {p}
  /\ link = [c \in Conns |-> "none"]
  /\ serve = [c \in Conns |-> "off"]
  /\ push = [c \in Conns |-> "off"]
  /\ got = [c \in Conns |-> Blank]
  /\ wire = [c \in Conns |-> <<>>]
  /\ faults = 0

Fault == faults < MaxFaults /\ faults' = faults + 1

\* A report, the scheduler or the admin changes the store.
Change ==
  /\ db < MaxVersion
  /\ db' = db + 1
  /\ UNCHANGED <<pageVars, shown, pollVars, connVars, faults>>

(***************************************************************************)
(* The page's connection.                                                  *)
(***************************************************************************)

Free(c) == serve[c] = "off" /\ push[c] = "off"

Connect(c) ==
  /\ page = "waiting"
  /\ Free(c)
  /\ page' = "opening"
  /\ sock' = c
  /\ raced' = (asked # {})
  /\ link' = [link EXCEPT ![c] = "none"]
  /\ UNCHANGED <<db, retry, shown, pollVars, serve, push, got, wire, faults>>

Opened ==
  /\ page = "opening"
  /\ link[sock] = "up"
  /\ page' = "open"
  /\ retry' = 0
  /\ UNCHANGED <<db, sock, raced, shown, pollVars, connVars, faults>>

\* Pictures are taken over as they come.
Receive ==
  /\ page = "open"
  /\ wire[sock] # <<>>
  /\ shown' = Head(wire[sock])
  /\ wire' = [wire EXCEPT ![sock] = Tail(@)]
  /\ UNCHANGED <<db, pageVars, pollVars, link, serve, push, got, faults>>

MayRetry(n) == n < RetryLimit

Kept == wire   \* mutant: the handlers of the old socket stay in place

Drained == [wire EXCEPT ![sock] = <<>>]

\* What was on its way is lost.
Closed ==
  /\ sock' = None
  /\ retry' = retry + 1
  /\ page' = IF MayRetry(retry) THEN "waiting" ELSE "alone"
  /\ wire' = Drained
  /\ UNCHANGED <<db, raced, shown, pollVars, serve, push, got>>

\* The page learns that its connection has ended.
OnClose ==
  /\ page \in {"opening", "open"}
  /\ link[sock] = "down"
  /\ Closed
  /\ UNCHANGED <<link, faults>>

ConnectFails ==
  /\ page = "opening"
  /\ link[sock] = "none"
  /\ Fault
  /\ Closed
  /\ UNCHANGED link

Break(c) ==
  /\ link[c] = "up"
  /\ Fault
  /\ link' = [link EXCEPT ![c] = "down"]
  /\ UNCHANGED <<db, pageVars, shown, pollVars, serve, push, got, wire>>

\* The page is gone, with what it knew.
Leave ==
  /\ page # "left"
  /\ page' = "left"
  /\ sock' = None /\ retry' = 0 /\ raced' = FALSE /\ shown' = Blank
  /\ asked' = {} /\ poll' = [p \in Polls |-> Blank]
  /\ link' = [c \in Conns |-> IF c = sock /\ link[c] = "up" THEN "down" ELSE link[c]]
  /\ wire' = [c \in Conns |-> <<>>]
  /\ UNCHANGED <<db, serve, push, got, faults>>

(***************************************************************************)
(* The page's polls.                                                       *)
(***************************************************************************)

PollingUntilAlone == page \in {"opening", "waiting"}   \* mutant: the last OnClose stops the timer

Polling == page \in {"opening", "waiting", "alone"}

StartPoll(p) ==
  /\ Polling
  /\ p \notin asked
  /\ asked' = asked \cup {p}
  /\ poll' = [poll EXCEPT ![p] = Blank]
  /\ raced' = (raced \/ page = "opening")
  /\ UNCHANGED <<db, page, sock, retry, shown, connVars, faults>>

\* The server runs the one or the other of the two requests.
PollReads(p) ==
  /\ p \in asked
  /\ \E f \in Fields :
       poll[p][f] = None /\ poll' = [poll EXCEPT ![p][f] = db]
  /\ UNCHANGED <<db, pageVars, shown, asked, connVars, faults>>

\* Promise.all: both answers have come, in whatever time.
PollAnswered(p) ==
  /\ p \in asked
  /\ \A f \in Fields : poll[p][f] # None
  /\ asked' = asked \ {p}
  /\ shown' = poll[p]
  /\ poll' = [poll EXCEPT ![p] = Blank]
  /\ UNCHANGED <<db, pageVars, connVars, faults>>

PollFails(p) ==
  /\ p \in asked
  /\ Fault
  /\ asked' = asked \ {p}
  /\ poll' = [poll EXCEPT ![p] = Blank]
  /\ UNCHANGED <<db, pageVars, shown, connVars>>

(***************************************************************************)
(* The server.                                                             *)
(***************************************************************************)

ServerStep == UNCHANGED <<db, pageVars, shown, pollVars>>

\* Upgrade; the dispatcher starts the pusher.
Accept(c) ==
  /\ page = "opening" /\ sock = c
  /\ link[c] = "none"
  /\ link' = [link EXCEPT ![c] = "up"]
  /\ serve' = [serve EXCEPT ![c] = "read"]
  /\ push' = [push EXCEPT ![c] = "wait"]
  /\ ServerStep /\ UNCHANGED <<got, wire, faults>>

\* A client that asks on its connection, as the page does not.
ReadRequest(c) ==
  /\ serve[c] = "read"
  /\ link[c] = "up"
  /\ serve' = [serve EXCEPT ![c] = "reply"]
  /\ ServerStep /\ UNCHANGED <<link, push, got, wire, faults>>

\* The dispatcher returns: the pusher is told to stop and the connection closed.
ReadFails(c) ==
  /\ serve[c] = "read"
  /\ link[c] = "down"
  /\ serve' = [serve EXCEPT ![c] = "off"]
  /\ ServerStep /\ UNCHANGED <<link, push, got, wire, faults>>

PushStops(c) ==
  /\ push[c] = "wait"
  /\ serve[c] = "off"
  /\ push' = [push EXCEPT ![c] = "off"]
  /\ ServerStep /\ UNCHANGED <<link, serve, got, wire, faults>>

PushTick(c) ==
  /\ push[c] = "wait"
  /\ push' = [push EXCEPT ![c] = "statuses"]
  /\ ServerStep /\ UNCHANGED <<link, serve, got, wire, faults>>

PushReads(c) ==
  /\ push[c] \in Fields
  /\ got' = [got EXCEPT ![c][push[c]] = db]
  /\ push' = [push EXCEPT ![c] = IF @ = "statuses" THEN "nodes" ELSE "reply"]
  /\ ServerStep /\ UNCHANGED <<link, serve, wire, faults>>

PushSkips(c) ==
  /\ push[c] \in Fields
  /\ Fault
  /\ push' = [push EXCEPT ![c] = "wait"]
  /\ got' = [got EXCEPT ![c] = Blank]
  /\ ServerStep /\ UNCHANGED <<link, serve, wire>>

NobodyWrites(c) == FALSE   \* mutant: a writer without a lock

\* The lock of the connection's writer.
Writing(c) == "write" \in {serve[c], push[c]}

ServeLocks(c) ==
  /\ serve[c] = "reply" /\ ~Writing(c)
  /\ serve' = [serve EXCEPT ![c] = "write"]
  /\ ServerStep /\ UNCHANGED <<link, push, got, wire, faults>>

PushLocks(c) ==
  /\ push[c] = "reply" /\ ~Writing(c)
  /\ push' = [push EXCEPT ![c] = "write"]
  /\ ServerStep /\ UNCHANGED <<link, serve, got, wire, faults>>

\* A write waits while the buffers are full, and fails once the connection is down.
Writable(c) == link[c] = "up" /\ Len(wire[c]) < WireCap

\* The page does not look at replies.
ServeWrites(c) ==
  /\ serve[c] = "write"
  /\ \/ Writable(c) /\ serve' = [serve EXCEPT ![c] = "read"]
     \/ link[c] = "down" /\ serve' = [serve EXCEPT ![c] = "off"]
  /\ ServerStep /\ UNCHANGED <<link, push, got, wire, faults>>

PushWrites(c) ==
  /\ push[c] = "write"
  /\ Writable(c)
  /\ push' = [push EXCEPT ![c] = "wait"]
  /\ wire' = [wire EXCEPT ![c] = Append(@, got[c])]
  /\ got' = [got EXCEPT ![c] = Blank]
  /\ ServerStep /\ UNCHANGED <<link, serve, faults>>

FailLocked(c) ==   \* mutant: a failed write does not give the lock back
  /\ push[c] = "write"
  /\ link[c] = "down"
  /\ serve[c] = "off"
  /\ push' = [push EXCEPT ![c] = "off"]
  /\ got' = [got EXCEPT ![c] = Blank]
  /\ ServerStep /\ UNCHANGED <<link, serve, wire, faults>>

PushFails(c) ==
  /\ push[c] = "write"
  /\ link[c] = "down"
  /\ push' = [push EXCEPT ![c] = "off"]
  /\ got' = [got EXCEPT ![c] = Blank]
  /\ ServerStep /\ UNCHANGED <<link, serve, wire, faults>>

Dispatcher(c) == ReadRequest(c) \/ ReadFails(c) \/ ServeLocks(c) \/ ServeWrites(c)

Pusher(c) ==
  \/ PushStops(c) \/ PushTick(c) \/ PushReads(c) \/ PushSkips(c)
  \/ PushLocks(c) \/ PushWrites(c) \/ PushFails(c)

PageGoesOn == Opened \/ Receive \/ OnClose \/ \E c \in Conns : Connect(c) \/ Accept(c)

Poll(p) == StartPoll(p) \/ PollReads(p) \/ PollAnswered(p) \/ PollFails(p)

Next ==
  \/ Change \/ PageGoesOn \/ ConnectFails \/ Leave
  \/ \E p \in Polls : Poll(p)
  \/ \E c \in Conns : Break(c) \/ Dispatcher(c) \/ Pusher(c)

Spec == Init /\ [][Next]_vars

\* The timers of the page and of the pusher fire, both ends learn that a
\* connection is down (the kernel's keep-alive tells the server), the requests
\* of a poll are answered, and a lock that is given back again and again is had
\* by whoever waits for it.  Nothing needs to change, to fail or to be asked.
Fairness ==
  /\ WF_vars(PageGoesOn)
  /\ \A p \in Polls : WF_vars(StartPoll(p)) /\ WF_vars(PollReads(p) \/ PollAnswered(p))
  /\ \A c \in Conns :
       /\ WF_vars(ReadFails(c) \/ ServeWrites(c)) /\ SF_vars(ServeLocks(c))
       /\ WF_vars(Pusher(c)) /\ SF_vars(PushLocks(c))

FairSpec == Spec /\ Fairness

(***************************************************************************)
(* Properties.                                                             *)
(***************************************************************************)

Current == shown = [f \in Fields |-> db]

\* When the store comes to rest, the page comes to show it and goes on showing
\* it, whatever connections broke, however many tries failed, whichever answers
\* overtook one another.
CatchesUp == <>[](page = "left" \/ Current)

\* When a connection is down, neither of its goroutines lasts: the one that
\* notices ends the other, and neither waits for the other's lock for ever.
GoroutinesEnd == \A c \in Conns : link[c] = "down" ~> Free(c)

NotOlder(old, new) ==
  \A f \in Fields : old[f] = None \/ (new[f] # None /\ old[f] <= new[f])

\* On a connection that was opened with no poll under way, the page never goes back
\* to an older picture, whatever earlier connections left behind.
NoStepBack == [][page = "open" /\ page' = "open" /\ ~raced => NotOlder(shown, shown')]_vars

(***************************************************************************)
(* A stronger property that the code does not have.                        *)
(***************************************************************************)

\* A poll that is answered late overwrites the picture that was pushed meanwhile.
NeverOlder == [][page' # "left" => NotOlder(shown, shown')]_vars
===============================================================================
