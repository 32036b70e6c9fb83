------------------------------ MODULE BirdQuery ------------------------------
(***************************************************************************)
(* Commands to BIRD over the pooled connections (bird/conn.go, and in      *)
(* bird/bird.go WithConnection, createConnection and the calls made with   *)
(* them), while BIRD goes down and comes back and the pool is closed.      *)
(* Which entry a call gets is BirdPool's subject; an entry without a       *)
(* connection stands for a pruned one, and for room to make another.       *)
(* A reply is a sequence of lines, of which the last bears a final code;   *)
(* a reader takes them one at a time and may be late.                      *)
(***************************************************************************)
EXTENDS Naturals, Sequences, SequencesExt

CONSTANTS
  Callers,    \* goroutines that call WithConnection
  Workers,    \* those of them that parse the answer of GetProtocolStatus
  Entries,    \* entries of the pool
  Protocols,  \* protocols they ask for
  Families,   \* address families
  Counts,     \* Counts[p]: routes of each channel p has; none when unknown
  Report,     \* Report[p]: what each line BIRD prints about p says
  None

\* What a line says; "text" is everything no caller looks for.
Says(is, family, n) == [is |-> is, family |-> family, n |-> n]
Text == Says("text", None, 0)

Saying == [is : {"text", "channel", "routes", "down"}, family : Families \cup {None}, n : Nat]

ASSUME QueryAssumption ==
  /\ Workers \subseteq Callers
  /\ Callers \cap Entries = {}
  /\ Protocols # {}
  /\ \A p \in Protocols : \E fs \in SUBSET Families : Counts[p] \in [fs -> Nat]
  /\ DOMAIN Report = Protocols
  /\ \A p \in Protocols : Report[p] \in Seq(Saying) /\ Report[p] # <<>>
  /\ None \notin Callers \cup Entries \cup Families

\* What BIRD reports is so: routes are those of the channel they are below.
ASSUME ReportAssumption ==
  \A p \in Protocols : \A h, i \in 3 .. Len(Report[p]) :
    LET f == Report[p][h].family IN
    /\ Report[p][h].is = "channel" /\ f # None /\ Report[p][i].is = "routes"
    /\ h < i /\ \A k \in (h + 1) .. (i - 1) : Report[p][k].is # "channel"
    => f \in DOMAIN Counts[p] /\ Report[p][i].n = Counts[p][f]

\* By whom and as which of its commands one is sent; connections are
\* greeted with a banner, and restricted, on nobody's behalf.
Command == [by : Callers, turn : 0 .. 1, about : Protocols]
Banner  == [by |-> None, turn |-> 0, about |-> None]
Confirm == [by |-> None, turn |-> 1, about |-> None]

Reply(q) ==
  LET r == IF q.by = None THEN <<Text>> ELSE Report[q.about] IN
  [i \in DOMAIN r |-> [of |-> q, says |-> r[i], last |-> i = Len(r)]]

VARIABLES
  up,       \* BIRD is running
  closing,  \* how far the pool is closed
  gone,     \* a panic ended the process
  sock,     \* connections, of the entries and those callers are setting up
  idle,     \* entries no caller has
  pc, held, \* where a caller is and which entry it has
  asked,    \* its command
  answer,   \* lines it has read of the answer
  retried,  \* the command has failed once
  shaken,   \* during the call BIRD was down or the pool was closed
  atLock    \* callers about to take the pool's lock before or after a call

callVars  == <<pc, held, asked, answer, retried, shaken, atLock>>
queryVars == <<up, closing, gone, sock, idle, callVars>>

NoSock == [open |-> FALSE, strict |-> FALSE, stream |-> <<>>]
Fresh  == [open |-> TRUE, strict |-> FALSE, stream |-> Reply(Banner)]

Place == {"idle", "dial", "greet", "restrict", "confirm", "swap", "ask", "read", "done", "failed"}

(* Close has the lock in the second stage, and may keep it.                *)
Stage == {"open", "locked", "swept"}

SettingUp == {"greet", "restrict", "confirm", "swap"}

QueryTypeOK ==
  /\ up \in BOOLEAN /\ closing \in Stage /\ gone \in BOOLEAN
  /\ DOMAIN sock = Entries \cup Callers
  /\ \A k \in DOMAIN sock : sock[k].open \in BOOLEAN /\ sock[k].strict \in BOOLEAN
  /\ idle \subseteq Entries
  /\ pc \in [Callers -> Place]
  /\ held \in [Callers -> Entries \cup {None}]
  /\ asked \in [Callers -> Command]
  /\ retried \in [Callers -> BOOLEAN] /\ shaken \in [Callers -> BOOLEAN]
  /\ atLock \subseteq Callers
  /\ \A c \in Callers : sock[c] # NoSock => pc[c] \in SettingUp

QueryInit ==
  /\ up = TRUE /\ closing = "open" /\ gone = FALSE
  /\ sock = [k \in Entries \cup Callers |-> NoSock]
  /\ idle = Entries
  /\ pc = [c \in Callers |-> "idle"]
  /\ held = [c \in Callers |-> None]
  /\ asked = [c \in Callers |-> [by |-> c, turn |-> 0, about |-> CHOOSE p \in Protocols : TRUE]]
  /\ answer = [c \in Callers |-> <<>>]
  /\ retried = [c \in Callers |-> FALSE]
  /\ shaken = [c \in Callers |-> FALSE]
  /\ atLock = {}

Go(c, place) == pc' = [pc EXCEPT ![c] = place]

-----------------------------------------------------------------------------
(* conn.go.  A command is accepted while the other end is there.           *)
Write(k, q) ==
  /\ sock[k].open
  /\ sock' = [sock EXCEPT ![k] = [open   |-> TRUE,
                                  strict |-> (@.strict \/ q = Confirm),
                                  stream |-> @.stream \o Reply(q)]]

Receives(k) == sock[k].stream # <<>>

\* Of what was to be sent when BIRD went down a part is still read, then
\* comes the end.
AtEnd(k) == ~ sock[k].open

Next1(k) == Head(sock[k].stream)

-----------------------------------------------------------------------------
(* A caller's commands are told apart as long as lines of one are left.    *)
Turn(c, e) ==
  IF \E i \in DOMAIN sock[e].stream :
       sock[e].stream[i].of.by = c /\ sock[e].stream[i].of.turn = 0
  THEN 1 ELSE 0

(* Seeded fault: the entry stays where others find it.                     *)
CallShared(c, e, p) ==
  /\ pc[c] = "idle" /\ closing # "locked"
  /\ e \in idle
  /\ held' = [held EXCEPT ![c] = e]
  /\ asked' = [asked EXCEPT ![c] = [by |-> c, turn |-> Turn(c, e), about |-> p]]
  /\ shaken' = [shaken EXCEPT ![c] = ~ up]
  /\ atLock' = atLock \ {c}
  /\ Go(c, IF sock[e] = NoSock THEN "dial" ELSE "ask")
  /\ UNCHANGED <<up, closing, gone, sock, idle, answer, retried>>

(* WithConnection has been given an entry.                                 *)
Call(c, e, p) ==
  /\ pc[c] = "idle" /\ closing # "locked"
  /\ e \in idle
  /\ idle' = idle \ {e}
  /\ held' = [held EXCEPT ![c] = e]
  /\ asked' = [asked EXCEPT ![c] = [by |-> c, turn |-> Turn(c, e), about |-> p]]
  /\ shaken' = [shaken EXCEPT ![c] = ~ up]
  /\ atLock' = atLock \ {c}
  /\ Go(c, IF sock[e] = NoSock THEN "dial" ELSE "ask")
  /\ UNCHANGED <<up, closing, gone, sock, answer, retried>>

(* GetConnection finds the lock taken by Close.                            *)
Blocked(c) ==
  /\ pc[c] = "idle" /\ closing = "locked"
  /\ atLock' = atLock \cup {c}
  /\ UNCHANGED <<up, closing, gone, sock, idle, pc, held, asked, answer, retried, shaken>>

(* With the lock free again it may find the pool full and nothing to use.  *)
Refused(c) ==
  /\ pc[c] = "idle" /\ c \in atLock /\ closing # "locked"
  /\ \A e \in idle : sock[e] = NoSock
  /\ atLock' = atLock \ {c}
  /\ UNCHANGED <<up, closing, gone, sock, idle, pc, held, asked, answer, retried, shaken>>

(* createConnection: attempts are repeated, with delays, while BIRD is not *)
(* there, up to a limit.                                                   *)
Dial(c) ==
  /\ pc[c] = "dial"
  /\ \/ up /\ sock' = [sock EXCEPT ![c] = Fresh] /\ Go(c, "greet")
     \/ ~ up /\ UNCHANGED sock /\ Go(c, "failed")
  /\ UNCHANGED <<up, closing, gone, idle, held, asked, answer, retried, shaken, atLock>>

(* Seeded fault: a connection is used without restricting it.              *)
GreetOnly(c) ==
  /\ pc[c] = "greet"
  /\ \/ Receives(c) /\ sock' = [sock EXCEPT ![c].stream = Tail(@)]
     \/ AtEnd(c) /\ sock' = [sock EXCEPT ![c].stream = <<>>]
  /\ Go(c, "swap")
  /\ UNCHANGED <<up, closing, gone, idle, held, asked, answer, retried, shaken, atLock>>

(* The banner is read and dropped, if it comes.                            *)
Greet(c) ==
  /\ pc[c] = "greet"
  /\ \/ Receives(c) /\ sock' = [sock EXCEPT ![c].stream = Tail(@)]
     \/ AtEnd(c) /\ sock' = [sock EXCEPT ![c].stream = <<>>]
  /\ Go(c, "restrict")
  /\ UNCHANGED <<up, closing, gone, idle, held, asked, answer, retried, shaken, atLock>>

RestrictConn(c) ==
  /\ pc[c] = "restrict"
  /\ \/ Write(c, Confirm) /\ Go(c, "confirm")
     \/ ~ sock[c].open /\ sock' = [sock EXCEPT ![c] = NoSock] /\ Go(c, "failed")
  /\ UNCHANGED <<up, closing, gone, idle, held, asked, answer, retried, shaken, atLock>>

(* Seeded fault: a connection that is refused is not closed.               *)
Leaks(c) ==
  /\ pc[c] = "confirm"
  /\ \/ /\ Receives(c) /\ Next1(c).of = Confirm
        /\ sock' = [sock EXCEPT ![c].stream = Tail(@)]
        /\ Go(c, "swap")
     \/ /\ AtEnd(c) \/ (Receives(c) /\ Next1(c).of # Confirm)
        /\ Go(c, "failed")
        /\ UNCHANGED sock
  /\ UNCHANGED <<up, closing, gone, idle, held, asked, answer, retried, shaken, atLock>>

(* Without "Access restricted" in the reply the connection is closed.      *)
Confirmed(c) ==
  /\ pc[c] = "confirm"
  /\ \/ /\ Receives(c) /\ Next1(c).of = Confirm
        /\ sock' = [sock EXCEPT ![c].stream = Tail(@)]
        /\ Go(c, "swap")
     \/ /\ AtEnd(c) \/ (Receives(c) /\ Next1(c).of # Confirm)
        /\ sock' = [sock EXCEPT ![c] = NoSock]
        /\ Go(c, "failed")
  /\ UNCHANGED <<up, closing, gone, idle, held, asked, answer, retried, shaken, atLock>>

(* The new connection takes the place of the one the entry had, under the  *)
(* lock.                                                                   *)
Swap(c) ==
  /\ pc[c] = "swap" /\ closing # "locked"
  /\ sock' = [sock EXCEPT ![held[c]] = sock[c], ![c] = NoSock]
  /\ Go(c, "ask")
  /\ UNCHANGED <<up, closing, gone, idle, held, asked, answer, retried, shaken, atLock>>

(* Seeded fault: a command that fails is not repeated.                     *)
AskOnce(c) ==
  /\ pc[c] = "ask"
  /\ \/ Write(held[c], asked[c]) /\ Go(c, "read")
     \/ ~ sock[held[c]].open /\ Go(c, "failed") /\ UNCHANGED sock
  /\ UNCHANGED <<up, closing, gone, idle, held, asked, answer, retried, shaken, atLock>>

(* The command; when it cannot be written it is repeated once, on a new    *)
(* connection.                                                             *)
Ask(c) ==
  /\ pc[c] = "ask"
  /\ \/ /\ Write(held[c], asked[c])
        /\ Go(c, "read")
        /\ UNCHANGED retried
     \/ /\ ~ sock[held[c]].open
        /\ Go(c, IF retried[c] THEN "failed" ELSE "dial")
        /\ retried' = [retried EXCEPT ![c] = TRUE]
        /\ UNCHANGED sock
  /\ UNCHANGED <<up, closing, gone, idle, held, asked, answer, shaken, atLock>>

(* Seeded fault: the first line that bears a code ends the reply.          *)
ReadShort(c) ==
  LET e == held[c] IN
  /\ pc[c] = "read"
  /\ Receives(e)
  /\ answer' = [answer EXCEPT ![c] = Append(@, Next1(e))]
  /\ sock' = [sock EXCEPT ![e].stream = Tail(@)]
  /\ Go(c, IF Next1(e).last \/ Len(answer[c]) = 1 THEN "done" ELSE "read")
  /\ UNCHANGED <<up, closing, gone, idle, held, asked, retried, shaken, atLock>>

ReadLine(c) ==
  LET e == held[c] IN
  /\ pc[c] = "read"
  /\ Receives(e)
  /\ answer' = [answer EXCEPT ![c] = Append(@, Next1(e))]
  /\ sock' = [sock EXCEPT ![e].stream = Tail(@)]
  /\ Go(c, IF Next1(e).last THEN "done" ELSE "read")
  /\ UNCHANGED <<up, closing, gone, idle, held, asked, retried, shaken, atLock>>

(* Seeded fault: the end of the connection is taken for a pause.           *)
ReadWaits(c) ==
  /\ pc[c] = "read"
  /\ AtEnd(held[c]) /\ up
  /\ Go(c, "done")
  /\ UNCHANGED <<up, closing, gone, sock, idle, held, asked, answer, retried, shaken, atLock>>

(* The end of the connection ends the answer; no error is returned.        *)
ReadEnds(c) ==
  /\ pc[c] = "read"
  /\ AtEnd(held[c])
  /\ sock' = [sock EXCEPT ![held[c]].stream = <<>>]
  /\ Go(c, "done")
  /\ UNCHANGED <<up, closing, gone, idle, held, asked, answer, retried, shaken, atLock>>

(* The entry is returned under the lock by a caller that saw the pool      *)
(* open, and without its connection by one that did not; of an answer      *)
(* parseProtocolOutput skips two lines, one more than no answer has, and   *)
(* the panic of a worker ends the process.                                 *)
Return(c) ==
  /\ pc[c] \in {"done", "failed"}
  /\ c \in atLock => closing # "locked"
  /\ idle' = idle \cup {held[c]}
  /\ held' = [held EXCEPT ![c] = None]
  /\ sock' = IF closing = "open" \/ c \in atLock THEN sock ELSE [sock EXCEPT ![held[c]] = NoSock]
  /\ atLock' = atLock \ {c}
  /\ gone' = (c \in Workers /\ pc[c] = "done" /\ answer[c] = <<>>)
  /\ Go(c, "idle")
  /\ answer' = [answer EXCEPT ![c] = <<>>]
  /\ retried' = [retried EXCEPT ![c] = FALSE]
  /\ shaken' = [shaken EXCEPT ![c] = FALSE]
  /\ UNCHANGED <<up, closing, asked>>

CallStep(c) ==
  /\ ~ gone
  /\ \/ Dial(c) \/ Greet(c) \/ RestrictConn(c) \/ Confirmed(c) \/ Swap(c)
     \/ Ask(c) \/ ReadLine(c) \/ ReadEnds(c) \/ Return(c)

-----------------------------------------------------------------------------
(* Around the calls.                                                       *)
Disturbed == [c \in Callers |-> pc[c] # "idle"]

GoDown ==
  /\ up
  /\ up' = FALSE
  /\ sock' = [k \in DOMAIN sock |-> [sock[k] EXCEPT !.open = FALSE]]
  /\ shaken' = Disturbed
  /\ UNCHANGED <<closing, gone, idle, pc, held, asked, answer, retried, atLock>>

ComeUp ==
  /\ ~ up
  /\ up' = TRUE
  /\ UNCHANGED <<closing, gone, sock, idle, callVars>>

Prune(e) ==
  /\ e \in idle /\ closing # "locked"
  /\ sock' = [sock EXCEPT ![e] = NoSock]
  /\ UNCHANGED <<up, closing, gone, idle, callVars>>

(* Close announces the shutdown and takes the lock.  Some of those that    *)
(* return their entries have looked before, and wait for the lock.         *)
LockPool(late) ==
  /\ closing = "open"
  /\ late \subseteq {c \in Callers : pc[c] \in {"done", "failed"}}
  /\ closing' = "locked"
  /\ atLock' = late
  /\ UNCHANGED <<up, gone, sock, idle, pc, held, asked, answer, retried, shaken>>

(* It closes the connections of all entries, also those in use, and lets   *)
(* the lock go; but when it finds none in the channel it closes that, and  *)
(* the loop that empties the channel does not end.                         *)
Sweep ==
  /\ closing = "locked"
  /\ idle # {}
  /\ closing' = "swept"
  /\ sock' = [k \in DOMAIN sock |-> IF k \in Entries THEN NoSock ELSE sock[k]]
  /\ shaken' = Disturbed
  /\ UNCHANGED <<up, gone, idle, pc, held, asked, answer, retried, atLock>>

QueryNext ==
  \/ \E c \in Callers : CallStep(c)
  \/ /\ ~ gone
     /\ \/ \E c \in Callers, e \in Entries, p \in Protocols : Call(c, e, p)
        \/ \E c \in Callers : Blocked(c) \/ Refused(c)
        \/ GoDown \/ ComeUp \/ \E e \in Entries : Prune(e)
        \/ Sweep \/ \E late \in SUBSET Callers : LockPool(late)

QuerySpec == QueryInit /\ [][QueryNext]_queryVars

(* A caller that waited for the lock is served, or turned away in time.    *)
Served(c) ==
  /\ c \in atLock /\ ~ gone
  /\ Refused(c) \/ \E e \in Entries, p \in Protocols : Call(c, e, p)

(* A caller goes on; BIRD, while it runs, answers.  Of BIRD coming back    *)
(* nothing is assumed, nor that Close ends.                                *)
FairQuerySpec == QuerySpec /\ \A c \in Callers : WF_queryVars(CallStep(c) \/ Served(c))

-----------------------------------------------------------------------------
(* parseProtocolOutput: below the first two lines, counts belong to the    *)
(* channel whose heading came last, and are 0 when that is down.           *)
(* Seeded fault: the heading of a second channel is overlooked.            *)
SetForFirst(seen, line) ==
  CASE line.is = "channel" -> [seen EXCEPT !.family = IF @ = None THEN line.family ELSE @]
    [] line.is \in {"routes", "down"} /\ seen.family # None ->
         [seen EXCEPT !.counts[seen.family] = IF line.is = "down" THEN 0 ELSE line.n]
    [] OTHER -> seen

SetCount(seen, line) ==
  CASE line.is = "channel" -> [seen EXCEPT !.family = line.family]
    [] line.is \in {"routes", "down"} /\ seen.family # None ->
         [seen EXCEPT !.counts[seen.family] = IF line.is = "down" THEN 0 ELSE line.n]
    [] OTHER -> seen

Parsed(lines) ==
  LET seen[n \in 0 .. Len(lines)] ==
        IF n <= 2 THEN [family |-> None, counts |-> [f \in Families |-> 0]]
        ELSE SetCount(seen[n - 1], lines[n].says)
  IN  seen[Len(lines)].counts

-----------------------------------------------------------------------------
(* Properties.                                                             *)

(* What a caller has read is the beginning of BIRD's reply to its own      *)
(* command: nothing an earlier call left unread on a pooled connection, no *)
(* banner and no confirmation gets into an answer, whatever goes down and  *)
(* is redialled in between (conn.go:32-67, bird.go:383-424).               *)
OwnAnswer ==
  \A c \in Callers : pc[c] # "idle" => IsPrefix(answer[c], Reply(asked[c]))

(* A call during which BIRD runs and the pool stays open returns the whole *)
(* reply without an error, although its pooled connection may have died    *)
(* or been dropped since it was last used (bird.go:390-423).               *)
AnswersWhole ==
  \A c \in Callers : pc[c] \in {"done", "failed"} /\ ~ shaken[c] =>
    pc[c] = "done" /\ answer[c] = Reply(asked[c])

(* The lease as the calls see it: an open connection is a restricted one.  *)
Contract == INSTANCE Lease WITH
              Users <- Callers, Items <- Entries, lease <- held,
              state <- [e \in Entries |-> IF sock[e].strict THEN "open" ELSE "none"],
              closing <- closing # "open"

(* A caller talks to, and replaces, the connection of no entry but the one *)
(* it has been lent, with a connection that is ready for use; so calls ask *)
(* of the pool no more than it promises (bird.go:383-424).                 *)
KeepsLease == Contract!LeaseSpec

(* BIRD gets the commands of callers only on connections it has restricted *)
(* before (bird.go:185-195).                                               *)
OnlyRestricted ==
  \A k \in DOMAIN sock : \A i \in DOMAIN sock[k].stream :
    sock[k].stream[i].of.by # None => sock[k].strict

(* A route count taken from an answer, also from one that was cut off, is  *)
(* that of the protocol and family asked for, or 0 (bird.go:590-628).      *)
CountsAreTrue ==
  \A c \in Callers : pc[c] = "done" =>
    \A f \in Families :
      Parsed(answer[c])[f] \in
        {0} \cup {Counts[asked[c].about][g] : g \in DOMAIN Counts[asked[c].about] \cap {f}}

InCall(c) == pc[c] # "idle" \/ c \in atLock

KeptOut(c) == closing = "locked" /\ (c \in atLock \/ pc[c] = "swap")

(* However often BIRD goes down, a call returns, or the process ends.  The *)
(* one exception: Close, once it has found the channel empty, keeps the    *)
(* lock for ever, and then those that need the lock do not return; but     *)
(* callers that do not need it, to connect, ask, read and return what they *)
(* have, end all the same (bird.go:202-294, 307-329, 383-424).             *)
CallsEnd == \A c \in Callers : InCall(c) ~> ~ InCall(c) \/ gone \/ []KeptOut(c)
=============================================================================
