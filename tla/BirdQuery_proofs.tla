-------------------------- MODULE BirdQuery_proofs --------------------------
(***************************************************************************)
(* Proofs that the answers read from pooled connections belong to their    *)
(* commands and that only restricted connections carry commands, for any   *)
(* number of callers and connections and whatever BIRD replies; then, with *)
(* an invariant of undisturbed calls, that those get the whole reply; that *)
(* what is counted in an answer is what BIRD reported; and that calls ask  *)
(* of the pool what Lease allows.                                          *)
(***************************************************************************)
EXTENDS BirdQuery, LoopTheorems, TLAPS

Sent == Command \cup {Banner, Confirm}
Line == [of : Sent, says : Saying, last : BOOLEAN]
Sock == [open : BOOLEAN, strict : BOOLEAN, stream : Seq(Line)]
Ends == Entries \cup Callers

Types ==
  /\ up \in BOOLEAN /\ closing \in Stage /\ gone \in BOOLEAN
  /\ sock \in [Ends -> Sock]
  /\ idle \subseteq Entries
  /\ pc \in [Callers -> Place]
  /\ held \in [Callers -> Entries \cup {None}]
  /\ asked \in [Callers -> Command]
  /\ answer \in [Callers -> Seq(Line)]
  /\ retried \in [Callers -> BOOLEAN] /\ shaken \in [Callers -> BOOLEAN]

(* An entry's connection is restricted, and nothing is left on it while no *)
(* caller has it.                                                          *)
EntryOK(e) ==
  /\ sock[e].open => sock[e].strict
  /\ sock[e].stream # <<>> => sock[e].strict
  /\ e \in idle => sock[e].stream = <<>>

(* A caller has its entry to itself, with nothing to be read on it but the *)
(* reply to its command.                                                   *)
Holds(c) ==
  pc[c] # "idle" =>
    /\ held[c] \in Entries /\ held[c] \notin idle
    /\ pc[c] # "read" => sock[held[c]].stream = <<>>

Apart ==
  \A c, d \in Callers : pc[c] # "idle" /\ pc[d] # "idle" /\ held[c] = held[d] => c = d

(* A connection that is being set up carries banner and confirmation only, *)
(* and those have been read when it is done.                               *)
SetUpOK(c) ==
  /\ pc[c] \notin SettingUp => sock[c] = NoSock
  /\ pc[c] \in {"restrict", "swap"} => sock[c].stream = <<>>
  /\ Len(sock[c].stream) <= 1
  /\ pc[c] \in {"confirm", "swap"} => sock[c].strict
  /\ \A i \in 1 .. Len(sock[c].stream) : sock[c].stream[i].of.by = None

(* What has been read and what is still to come make up a reply, or a      *)
(* beginning of it.                                                        *)
Split(read, rest, reply) ==
  /\ Len(read) + Len(rest) <= Len(reply)
  /\ \A i \in 1 .. Len(read) : read[i] = reply[i]
  /\ \A i \in 1 .. Len(rest) : rest[i] = reply[Len(read) + i]

ReadOK(c) ==
  /\ pc[c] = "read" => Split(answer[c], sock[held[c]].stream, Reply(asked[c]))
  /\ pc[c] = "done" => Split(answer[c], <<>>, Reply(asked[c]))
  /\ pc[c] \notin {"read", "done"} => answer[c] = <<>>

CallerOK(c) == Holds(c) /\ SetUpOK(c) /\ ReadOK(c)

Orderly ==
  /\ Types
  /\ Apart
  /\ \A e \in Entries : EntryOK(e)
  /\ \A c \in Callers : CallerOK(c)

-----------------------------------------------------------------------------
(* A reply is not empty, its last line says so, and all are its command's. *)
LEMMA ReplyFacts ==
  ASSUME NEW q \in Sent
  PROVE  /\ Reply(q) \in Seq(Line) /\ Len(Reply(q)) \in Nat /\ Len(Reply(q)) >= 1
         /\ DOMAIN Reply(q) = 1 .. Len(Reply(q))
         /\ \A i \in 1 .. Len(Reply(q)) :
              Reply(q)[i].of = q /\ (Reply(q)[i].last <=> i = Len(Reply(q)))
         /\ q.by = None => Len(Reply(q)) = 1
<1> DEFINE r == IF q.by = None THEN <<Text>> ELSE Report[q.about]
<1>1. Text \in Saying
  BY DEF Text, Says, Saying
<1>2. q.by # None => q.about \in Protocols
  BY DEF Sent, Command, Banner, Confirm
<1>3. r \in Seq(Saying) /\ r # <<>>
  BY <1>1, <1>2, QueryAssumption
<1>4. q.by = None => Len(r) = 1
  BY <1>1
<1>5. Reply(q) = [i \in DOMAIN r |-> [of |-> q, says |-> r[i], last |-> i = Len(r)]]
  BY DEF Reply
<1> HIDE DEF r
<1>6. DOMAIN r = 1 .. Len(r) /\ Len(r) \in Nat /\ Len(r) >= 1
  BY <1>3
<1>7. \A i \in 1 .. Len(r) : r[i] \in Saying
  BY <1>3
<1>8. \A i \in 1 .. Len(r) : [of |-> q, says |-> r[i], last |-> i = Len(r)] \in Line
  BY <1>7 DEF Line
<1>9. Reply(q) \in [1 .. Len(r) -> Line]
  BY <1>5, <1>6, <1>8
<1>10. Reply(q) \in Seq(Line) /\ Len(Reply(q)) = Len(r)
  BY <1>6, <1>9
<1>11. \A i \in 1 .. Len(r) : Reply(q)[i] = [of |-> q, says |-> r[i], last |-> i = Len(r)]
  BY <1>5, <1>6
<1>12. ASSUME NEW i \in 1 .. Len(r)
       PROVE  Reply(q)[i].of = q /\ (Reply(q)[i].last <=> i = Len(r))
  <2>1. Reply(q)[i] = [of |-> q, says |-> r[i], last |-> i = Len(r)]
    BY <1>11
  <2> HIDE DEF r
  <2>2. [of |-> q, says |-> r[i], last |-> i = Len(r)].of = q
    OBVIOUS
  <2>3. [of |-> q, says |-> r[i], last |-> i = Len(r)].last <=> i = Len(r)
    OBVIOUS
  <2> QED
    BY <2>1, <2>2, <2>3, Zenon
<1> QED
  BY <1>4, <1>6, <1>9, <1>10, <1>12

LEMMA SingleLine ==
  ASSUME NEW q \in Sent, q.by = None
  PROVE  /\ Reply(q) \in Seq(Line) /\ <<>> \o Reply(q) = Reply(q)
         /\ \E line : Reply(q) = <<line>> /\ line.of.by = None
<1> DEFINE r == Reply(q)
<1>1. r \in Seq(Line) /\ Len(r) = 1 /\ \A i \in 1 .. Len(r) : r[i].of = q
  BY ReplyFacts
<1> HIDE DEF r
<1>2. r = <<r[1]>> /\ r[1].of.by = None /\ <<>> \o r = r
  BY <1>1
<1> QED
  BY <1>1, <1>2 DEF r

LEMMA NoSockType == NoSock \in Sock /\ NoSock.stream = <<>> /\ Len(NoSock.stream) = 0
                    /\ ~ NoSock.open /\ ~ NoSock.strict
  BY DEF NoSock, Sock

(* What a write does to a connection.                                      *)
LEMMA WriteFacts ==
  ASSUME Types, NEW k \in Ends, NEW q \in Sent, Write(k, q)
  PROVE  /\ sock' \in [Ends -> Sock]
         /\ sock[k].open /\ sock'[k].open
         /\ sock'[k].stream = sock[k].stream \o Reply(q)
         /\ sock'[k].strict <=> sock[k].strict \/ q = Confirm
         /\ \A j \in Ends : j # k => sock'[j] = sock[j]
<1> DEFINE s == [open |-> TRUE, strict |-> (sock[k].strict \/ q = Confirm),
                 stream |-> sock[k].stream \o Reply(q)]
<1>1. sock[k] \in Sock
  BY DEF Types
<1>2. sock' = [sock EXCEPT ![k] = s] /\ sock[k].open
  BY <1>1 DEF Write, Sock, Types
<1>3. s \in Sock
  BY <1>1, ReplyFacts DEF Sock
<1>4. s.open /\ s.stream = sock[k].stream \o Reply(q)
      /\ (s.strict <=> sock[k].strict \/ q = Confirm)
  OBVIOUS
<1> HIDE DEF s
<1> QED
  BY <1>2, <1>3, <1>4 DEF Types

(* What a read of a line does to one.                                      *)
LEMMA ReceiveFacts ==
  ASSUME Types, NEW k \in Ends, Receives(k),
         sock' = [sock EXCEPT ![k].stream = Tail(@)]
  PROVE  /\ sock' \in [Ends -> Sock]
         /\ sock'[k].open = sock[k].open /\ sock'[k].strict = sock[k].strict
         /\ Len(sock[k].stream) \in Nat /\ Len(sock[k].stream) >= 1
         /\ sock'[k].stream \in Seq(Line)
         /\ Len(sock'[k].stream) = Len(sock[k].stream) - 1
         /\ Len(sock[k].stream) <= 1 => sock'[k].stream = <<>>
         /\ Next1(k) = sock[k].stream[1] /\ Next1(k) \in Line
         /\ \A i \in 1 .. (Len(sock[k].stream) - 1) : sock'[k].stream[i] = sock[k].stream[i + 1]
         /\ \A j \in Ends : j # k => sock'[j] = sock[j]
<1> DEFINE t == sock[k].stream
           s == [sock[k] EXCEPT !.stream = Tail(t)]
<1>1. sock[k] \in Sock
  BY DEF Types
<1>2. t \in Seq(Line) /\ t # <<>>
  BY <1>1 DEF Sock, Receives
<1>3. /\ Len(t) \in Nat /\ Len(t) >= 1 /\ Tail(t) \in Seq(Line) /\ Len(Tail(t)) = Len(t) - 1
      /\ \A i \in 1 .. (Len(t) - 1) : Tail(t)[i] = t[i + 1]
      /\ Head(t) = t[1] /\ t[1] \in Line
      /\ Len(t) <= 1 => Tail(t) = <<>>
  BY <1>2
<1>4. sock' = [sock EXCEPT ![k] = s]
  BY DEF Types
<1>5. s \in Sock /\ s.open = sock[k].open /\ s.strict = sock[k].strict /\ s.stream = Tail(t)
  BY <1>1, <1>3 DEF Sock
<1>6. Next1(k) = Head(t)
  BY DEF Next1
<1>7. sock'[k] = s /\ sock' \in [Ends -> Sock] /\ \A j \in Ends : j # k => sock'[j] = sock[j]
  BY <1>4, <1>5 DEF Types
<1> HIDE DEF s
<1> QED
  BY <1>3, <1>5, <1>6, <1>7

(* What dropping the rest does to one.                                     *)
LEMMA DropFacts ==
  ASSUME Types, NEW k \in Ends, sock' = [sock EXCEPT ![k].stream = <<>>]
  PROVE  /\ sock' \in [Ends -> Sock]
         /\ sock'[k].open = sock[k].open /\ sock'[k].strict = sock[k].strict
         /\ sock'[k].stream = <<>>
         /\ \A j \in Ends : j # k => sock'[j] = sock[j]
<1> DEFINE s == [sock[k] EXCEPT !.stream = <<>>]
<1>0. sock[k] \in Sock /\ <<>> \in Seq(Line)
  BY DEF Types
<1>1. s \in Sock /\ s.open = sock[k].open /\ s.strict = sock[k].strict /\ s.stream = <<>>
  BY <1>0 DEF Sock
<1>2. sock' = [sock EXCEPT ![k] = s]
  BY DEF Types
<1> HIDE DEF s
<1> QED
  BY <1>1, <1>2 DEF Types

-----------------------------------------------------------------------------
(* The beginning of a reply, and what the reader takes next.               *)
LEMMA SplitPrefix ==
  ASSUME NEW a \in Seq(Line), NEW s \in Seq(Line), NEW r \in Seq(Line), Split(a, s, r)
  PROVE  IsPrefix(a, r)
<1>1. Len(a) \in Nat /\ Len(r) \in Nat /\ Len(s) \in Nat /\ Len(a) <= Len(r)
  BY DEF Split
<1>2. \A i \in 1 .. Len(a) : a[i] = r[i]
  BY DEF Split
<1>3. SubSeq(a, 1, Len(a)) = SubSeq(r, 1, Len(a))
  BY <1>1, <1>2
<1> QED
  BY <1>1, <1>3 DEF IsPrefix

LEMMA SplitNext ==
  ASSUME NEW a \in Seq(Line), NEW s \in Seq(Line), NEW r \in Seq(Line), Split(a, s, r),
         Len(s) >= 1, NEW t \in Seq(Line), Len(t) = Len(s) - 1,
         \A i \in 1 .. (Len(s) - 1) : t[i] = s[i + 1]
  PROVE  /\ Split(Append(a, s[1]), t, r)
         /\ s[1] = r[Len(a) + 1]
         /\ Len(a) + 1 = Len(r) => t = <<>>
<1>1. Len(a) \in Nat /\ Len(r) \in Nat /\ Len(s) \in Nat /\ s[1] \in Line
      /\ Len(a) + Len(s) <= Len(r)
  BY DEF Split
<1> DEFINE b == Append(a, s[1])
<1>2. Len(b) = Len(a) + 1 /\ b[Len(a) + 1] = s[1] /\ \A i \in 1 .. Len(a) : b[i] = a[i]
  BY <1>1
<1>3. s[1] = r[Len(a) + 1]
  BY <1>1 DEF Split
<1> HIDE DEF b
<1>4. ASSUME NEW i \in 1 .. Len(b) PROVE b[i] = r[i]
  <2>1. CASE i \in 1 .. Len(a)
    BY <1>2, <2>1 DEF Split
  <2>2. CASE i = Len(a) + 1
    BY <1>2, <1>3, <2>2
  <2> QED
    BY <1>1, <1>2, <2>1, <2>2
<1>5. ASSUME NEW i \in 1 .. Len(t) PROVE t[i] = r[Len(b) + i]
  <2>1. i + 1 \in 1 .. Len(s) /\ t[i] = s[i + 1] /\ Len(a) + (i + 1) = Len(b) + i
    BY <1>1, <1>2
  <2>2. s[i + 1] = r[Len(a) + (i + 1)]
    BY <2>1 DEF Split
  <2> QED
    BY <2>1, <2>2
<1>6. Split(b, t, r)
  BY <1>1, <1>2, <1>4, <1>5 DEF Split
<1>7. Len(a) + 1 = Len(r) => Len(t) = 0
  BY <1>1
<1> QED
  BY <1>3, <1>6, <1>7 DEF b

LEMMA SplitCut ==
  ASSUME NEW a \in Seq(Line), NEW s \in Seq(Line), NEW r \in Seq(Line), Split(a, s, r)
  PROVE  Split(a, <<>>, r)
<1>1. Len(a) \in Nat /\ Len(r) \in Nat /\ Len(s) \in Nat
  OBVIOUS
<1>2. Len(a) <= Len(r) /\ \A i \in 1 .. Len(a) : a[i] = r[i]
  BY <1>1 DEF Split
<1> QED
  BY <1>1, <1>2 DEF Split

(* A caller's entry is no caller, and its own.                             *)
LEMMA Held ==
  ASSUME Orderly, NEW c \in Callers, pc[c] # "idle"
  PROVE  /\ held[c] \in Entries /\ held[c] \in Ends /\ c \in Ends /\ held[c] # c
         /\ EntryOK(held[c]) /\ CallerOK(c) /\ held[c] \notin idle
         /\ sock[c] \in Sock /\ sock[held[c]] \in Sock
         /\ \A d \in Callers : d # c /\ pc[d] # "idle" => held[d] # held[c]
  BY QueryAssumption DEF Orderly, CallerOK, Holds, Apart, Types, Ends

(* Callers and entries a step does not touch stay as they are.             *)
LEMMA Untouched ==
  ASSUME Orderly, NEW c \in Callers, CallerOK(c),
         pc'[c] = pc[c], held'[c] = held[c], asked'[c] = asked[c], answer'[c] = answer[c],
         sock'[c] = sock[c],
         pc[c] # "idle" => sock'[held[c]] = sock[held[c]] /\ held[c] \notin idle'
  PROVE  CallerOK(c)'
<1>1. Holds(c)'
  BY DEF CallerOK, Holds
<1>2. SetUpOK(c)'
  BY DEF CallerOK, SetUpOK
<1>3. ReadOK(c)'
  BY DEF CallerOK, ReadOK
<1> QED
  BY <1>1, <1>2, <1>3 DEF CallerOK

LEMMA OwnCall ==
  ASSUME Orderly, NEW c \in Callers, pc[c] # "idle", pc'[c] # "idle", Types',
         UNCHANGED <<held, idle, asked>>,
         \A d \in Callers : d # c => pc'[d] = pc[d] /\ answer'[d] = answer[d],
         \A k \in Ends : k \notin {c, held[c]} => sock'[k] = sock[k],
         EntryOK(held[c])', CallerOK(c)'
  PROVE  Orderly'
<1>1. ASSUME NEW d \in Callers, d # c PROVE CallerOK(d)'
  <2>1. CallerOK(d) /\ d \in Ends /\ d # held[c] /\ sock'[d] = sock[d]
    BY <1>1, Held, QueryAssumption DEF Orderly, Ends
  <2>2. pc[d] # "idle" => sock'[held[d]] = sock[held[d]] /\ held[d] \notin idle
    BY <1>1, Held, QueryAssumption DEF Ends
  <2> QED
    BY <1>1, <2>1, <2>2, Untouched
<1>2. ASSUME NEW e \in Entries, e # held[c] PROVE EntryOK(e)'
  <2>1. sock'[e] = sock[e] /\ EntryOK(e)
    BY <1>2, QueryAssumption DEF Ends, Orderly
  <2> QED
    BY <2>1 DEF EntryOK
<1>3. Apart'
  BY DEF Apart, Orderly
<1>4. \A e \in Entries : EntryOK(e)'
  <2>1. CASE held'[c] = held[c]
    BY <1>2, <2>1
  <2> QED
    BY <2>1
<1> QED
  BY <1>1, <1>3, <1>4 DEF Orderly

LEMMA GoFacts ==
  ASSUME Types, NEW c \in Callers, NEW place \in Place, Go(c, place)
  PROVE  /\ pc' \in [Callers -> Place] /\ pc'[c] = place
         /\ \A d \in Callers : d # c => pc'[d] = pc[d]
  BY DEF Go, Types

-----------------------------------------------------------------------------
(* The steps of a call.                                                    *)
LEMMA SettingUpKeeps ==
  ASSUME Orderly, NEW c \in Callers, pc[c] # "idle", pc[c] # "read",
         NEW place \in {"greet", "restrict", "confirm", "swap", "ask", "dial", "failed"},
         Go(c, place), sock' \in [Ends -> Sock],
         UNCHANGED <<up, closing, gone, idle, held, asked, answer, shaken>>,
         retried' \in [Callers -> BOOLEAN],
         \A k \in Ends : k # c => sock'[k] = sock[k],
         SetUpOK(c)', pc[c] # "done"
  PROVE  Orderly'
<1>1. Types
  BY DEF Orderly
<1>2. /\ pc' \in [Callers -> Place] /\ pc'[c] = place
      /\ \A d \in Callers : d # c => pc'[d] = pc[d]
  <2>1. place \in Place
    BY DEF Place
  <2> QED
    BY <1>1, <2>1, GoFacts
<1>3. Types'
  BY <1>1, <1>2 DEF Types
<1>4. /\ held[c] \in Entries /\ held[c] \in Ends /\ held[c] # c /\ EntryOK(held[c])
      /\ CallerOK(c) /\ held[c] \notin idle
  BY Held
<1>5. sock'[held[c]] = sock[held[c]]
  BY <1>4
<1>6. EntryOK(held[c])'
  BY <1>4, <1>5 DEF EntryOK
<1>7. Holds(c)'
  BY <1>2, <1>4, <1>5 DEF CallerOK, Holds
<1>8. ReadOK(c)'
  BY <1>2, <1>4 DEF CallerOK, ReadOK
<1>9. CallerOK(c)'
  BY <1>7, <1>8 DEF CallerOK
<1> QED
  BY <1>2, <1>3, <1>6, <1>9, OwnCall

(* A connection with one line on it, from nobody's command.                *)
LEMMA OneLine ==
  ASSUME NEW c \in Callers, NEW line, sock'[c].stream = <<line>>, line.of.by = None,
         pc'[c] \in {"greet", "confirm"}, pc'[c] = "confirm" => sock'[c].strict
  PROVE  SetUpOK(c)'
<1> DEFINE s == sock'[c].stream
<1>1. Len(s) = 1 /\ s[1].of.by = None
  OBVIOUS
<1> HIDE DEF s
<1>2. Len(s) <= 1 /\ \A i \in 1 .. Len(s) : s[i].of.by = None
  BY <1>1
<1> QED
  BY <1>2 DEF s, SetUpOK, SettingUp

LEMMA DialKeeps ==
  ASSUME Orderly, NEW c \in Callers, Dial(c)
  PROVE  Orderly'
<1>1. /\ Types /\ CallerOK(c) /\ c \in Ends /\ pc[c] = "dial" /\ sock[c] = NoSock
      /\ retried' \in [Callers -> BOOLEAN]
  BY Held DEF Orderly, Dial, CallerOK, SetUpOK, SettingUp, Types
<1>2. CASE sock' = [sock EXCEPT ![c] = Fresh] /\ Go(c, "greet")
  <2>1. Fresh \in Sock /\ \E line : Fresh.stream = <<line>> /\ line.of.by = None
    <3>1. Banner \in Sent /\ Banner.by = None
      BY DEF Sent, Banner
    <3> QED
      BY <3>1, SingleLine DEF Fresh, Sock
  <2>2. sock' \in [Ends -> Sock] /\ sock'[c] = Fresh /\ \A k \in Ends : k # c => sock'[k] = sock[k]
    BY <1>1, <1>2, <2>1 DEF Types
  <2>3. pc'[c] = "greet"
    BY <1>1, <1>2 DEF Go, Types
  <2>4. SetUpOK(c)'
    <3>1. \E line : sock'[c].stream = <<line>> /\ line.of.by = None
      BY <2>1, <2>2, Zenon
    <3>2. PICK line : sock'[c].stream = <<line>> /\ line.of.by = None
      BY <3>1
    <3> QED
      BY <2>3, <3>2, OneLine
  <2> QED
    BY <1>1, <1>2, <2>2, <2>4, SettingUpKeeps DEF Dial
<1>3. CASE sock' = sock /\ Go(c, "failed")
  <2>1. pc'[c] = "failed" /\ sock'[c] = NoSock /\ sock' \in [Ends -> Sock]
    BY <1>1, <1>3 DEF Go, Types
  <2>2. SetUpOK(c)'
    BY <2>1, NoSockType DEF SetUpOK
  <2> QED
    BY <1>1, <1>3, <2>1, <2>2, SettingUpKeeps DEF Dial
<1> QED
  BY <1>2, <1>3 DEF Dial

LEMMA GreetKeeps ==
  ASSUME Orderly, NEW c \in Callers, Greet(c)
  PROVE  Orderly'
<1>1. /\ Types /\ CallerOK(c) /\ c \in Ends /\ pc[c] = "greet"
      /\ Len(sock[c].stream) <= 1
      /\ retried' \in [Callers -> BOOLEAN]
  BY Held DEF Orderly, Greet, CallerOK, SetUpOK, Types
<1>2. /\ sock' \in [Ends -> Sock] /\ sock'[c].stream = <<>>
      /\ \A k \in Ends : k # c => sock'[k] = sock[k]
  <2>1. CASE Receives(c) /\ sock' = [sock EXCEPT ![c].stream = Tail(@)]
    BY <1>1, <2>1, ReceiveFacts
  <2>2. CASE sock' = [sock EXCEPT ![c].stream = <<>>]
    BY <1>1, <2>2, DropFacts
  <2> QED
    BY <2>1, <2>2 DEF Greet
<1>3. pc'[c] = "restrict" /\ Go(c, "restrict")
  BY <1>1 DEF Greet, Go, Types
<1>4. SetUpOK(c)'
  BY <1>2, <1>3 DEF SetUpOK, SettingUp
<1> QED
  BY <1>1, <1>2, <1>3, <1>4, SettingUpKeeps DEF Greet

LEMMA RestrictKeeps ==
  ASSUME Orderly, NEW c \in Callers, RestrictConn(c)
  PROVE  Orderly'
<1>1. /\ Types /\ CallerOK(c) /\ c \in Ends /\ pc[c] = "restrict"
      /\ sock[c].stream = <<>> /\ retried' \in [Callers -> BOOLEAN]
  BY Held DEF Orderly, RestrictConn, CallerOK, SetUpOK, Types
<1>2. CASE Write(c, Confirm) /\ Go(c, "confirm")
  <2>1. Confirm \in Sent /\ Confirm.by = None
    BY DEF Sent, Confirm
  <2>2. /\ sock' \in [Ends -> Sock] /\ sock'[c].strict
        /\ sock'[c].stream = <<>> \o Reply(Confirm)
        /\ \A k \in Ends : k # c => sock'[k] = sock[k]
    BY <1>1, <1>2, <2>1, WriteFacts
  <2>3. sock'[c].stream = Reply(Confirm)
    BY <2>1, <2>2, SingleLine
  <2>4. pc'[c] = "confirm"
    BY <1>1, <1>2 DEF Go, Types
  <2>6. SetUpOK(c)'
    BY <2>1, <2>2, <2>3, <2>4, SingleLine, OneLine
  <2> QED
    BY <1>1, <1>2, <2>2, <2>6, SettingUpKeeps DEF RestrictConn
<1>3. CASE sock' = [sock EXCEPT ![c] = NoSock] /\ Go(c, "failed")
  <2>1. /\ sock' \in [Ends -> Sock] /\ sock'[c] = NoSock /\ pc'[c] = "failed"
        /\ \A k \in Ends : k # c => sock'[k] = sock[k]
    BY <1>1, <1>3, NoSockType DEF Go, Types
  <2>2. SetUpOK(c)'
    BY <2>1, NoSockType DEF SetUpOK
  <2> QED
    BY <1>1, <1>3, <2>1, <2>2, SettingUpKeeps DEF RestrictConn
<1> QED
  BY <1>2, <1>3 DEF RestrictConn

LEMMA ConfirmedKeeps ==
  ASSUME Orderly, NEW c \in Callers, Confirmed(c)
  PROVE  Orderly'
<1>1. /\ Types /\ CallerOK(c) /\ c \in Ends /\ pc[c] = "confirm"
      /\ Len(sock[c].stream) <= 1 /\ sock[c].strict
      /\ retried' \in [Callers -> BOOLEAN]
  BY Held DEF Orderly, Confirmed, CallerOK, SetUpOK, Types
<1>2. CASE /\ Receives(c) /\ Go(c, "swap")
           /\ sock' = [sock EXCEPT ![c].stream = Tail(@)]
  <2>1. /\ sock' \in [Ends -> Sock] /\ sock'[c].stream = <<>>
        /\ sock'[c].strict = sock[c].strict
        /\ \A k \in Ends : k # c => sock'[k] = sock[k]
    BY <1>1, <1>2, ReceiveFacts
  <2>3. sock'[c].stream = <<>> /\ pc'[c] = "swap" /\ sock'[c].strict
    BY <1>1, <1>2, <2>1 DEF Go, Types
  <2>4. SetUpOK(c)'
    BY <2>3 DEF SetUpOK, SettingUp
  <2> QED
    BY <1>1, <1>2, <2>1, <2>4, SettingUpKeeps DEF Confirmed
<1>3. CASE sock' = [sock EXCEPT ![c] = NoSock] /\ Go(c, "failed")
  <2>1. /\ sock' \in [Ends -> Sock] /\ sock'[c] = NoSock /\ pc'[c] = "failed"
        /\ \A k \in Ends : k # c => sock'[k] = sock[k]
    BY <1>1, <1>3, NoSockType DEF Go, Types
  <2>2. SetUpOK(c)'
    BY <2>1, NoSockType DEF SetUpOK
  <2> QED
    BY <1>1, <1>3, <2>1, <2>2, SettingUpKeeps DEF Confirmed
<1> QED
  BY <1>2, <1>3 DEF Confirmed

LEMMA SwapKeeps ==
  ASSUME Orderly, NEW c \in Callers, Swap(c)
  PROVE  Orderly'
<1>1. /\ Types /\ CallerOK(c) /\ c \in Ends /\ pc[c] = "swap"
      /\ held[c] \in Ends /\ held[c] # c /\ held[c] \in Entries /\ held[c] \notin idle
      /\ sock[c].stream = <<>> /\ sock[c].strict /\ sock[c] \in Sock
  BY Held DEF Orderly, Swap, CallerOK, SetUpOK
<1>2. /\ sock' \in [Ends -> Sock] /\ sock'[held[c]] = sock[c] /\ sock'[c] = NoSock
      /\ \A k \in Ends : k \notin {c, held[c]} => sock'[k] = sock[k]
  BY <1>1, NoSockType DEF Swap, Types
<1>3. /\ pc' \in [Callers -> Place] /\ pc'[c] = "ask"
      /\ \A d \in Callers : d # c => pc'[d] = pc[d]
  BY <1>1, GoFacts DEF Swap, Place
<1>4. Types'
  BY <1>1, <1>2, <1>3 DEF Swap, Types
<1>5. EntryOK(held[c])'
  BY <1>1, <1>2 DEF Swap, EntryOK
<1>6. Holds(c)' /\ ReadOK(c)'
  BY <1>1, <1>2, <1>3 DEF Swap, CallerOK, Holds, ReadOK
<1>7. SetUpOK(c)'
  BY <1>2, <1>3, NoSockType DEF SetUpOK
<1> QED
  BY <1>1, <1>2, <1>3, <1>4, <1>5, <1>6, <1>7, OwnCall DEF Swap, CallerOK

(* Nothing of an earlier answer is before the reply on the connection.     *)
LEMMA WholeReply ==
  ASSUME NEW q \in Sent
  PROVE  Split(<<>>, <<>> \o Reply(q), Reply(q)) /\ Reply(q) # <<>>
<1> DEFINE r == Reply(q)
<1>1. r \in Seq(Line) /\ Len(r) \in Nat /\ Len(r) >= 1
  BY ReplyFacts
<1> HIDE DEF r
<1>2. <<>> \o r = r /\ Len(<<>>) = 0 /\ r # <<>>
  BY <1>1
<1>3. Split(<<>>, r, r)
  BY <1>1, <1>2 DEF Split
<1> QED
  BY <1>2, <1>3 DEF r

LEMMA AskKeeps ==
  ASSUME Orderly, NEW c \in Callers, Ask(c)
  PROVE  Orderly'
<1>1. /\ Types /\ CallerOK(c) /\ c \in Ends /\ pc[c] = "ask" /\ EntryOK(held[c])
      /\ held[c] \in Ends /\ held[c] # c /\ held[c] \in Entries /\ held[c] \notin idle
      /\ sock[held[c]].stream = <<>> /\ sock[c] = NoSock /\ answer[c] = <<>>
      /\ asked[c] \in Sent
  BY Held DEF Orderly, Ask, CallerOK, Holds, SetUpOK, SettingUp, ReadOK, Types, Sent
<1>2. CASE Write(held[c], asked[c]) /\ Go(c, "read") /\ retried' = retried
  <2>1. /\ sock' \in [Ends -> Sock] /\ sock[held[c]].open
        /\ sock'[held[c]].stream = <<>> \o Reply(asked[c])
        /\ sock[held[c]].strict => sock'[held[c]].strict
        /\ \A k \in Ends : k # held[c] => sock'[k] = sock[k]
    <3> DEFINE k == held[c]
               q == asked[c]
    <3>1. Types /\ k \in Ends /\ q \in Sent
      BY <1>1
    <3>2. Write(k, q)
      BY <1>2
    <3>3. sock[k].stream = <<>>
      BY <1>1
    <3> HIDE DEF k, q
    <3>4. /\ sock' \in [Ends -> Sock]
          /\ sock[k].open /\ sock'[k].open
          /\ sock'[k].stream = sock[k].stream \o Reply(q)
          /\ (sock'[k].strict <=> sock[k].strict \/ q = Confirm)
          /\ \A j \in Ends : j # k => sock'[j] = sock[j]
      BY <3>1, <3>2, WriteFacts
    <3> QED
      BY <3>3, <3>4 DEF k, q
  <2>2. /\ pc' \in [Callers -> Place] /\ pc'[c] = "read"
        /\ \A d \in Callers : d # c => pc'[d] = pc[d]
    BY <1>1, <1>2, GoFacts DEF Place
  <2>3. UNCHANGED <<up, closing, gone, idle, held, asked, answer, retried, shaken>>
    BY <1>2 DEF Ask
  <2>4. Types'
    BY <1>1, <2>1, <2>2, <2>3 DEF Types
  <2>5. EntryOK(held[c])'
    BY <1>1, <2>1, <2>3 DEF EntryOK
  <2>6. Holds(c)'
    BY <1>1, <2>2, <2>3 DEF Holds
  <2>7. SetUpOK(c)'
    BY <1>1, <2>1, <2>2, NoSockType DEF SetUpOK
  <2>8. ReadOK(c)'
    BY <1>1, <2>1, <2>2, <2>3, WholeReply DEF ReadOK
  <2> QED
    BY <1>1, <2>1, <2>2, <2>3, <2>4, <2>5, <2>6, <2>7, <2>8, OwnCall DEF CallerOK
<1>3. CASE /\ Go(c, IF retried[c] THEN "failed" ELSE "dial")
           /\ retried' = [retried EXCEPT ![c] = TRUE] /\ sock' = sock
  <2> DEFINE place == IF retried[c] THEN "failed" ELSE "dial"
  <2>1. place \in {"failed", "dial"} /\ place \in Place /\ Go(c, place)
    BY <1>3 DEF Place
  <2> HIDE DEF place
  <2>2. pc'[c] = place /\ sock'[c] = NoSock /\ sock' \in [Ends -> Sock]
    BY <1>1, <1>3, <2>1, GoFacts DEF Types
  <2>3. SetUpOK(c)'
    BY <2>1, <2>2, NoSockType DEF SetUpOK
  <2>4. retried' \in [Callers -> BOOLEAN]
    BY <1>1, <1>3 DEF Types
  <2> QED
    BY <1>1, <1>3, <2>1, <2>2, <2>3, <2>4, SettingUpKeeps DEF Ask
<1> QED
  BY <1>2, <1>3 DEF Ask

LEMMA ReadLineKeeps ==
  ASSUME Orderly, NEW c \in Callers, ReadLine(c)
  PROVE  Orderly'
<1> DEFINE e == held[c]
           s == sock[e].stream
           t == sock'[e].stream
           a == answer[c]
           r == Reply(asked[c])
<1>1. /\ Types /\ CallerOK(c) /\ c \in Ends /\ pc[c] = "read" /\ EntryOK(e)
      /\ e \in Ends /\ e # c /\ e \in Entries /\ e \notin idle
      /\ sock[c] = NoSock /\ Split(a, s, r) /\ asked[c] \in Sent
      /\ a \in Seq(Line) /\ s \in Seq(Line)
  BY Held DEF Orderly, ReadLine, CallerOK, SetUpOK, SettingUp, ReadOK, Types, Sent, Sock
<1>2. /\ sock' \in [Ends -> Sock] /\ sock'[e].open = sock[e].open
      /\ sock'[e].strict = sock[e].strict
      /\ Len(s) \in Nat /\ Len(s) >= 1 /\ t \in Seq(Line) /\ Len(t) = Len(s) - 1
      /\ Next1(e) = s[1] /\ Next1(e) \in Line
      /\ \A i \in 1 .. (Len(s) - 1) : t[i] = s[i + 1]
      /\ \A k \in Ends : k # e => sock'[k] = sock[k]
  BY <1>1, ReceiveFacts DEF ReadLine
<1>3. /\ r \in Seq(Line) /\ Len(r) \in Nat
      /\ \A i \in 1 .. Len(r) : r[i].last <=> i = Len(r)
  BY <1>1, ReplyFacts
<1>4. /\ answer' = [answer EXCEPT ![c] = Append(a, s[1])]
      /\ Go(c, IF s[1].last THEN "done" ELSE "read")
      /\ UNCHANGED <<up, closing, gone, idle, held, asked, retried, shaken>>
  BY <1>2 DEF ReadLine
<1>5. pc'[c] = (IF s[1].last THEN "done" ELSE "read")
      /\ pc' \in [Callers -> Place]
      /\ \A d \in Callers : d # c => pc'[d] = pc[d]
  BY <1>1, <1>4, GoFacts DEF Place
<1>6. s # <<>>
  BY <1>1, <1>2
<1>7. sock[e].strict
  BY <1>1, <1>6 DEF EntryOK
<1> HIDE DEF e, s, t, a, r
<1>8. /\ Split(Append(a, s[1]), t, r) /\ s[1] = r[Len(a) + 1]
      /\ Len(a) + 1 = Len(r) => t = <<>>
      /\ Append(a, s[1]) \in Seq(Line) /\ Len(a) \in Nat
  BY <1>1, <1>2, <1>3, SplitNext
<1>9. Len(a) + 1 <= Len(r)
  BY <1>1, <1>2, <1>3, <1>8 DEF Split
<1>10. s[1].last => t = <<>>
  <2>1. Len(a) + 1 \in 1 .. Len(r)
    BY <1>3, <1>8, <1>9
  <2> QED
    BY <1>3, <1>8, <2>1
<1>11. /\ answer'[c] = Append(a, s[1]) /\ answer' \in [Callers -> Seq(Line)]
       /\ \A d \in Callers : d # c => answer'[d] = answer[d]
  BY <1>1, <1>4, <1>8 DEF Types
<1>12. Types'
  BY <1>1, <1>2, <1>4, <1>5, <1>11 DEF Types
<1>13. held'[c] = e /\ sock'[e].stream = t /\ Reply(asked[c])' = r
  BY <1>4 DEF e, t, r
<1>14. EntryOK(held[c])'
  BY <1>1, <1>2, <1>4, <1>7, <1>13 DEF EntryOK
<1>15. Holds(c)'
  BY <1>1, <1>4, <1>5, <1>10, <1>13 DEF Holds
<1>16. SetUpOK(c)'
  BY <1>1, <1>2, <1>5, NoSockType DEF SetUpOK
<1>17. ReadOK(c)'
  <2>1. CASE s[1].last
    BY <1>5, <1>8, <1>10, <1>11, <1>13, <2>1 DEF ReadOK
  <2>2. CASE ~ s[1].last
    BY <1>5, <1>8, <1>11, <1>13, <2>2 DEF ReadOK
  <2> QED
    BY <2>1, <2>2
<1> QED
  <2>1. \A k \in Ends : k \notin {c, held[c]} => sock'[k] = sock[k]
    BY <1>2 DEF e
  <2>2. pc'[c] # "idle"
    BY <1>5
  <2> QED
    BY <1>1, <1>4, <1>5, <1>11, <1>12, <1>14, <1>15, <1>16, <1>17, <2>1, <2>2, OwnCall DEF CallerOK

LEMMA ReadEndsKeeps ==
  ASSUME Orderly, NEW c \in Callers, ReadEnds(c)
  PROVE  Orderly'
<1>1. /\ Types /\ CallerOK(c) /\ c \in Ends /\ pc[c] = "read" /\ EntryOK(held[c])
      /\ held[c] \in Ends /\ held[c] # c /\ held[c] \in Entries /\ held[c] \notin idle
      /\ sock[c] = NoSock /\ Split(answer[c], sock[held[c]].stream, Reply(asked[c]))
      /\ answer[c] \in Seq(Line) /\ sock[held[c]].stream \in Seq(Line) /\ asked[c] \in Sent
  BY Held DEF Orderly, ReadEnds, CallerOK, SetUpOK, SettingUp, ReadOK, Types, Sent, Sock
<1>2. /\ sock' \in [Ends -> Sock]
      /\ sock'[held[c]].open = sock[held[c]].open
      /\ sock'[held[c]].strict = sock[held[c]].strict
      /\ sock'[held[c]].stream = <<>>
      /\ \A k \in Ends : k # held[c] => sock'[k] = sock[k]
  BY <1>1, DropFacts DEF ReadEnds
<1>3. /\ pc' \in [Callers -> Place] /\ pc'[c] = "done"
      /\ \A d \in Callers : d # c => pc'[d] = pc[d]
  BY <1>1, GoFacts DEF ReadEnds, Place
<1>4. UNCHANGED <<up, closing, gone, idle, held, asked, answer, retried, shaken>>
  BY DEF ReadEnds
<1>5. Types'
  BY <1>1, <1>2, <1>3, <1>4 DEF Types
<1>6. EntryOK(held[c])'
  BY <1>1, <1>2, <1>4 DEF EntryOK
<1>7. Holds(c)'
  BY <1>1, <1>2, <1>4 DEF Holds
<1>8. SetUpOK(c)'
  BY <1>1, <1>2, <1>3, NoSockType DEF SetUpOK
<1>9. Split(answer[c], <<>>, Reply(asked[c]))
  BY <1>1, ReplyFacts, SplitCut
<1>10. ReadOK(c)'
  BY <1>3, <1>4, <1>9 DEF ReadOK
<1> QED
  BY <1>1, <1>2, <1>3, <1>4, <1>5, <1>6, <1>7, <1>8, <1>10, OwnCall DEF CallerOK

LEMMA ReturnKeeps ==
  ASSUME Orderly, NEW c \in Callers, Return(c)
  PROVE  Orderly'
<1>1. /\ Types /\ CallerOK(c) /\ c \in Ends /\ pc[c] \in {"done", "failed"}
      /\ held[c] \in Ends /\ held[c] # c /\ held[c] \in Entries
      /\ EntryOK(held[c]) /\ sock[c] = NoSock /\ sock[held[c]].stream = <<>>
  BY Held DEF Orderly, Return, CallerOK, Holds, SetUpOK, SettingUp
<1>2. /\ sock' \in [Ends -> Sock] /\ sock'[held[c]].stream = <<>>
      /\ sock'[held[c]].open => sock[held[c]].open /\ sock'[held[c]] = sock[held[c]]
      /\ \A k \in Ends : k # held[c] => sock'[k] = sock[k]
  <2>1. CASE sock' = sock
    BY <1>1, <2>1 DEF Types
  <2>2. CASE sock' = [sock EXCEPT ![held[c]] = NoSock]
    BY <1>1, <2>2, NoSockType DEF Types
  <2> QED
    BY <2>1, <2>2 DEF Return
<1>3. /\ pc' \in [Callers -> Place] /\ pc'[c] = "idle"
      /\ \A d \in Callers : d # c => pc'[d] = pc[d]
  BY <1>1, GoFacts DEF Return, Place
<1>4. /\ idle' = idle \cup {held[c]} /\ idle' \subseteq Entries
      /\ held' \in [Callers -> Entries \cup {None}] /\ answer'[c] = <<>>
      /\ answer' \in [Callers -> Seq(Line)] /\ gone' \in BOOLEAN
      /\ retried' \in [Callers -> BOOLEAN] /\ shaken' \in [Callers -> BOOLEAN]
      /\ UNCHANGED <<up, closing, asked>>
      /\ \A d \in Callers : d # c => held'[d] = held[d] /\ answer'[d] = answer[d]
  BY <1>1 DEF Return, Types
<1>5. Types'
  BY <1>1, <1>2, <1>3, <1>4 DEF Types
<1>6. CallerOK(c)'
  BY <1>1, <1>2, <1>3, <1>4, NoSockType DEF CallerOK, Holds, SetUpOK, ReadOK
<1>7. ASSUME NEW d \in Callers, d # c PROVE CallerOK(d)'
  <2>1. CallerOK(d) /\ d \in Ends /\ d # held[c]
    BY <1>1, QueryAssumption DEF Orderly, Ends
  <2>2. pc[d] # "idle" => /\ held[d] \in Ends /\ held[d] # held[c]
                          /\ sock'[held[d]] = sock[held[d]] /\ held[d] \notin idle'
    BY <1>1, <1>2, <1>4, <1>7, Held
  <2> QED
    BY <1>2, <1>3, <1>4, <1>7, <2>1, <2>2, Untouched
<1>8. ASSUME NEW e \in Entries PROVE EntryOK(e)'
  <2>1. EntryOK(e) /\ e \in Ends
    BY DEF Orderly, Ends
  <2> QED
    BY <1>1, <1>2, <1>4, <2>1 DEF EntryOK
<1>9. Apart'
  <2> SUFFICES ASSUME NEW d \in Callers, NEW k \in Callers, pc'[d] # "idle", pc'[k] # "idle",
                      held'[d] = held'[k]
               PROVE  d = k
    BY DEF Apart
  <2>1. d # c /\ k # c
    BY <1>3
  <2>2. pc[d] # "idle" /\ pc[k] # "idle" /\ held[d] = held[k]
    BY <1>3, <1>4, <2>1
  <2> QED
    BY <2>2 DEF Orderly, Apart
<1> QED
  BY <1>5, <1>6, <1>7, <1>8, <1>9 DEF Orderly

LEMMA CallKeeps ==
  ASSUME Orderly, NEW c \in Callers, NEW e \in Entries, NEW p \in Protocols, Call(c, e, p)
  PROVE  Orderly'
<1>1. /\ Types /\ CallerOK(c) /\ c \in Ends /\ pc[c] = "idle" /\ e \in idle /\ EntryOK(e)
      /\ e \in Ends /\ sock' = sock
  BY DEF Orderly, Call, Ends
<1> DEFINE place == IF sock[e] = NoSock THEN "dial" ELSE "ask"
<1>2. place \in {"dial", "ask"} /\ Go(c, place)
  BY DEF Call
<1> HIDE DEF place
<1>3. /\ pc' \in [Callers -> Place] /\ pc'[c] = place
      /\ \A d \in Callers : d # c => pc'[d] = pc[d]
  BY <1>1, <1>2, GoFacts DEF Place
<1>4. /\ idle' = idle \ {e} /\ held'[c] = e /\ held' \in [Callers -> Entries \cup {None}]
      /\ \A d \in Callers : d # c => held'[d] = held[d]
      /\ UNCHANGED <<up, closing, gone, sock, answer, retried>>
  BY <1>1 DEF Call, Types
<1>5. asked' \in [Callers -> Command] /\ \A d \in Callers : d # c => asked'[d] = asked[d]
  <2> DEFINE q == [by |-> c, turn |-> Turn(c, e), about |-> p]
  <2>1. Turn(c, e) \in 0 .. 1
    BY DEF Turn
  <2>2. q \in Command
    BY <2>1 DEF Command
  <2>3. asked' = [asked EXCEPT ![c] = q]
    BY <1>1 DEF Call, Types
  <2> HIDE DEF q
  <2> QED
    BY <1>1, <2>2, <2>3 DEF Types
<1>6. shaken' \in [Callers -> BOOLEAN]
  BY <1>1 DEF Call, Types
<1>7. Types'
  BY <1>1, <1>3, <1>4, <1>5, <1>6 DEF Types
<1>8. Holds(c)'
  BY <1>1, <1>4 DEF EntryOK, Holds
<1>9. SetUpOK(c)' /\ ReadOK(c)'
  BY <1>1, <1>2, <1>3, <1>4, NoSockType DEF CallerOK, SetUpOK, SettingUp, ReadOK
<1>10. ASSUME NEW d \in Callers, d # c PROVE CallerOK(d)' /\ (pc[d] # "idle" => held[d] # e)
  <2>1. CallerOK(d) /\ (pc[d] # "idle" => held[d] \notin idle)
    BY Held DEF Orderly
  <2> QED
    BY <1>1, <1>3, <1>4, <1>5, <1>10, <2>1, Untouched
<1>11. ASSUME NEW f \in Entries PROVE EntryOK(f)'
  <2>1. EntryOK(f)
    BY DEF Orderly
  <2> QED
    BY <1>4, <2>1 DEF EntryOK
<1>12. Apart'
  BY <1>1, <1>3, <1>4, <1>10 DEF Orderly, Apart
<1> QED
  BY <1>7, <1>8, <1>9, <1>10, <1>11, <1>12 DEF Orderly, CallerOK

-----------------------------------------------------------------------------
(* The steps around the calls.                                             *)
LEMMA AroundKeeps ==
  ASSUME Orderly, sock' \in [Ends -> Sock], UNCHANGED <<gone, idle, pc, held, asked, answer, retried>>,
         up' \in BOOLEAN, closing' \in Stage, shaken' \in [Callers -> BOOLEAN],
         \A c \in Callers : /\ sock'[c].stream = sock[c].stream
                            /\ sock'[c].strict = sock[c].strict
                            /\ sock[c] = NoSock => sock'[c] = NoSock,
         \A e \in Entries : /\ sock'[e].open =>
                                 sock[e].open /\ sock'[e].strict = sock[e].strict
                            /\ \/ sock'[e].stream = <<>>
                               \/ /\ sock'[e].stream = sock[e].stream
                                  /\ sock'[e].strict = sock[e].strict
  PROVE  Orderly'
<1>1. Types'
  BY DEF Orderly, Types
<1>2. Apart'
  BY DEF Orderly, Apart
<1>3. ASSUME NEW e \in Entries PROVE EntryOK(e)'
  BY DEF Orderly, EntryOK
<1>4. ASSUME NEW c \in Callers PROVE CallerOK(c)'
  <2>1. CallerOK(c)
    BY DEF Orderly
  <2>2. Holds(c)'
    BY <2>1 DEF CallerOK, Holds
  <2>3. SetUpOK(c)'
    <3>1. /\ SetUpOK(c) /\ sock'[c].stream = sock[c].stream /\ sock'[c].strict = sock[c].strict
          /\ sock[c] = NoSock => sock'[c] = NoSock
      BY <2>1 DEF CallerOK
    <3> QED
      BY <3>1 DEF SetUpOK
  <2>4. ReadOK(c)'
    <3>1. CASE pc[c] # "read"
      BY <2>1, <3>1 DEF CallerOK, ReadOK
    <3>2. CASE pc[c] = "read"
      <4>1. /\ held[c] \in Entries /\ answer[c] \in Seq(Line)
            /\ sock[held[c]].stream \in Seq(Line) /\ asked[c] \in Sent
        BY <3>2, Held DEF Orderly, Types, Sent, Sock
      <4>2. Split(answer[c], sock'[held[c]].stream, Reply(asked[c]))
        BY <2>1, <3>2, <4>1, ReplyFacts, SplitCut DEF CallerOK, ReadOK
      <4> QED
        BY <3>2, <4>2 DEF ReadOK
    <3> QED
      BY <3>1, <3>2
  <2> QED
    BY <2>2, <2>3, <2>4 DEF CallerOK
<1> QED
  BY <1>1, <1>2, <1>3, <1>4 DEF Orderly

LEMMA GoDownKeeps ==
  ASSUME Orderly, GoDown
  PROVE  Orderly'
<1>1. Types /\ DOMAIN sock = Ends
  BY DEF Orderly, Types
<1>2. ASSUME NEW k \in Ends
      PROVE  /\ sock'[k] \in Sock /\ ~ sock'[k].open
             /\ sock'[k].stream = sock[k].stream /\ sock'[k].strict = sock[k].strict
             /\ sock[k] = NoSock => sock'[k] = NoSock
  <2>1. sock[k] \in Sock /\ sock'[k] = [sock[k] EXCEPT !.open = FALSE]
    BY <1>1 DEF Types, GoDown
  <2>2. /\ sock'[k] \in Sock /\ ~ sock'[k].open
        /\ sock'[k].stream = sock[k].stream /\ sock'[k].strict = sock[k].strict
    BY <2>1 DEF Sock
  <2>3. [NoSock EXCEPT !.open = FALSE] = NoSock
    <3>1. NoSock.open = FALSE
      BY DEF NoSock
    <3> QED
      BY <3>1, NoSockType DEF Sock
  <2> QED
    BY <2>1, <2>2, <2>3
<1>3. sock' \in [Ends -> Sock]
  BY <1>1, <1>2 DEF GoDown
<1>4. shaken' \in [Callers -> BOOLEAN] /\ up' \in BOOLEAN /\ closing' \in Stage
  BY <1>1 DEF GoDown, Disturbed, Types
<1>5. UNCHANGED <<gone, idle, pc, held, asked, answer, retried>>
  BY DEF GoDown
<1> QED
  BY <1>2, <1>3, <1>4, <1>5, AroundKeeps DEF Ends

LEMMA SweepKeeps ==
  ASSUME Orderly, Sweep
  PROVE  Orderly'
<1>1. Types /\ DOMAIN sock = Ends
  BY DEF Orderly, Types
<1>2. /\ \A e \in Entries : sock'[e] = NoSock
      /\ \A c \in Callers : sock'[c] = sock[c]
  BY <1>1, QueryAssumption DEF Sweep, Ends
<1>3. sock' \in [Ends -> Sock]
  BY <1>1, NoSockType DEF Sweep, Types
<1>4. shaken' \in [Callers -> BOOLEAN] /\ up' \in BOOLEAN /\ closing' \in Stage
  BY <1>1 DEF Sweep, Disturbed, Stage, Types
<1>5. UNCHANGED <<gone, idle, pc, held, asked, answer, retried>>
  BY DEF Sweep
<1> QED
  BY <1>2, <1>3, <1>4, <1>5, NoSockType, AroundKeeps

LEMMA PruneKeeps ==
  ASSUME Orderly, NEW e \in Entries, Prune(e)
  PROVE  Orderly'
<1>1. Types
  BY DEF Orderly
<1>2. /\ sock' \in [Ends -> Sock] /\ sock'[e] = NoSock
      /\ \A k \in Ends : k # e => sock'[k] = sock[k]
  BY <1>1, NoSockType DEF Prune, Types, Ends
<1>3. up' \in BOOLEAN /\ closing' \in Stage /\ shaken' \in [Callers -> BOOLEAN]
      /\ UNCHANGED <<gone, idle, pc, held, asked, answer, retried>>
  BY <1>1 DEF Prune, callVars, Types
<1>4. \A c \in Callers : sock'[c] = sock[c]
  BY <1>2, QueryAssumption DEF Ends
<1> QED
  BY <1>2, <1>3, <1>4, NoSockType, AroundKeeps DEF Ends

LEMMA QuietKeeps ==
  ASSUME Orderly, up' \in BOOLEAN, closing' \in Stage,
         UNCHANGED <<gone, sock, idle, pc, held, asked, answer, retried, shaken>>
  PROVE  Orderly'
<1>1. Types
  BY DEF Orderly
<1>2. /\ shaken' \in [Callers -> BOOLEAN] /\ sock' \in [Ends -> Sock]
      /\ UNCHANGED <<gone, idle, pc, held, asked, answer, retried>> /\ sock' = sock
  BY <1>1 DEF Types
<1> QED
  BY <1>2, AroundKeeps

-----------------------------------------------------------------------------
LEMMA InitOrderly == QueryInit => Orderly
<1> SUFFICES ASSUME QueryInit PROVE Orderly
  OBVIOUS
<1>1. sock \in [Ends -> Sock] /\ \A k \in Ends : sock[k] = NoSock
  BY NoSockType DEF QueryInit, Ends
<1>2. asked \in [Callers -> Command]
  <2>1. (CHOOSE p \in Protocols : TRUE) \in Protocols
    BY QueryAssumption
  <2> QED
    BY <2>1 DEF QueryInit, Command
<1>3. Types
  <2>1. pc \in [Callers -> Place]
    BY DEF QueryInit, Place
  <2>2. answer \in [Callers -> Seq(Line)]
    BY DEF QueryInit
  <2>3. /\ up \in BOOLEAN /\ closing \in Stage /\ gone \in BOOLEAN /\ idle \subseteq Entries
        /\ held \in [Callers -> Entries \cup {None}]
        /\ retried \in [Callers -> BOOLEAN] /\ shaken \in [Callers -> BOOLEAN]
    BY DEF QueryInit, Stage
  <2> QED
    BY <1>1, <1>2, <2>1, <2>2, <2>3 DEF Types
<1>4. Apart
  BY DEF QueryInit, Apart
<1>5. ASSUME NEW e \in Entries PROVE EntryOK(e)
  BY <1>1, NoSockType DEF EntryOK, Ends
<1>6. ASSUME NEW c \in Callers PROVE CallerOK(c)
  BY <1>1, NoSockType DEF QueryInit, CallerOK, Holds, SetUpOK, ReadOK, Ends
<1> QED
  BY <1>3, <1>4, <1>5, <1>6 DEF Orderly

LEMMA OrderlyStep ==
  ASSUME Orderly, [QueryNext]_queryVars
  PROVE  Orderly'
<1>0. up \in BOOLEAN /\ closing \in Stage
  BY DEF Orderly, Types
<1>1. CASE UNCHANGED queryVars
  <2>1. UNCHANGED <<up, closing, gone, sock, idle, pc, held, asked, answer, retried, shaken>>
    BY <1>1 DEF queryVars, callVars
  <2> QED
    BY <1>0, <2>1, QuietKeeps
<1>2. ASSUME NEW c \in Callers, CallStep(c) PROVE Orderly'
  BY <1>2, DialKeeps, GreetKeeps, RestrictKeeps, ConfirmedKeeps, SwapKeeps, AskKeeps,
     ReadLineKeeps, ReadEndsKeeps, ReturnKeeps DEF CallStep
<1>3. ASSUME NEW c \in Callers, NEW e \in Entries, NEW p \in Protocols, Call(c, e, p)
      PROVE  Orderly'
  BY <1>3, CallKeeps
<1>4. CASE GoDown \/ Sweep \/ \E e \in Entries : Prune(e)
  BY <1>4, GoDownKeeps, SweepKeeps, PruneKeeps
<1>5. CASE ComeUp
  BY <1>0, <1>5, QuietKeeps DEF ComeUp, callVars
<1>6. ASSUME NEW c \in Callers, Blocked(c) \/ Refused(c) PROVE Orderly'
  BY <1>0, <1>6, QuietKeeps DEF Blocked, Refused
<1>7. ASSUME NEW late \in SUBSET Callers, LockPool(late) PROVE Orderly'
  BY <1>0, <1>7, QuietKeeps DEF LockPool, Stage
<1> QED
  BY <1>1, <1>2, <1>3, <1>4, <1>5, <1>6, <1>7 DEF QueryNext

LEMMA OrderlyInvariant == QuerySpec => []Orderly
  BY InitOrderly, OrderlyStep, PTL DEF QuerySpec

(* Every variable keeps its type, and a caller that is not setting up a    *)
(* connection has none beside its entry's: one that is refused is closed.  *)
THEOREM QueryTypes == QuerySpec => []QueryTypeOK
<1> DEFINE Waiting == atLock \subseteq Callers
<1>1. Orderly /\ Waiting => QueryTypeOK
  BY DEF Orderly, Types, Ends, Sock, CallerOK, SetUpOK, QueryTypeOK
<1>2. QueryInit => Waiting
  BY DEF QueryInit
<1>3. Waiting /\ [QueryNext]_queryVars => Waiting'
  BY DEF QueryNext, CallStep, Dial, Greet, RestrictConn, Confirmed, Swap, Ask, ReadLine,
         ReadEnds, Return, Call, Blocked, Refused, GoDown, ComeUp, Prune, LockPool, Sweep,
         queryVars, callVars
<1> HIDE DEF Waiting
<1> QED
  BY <1>1, <1>2, <1>3, OrderlyInvariant, PTL DEF QuerySpec

(* For any number of callers and pooled connections, and whatever BIRD     *)
(* prints, goes down or is reached again in between, what a caller reads   *)
(* is the beginning of the reply to its own command (conn.go:32-67).       *)
THEOREM AnswersAreOwn == QuerySpec => []OwnAnswer
<1>1. ASSUME Orderly, NEW c \in Callers, pc[c] # "idle"
      PROVE  IsPrefix(answer[c], Reply(asked[c]))
  <2>1. /\ CallerOK(c) /\ answer[c] \in Seq(Line) /\ asked[c] \in Sent
        /\ sock[held[c]].stream \in Seq(Line)
    BY <1>1, Held DEF Orderly, Types, Sent, Sock
  <2>2. Reply(asked[c]) \in Seq(Line) /\ Len(Reply(asked[c])) \in Nat
    BY <2>1, ReplyFacts
  <2>3. CASE pc[c] = "read"
    BY <2>1, <2>2, <2>3, SplitPrefix DEF CallerOK, ReadOK
  <2>4. CASE pc[c] = "done"
    <3>1. <<>> \in Seq(Line)
      OBVIOUS
    <3> QED
      BY <2>1, <2>2, <2>4, <3>1, SplitPrefix DEF CallerOK, ReadOK
  <2>5. CASE pc[c] \notin {"read", "done"}
    <3>1. answer[c] = <<>>
      BY <2>1, <2>5 DEF CallerOK, ReadOK
    <3>2. Split(<<>>, <<>>, Reply(asked[c])) /\ <<>> \in Seq(Line)
      BY <2>2 DEF Split
    <3> QED
      BY <2>2, <3>1, <3>2, SplitPrefix
  <2> QED
    BY <2>3, <2>4, <2>5
<1>2. Orderly => OwnAnswer
  BY <1>1 DEF OwnAnswer
<1> QED
  BY <1>2, OrderlyInvariant, PTL

(* Whatever fails while connections are made, replaced and dropped, no     *)
(* command of a caller reaches BIRD on a connection that was not           *)
(* restricted first (bird.go:185-195).                                     *)
THEOREM OnlyOnRestricted == QuerySpec => []OnlyRestricted
<1>1. ASSUME Orderly, NEW k \in DOMAIN sock, NEW i \in DOMAIN sock[k].stream,
             sock[k].stream[i].of.by # None
      PROVE  sock[k].strict
  <2>1. k \in Ends /\ sock[k].stream \in Seq(Line)
    BY <1>1 DEF Orderly, Types, Sock
  <2>2. sock[k].stream # <<>> /\ i \in 1 .. Len(sock[k].stream)
    BY <2>1
  <2>3. CASE k \in Entries
    BY <1>1, <2>2, <2>3 DEF Orderly, EntryOK
  <2>4. CASE k \in Callers
    BY <1>1, <2>2, <2>4 DEF Orderly, CallerOK, SetUpOK
  <2> QED
    BY <2>1, <2>3, <2>4 DEF Ends
<1>2. Orderly => OnlyRestricted
  BY <1>1 DEF OnlyRestricted
<1> QED
  BY <1>2, OrderlyInvariant, PTL

-----------------------------------------------------------------------------
(* Calls that nothing has disturbed.                                       *)
(* What such a call cannot run into: a dead connection of its own making,  *)
(* a banner where the confirmation should be, a second failed write, the   *)
(* end of the connection before that of the reply.                         *)
Steady(c) ==
  pc[c] # "idle" /\ ~ shaken[c] =>
    /\ up
    /\ pc[c] # "failed"
    /\ pc[c] \in SettingUp => sock[c].open
    /\ pc[c] = "confirm" => \A i \in 1 .. Len(sock[c].stream) : sock[c].stream[i].of = Confirm
    /\ pc[c] = "ask" /\ retried[c] => sock[held[c]].open
    /\ pc[c] = "read" =>
         /\ sock[held[c]].open
         /\ Len(answer[c]) + Len(sock[held[c]].stream) = Len(Reply(asked[c]))
    /\ pc[c] = "done" => Len(answer[c]) = Len(Reply(asked[c]))

(* A call begins with its retry before it.                                 *)
Rested(c) == pc[c] = "idle" => ~ retried[c]

Undisturbed == Orderly /\ \A c \in Callers : Steady(c) /\ Rested(c)

-----------------------------------------------------------------------------
(* A step of one call, seen by the others.                                 *)
LEMMA CallTouches ==
  ASSUME Orderly, NEW c \in Callers, CallStep(c)
  PROVE  /\ pc[c] # "idle" /\ up' = up
         /\ \A k \in Ends : k \notin {c, held[c]} => sock'[k] = sock[k]
         /\ \A d \in Callers : d # c =>
              /\ pc'[d] = pc[d] /\ held'[d] = held[d] /\ asked'[d] = asked[d]
              /\ answer'[d] = answer[d] /\ retried'[d] = retried[d] /\ shaken'[d] = shaken[d]
<1>1. Types
  BY DEF Orderly
<1>2. CASE Dial(c)
  BY <1>1, <1>2 DEF Types, Dial, Go
<1>3. CASE Greet(c)
  BY <1>1, <1>3 DEF Types, Greet, Go
<1>4. CASE RestrictConn(c)
  BY <1>1, <1>4 DEF Types, RestrictConn, Go, Write
<1>5. CASE Confirmed(c)
  BY <1>1, <1>5 DEF Types, Confirmed, Go
<1>6. CASE Swap(c)
  BY <1>1, <1>6 DEF Types, Swap, Go
<1>7. CASE Ask(c)
  BY <1>1, <1>7 DEF Types, Ask, Go, Write
<1>8. CASE ReadLine(c)
  BY <1>1, <1>8 DEF Types, ReadLine, Go
<1>9. CASE ReadEnds(c)
  BY <1>1, <1>9 DEF Types, ReadEnds, Go
<1>10. CASE Return(c)
  BY <1>1, <1>10 DEF Types, Return, Go
<1> QED
  BY <1>2, <1>3, <1>4, <1>5, <1>6, <1>7, <1>8, <1>9, <1>10 DEF CallStep

(* A caller whose variables and connections stay as they are.              *)
LEMMA LeftAlone ==
  ASSUME Undisturbed, NEW d \in Callers, up' = up,
         pc'[d] = pc[d], held'[d] = held[d], asked'[d] = asked[d],
         answer'[d] = answer[d], retried'[d] = retried[d], shaken'[d] = shaken[d],
         sock'[d] = sock[d],
         pc[d] # "idle" => sock'[held[d]] = sock[held[d]]
  PROVE  Steady(d)' /\ Rested(d)'
<1>1. Steady(d) /\ Rested(d)
  BY DEF Undisturbed
<1>2. Steady(d)'
  BY <1>1 DEF Steady
<1>3. Rested(d)'
  BY <1>1 DEF Rested
<1> QED
  BY <1>2, <1>3

LEMMA OthersSteady ==
  ASSUME Undisturbed, NEW c \in Callers, CallStep(c), NEW d \in Callers, d # c
  PROVE  Steady(d)' /\ Rested(d)'
<1>1. Orderly
  BY DEF Undisturbed
<1>2. pc[c] # "idle" /\ held[c] \in Entries
  BY <1>1, CallTouches, Held
<1>3. sock'[d] = sock[d]
  BY <1>1, <1>2, CallTouches, QueryAssumption DEF Ends
<1>4. pc[d] # "idle" => sock'[held[d]] = sock[held[d]]
  BY <1>1, <1>2, CallTouches, Held, QueryAssumption DEF Ends
<1> QED
  BY <1>1, <1>3, <1>4, CallTouches, LeftAlone

-----------------------------------------------------------------------------
(* A call's own steps.                                                     *)
LEMMA OwnFacts ==
  ASSUME Undisturbed, NEW c \in Callers, CallStep(c)
  PROVE  /\ Orderly /\ Types /\ pc[c] # "idle" /\ CallerOK(c) /\ Steady(c) /\ up' = up
         /\ c \in Ends /\ held[c] \in Ends /\ held[c] # c
         /\ asked[c] \in Sent /\ answer[c] \in Seq(Line) /\ retried[c] \in BOOLEAN
<1>1. Orderly /\ Types /\ Steady(c)
  BY DEF Undisturbed, Orderly
<1>2. pc[c] # "idle" /\ up' = up
  BY <1>1, CallTouches
<1> QED
  BY <1>1, <1>2, Held DEF Types, Sent

LEMMA DialSteady ==
  ASSUME Undisturbed, NEW c \in Callers, CallStep(c), Dial(c)
  PROVE  Steady(c)' /\ Rested(c)'
<1>1. Types /\ c \in Ends /\ pc[c] = "dial" /\ Steady(c)
  BY OwnFacts DEF Dial
<1>2. CASE up /\ sock' = [sock EXCEPT ![c] = Fresh] /\ Go(c, "greet")
  <2>1. pc'[c] = "greet" /\ sock'[c] = Fresh /\ up' = up
    BY <1>1, <1>2 DEF Dial, Go, Types
  <2>2. sock'[c].open
    BY <2>1 DEF Fresh
  <2> QED
    BY <1>2, <2>1, <2>2 DEF Steady, Rested
<1>3. CASE ~ up /\ Go(c, "failed")
  BY <1>1, <1>3 DEF Dial, Go, Types, Steady, Rested
<1> QED
  BY <1>2, <1>3 DEF Dial

LEMMA GreetSteady ==
  ASSUME Undisturbed, NEW c \in Callers, CallStep(c), Greet(c)
  PROVE  Steady(c)' /\ Rested(c)'
<1>1. Types /\ c \in Ends /\ pc[c] = "greet" /\ Steady(c) /\ up' = up
  BY OwnFacts DEF Greet
<1>2. sock'[c].open = sock[c].open
  <2>1. CASE Receives(c) /\ sock' = [sock EXCEPT ![c].stream = Tail(@)]
    BY <1>1, <2>1, ReceiveFacts
  <2>2. CASE sock' = [sock EXCEPT ![c].stream = <<>>]
    BY <1>1, <2>2, DropFacts
  <2> QED
    BY <2>1, <2>2 DEF Greet
<1>3. pc'[c] = "restrict" /\ shaken' = shaken
  BY <1>1 DEF Greet, Go, Types
<1> QED
  BY <1>1, <1>2, <1>3 DEF Steady, Rested, SettingUp

LEMMA RestrictSteady ==
  ASSUME Undisturbed, NEW c \in Callers, CallStep(c), RestrictConn(c)
  PROVE  Steady(c)' /\ Rested(c)'
<1>1. Types /\ c \in Ends /\ pc[c] = "restrict" /\ Steady(c) /\ up' = up
      /\ sock[c].stream = <<>> /\ shaken' = shaken
  BY OwnFacts DEF RestrictConn, CallerOK, SetUpOK
<1>2. CASE Write(c, Confirm) /\ Go(c, "confirm")
  <2> DEFINE s == sock'[c].stream
  <2>1. Confirm \in Sent /\ Confirm.by = None
    BY DEF Sent, Confirm
  <2>2. sock'[c].open /\ s = <<>> \o Reply(Confirm)
    BY <1>1, <1>2, <2>1, WriteFacts
  <2>3. s = Reply(Confirm)
    BY <2>1, <2>2, SingleLine
  <2>4. \A i \in 1 .. Len(s) : s[i].of = Confirm
    BY <2>1, <2>3, ReplyFacts
  <2>5. pc'[c] = "confirm"
    BY <1>1, <1>2 DEF Go, Types
  <2> QED
    BY <1>1, <2>2, <2>4, <2>5 DEF Steady, Rested
<1>3. CASE ~ sock[c].open /\ Go(c, "failed")
  BY <1>1, <1>3 DEF Go, Types, Steady, Rested, SettingUp
<1> QED
  BY <1>2, <1>3 DEF RestrictConn

LEMMA ConfirmedSteady ==
  ASSUME Undisturbed, NEW c \in Callers, CallStep(c), Confirmed(c)
  PROVE  Steady(c)' /\ Rested(c)'
<1>1. Types /\ c \in Ends /\ pc[c] = "confirm" /\ Steady(c) /\ up' = up /\ shaken' = shaken
  BY OwnFacts DEF Confirmed
<1>2. CASE Receives(c) /\ sock' = [sock EXCEPT ![c].stream = Tail(@)] /\ Go(c, "swap")
  <2>1. sock'[c].open = sock[c].open
    BY <1>1, <1>2, ReceiveFacts
  <2>2. pc'[c] = "swap"
    BY <1>1, <1>2 DEF Go, Types
  <2> QED
    BY <1>1, <2>1, <2>2 DEF Steady, Rested, SettingUp
<1>3. CASE /\ AtEnd(c) \/ (Receives(c) /\ Next1(c).of # Confirm)
           /\ Go(c, "failed")
  <2>1. pc'[c] = "failed"
    BY <1>1, <1>3 DEF Go, Types
  <2>2. Receives(c) => 1 \in 1 .. Len(sock[c].stream) /\ Next1(c) = sock[c].stream[1]
    BY <1>1 DEF Receives, Next1, Types, Sock
  <2>3. shaken[c]
    BY <1>1, <1>3, <2>2 DEF Steady, AtEnd, SettingUp
  <2> QED
    BY <1>1, <2>1, <2>3 DEF Steady, Rested
<1> QED
  BY <1>2, <1>3 DEF Confirmed

LEMMA SwapSteady ==
  ASSUME Undisturbed, NEW c \in Callers, CallStep(c), Swap(c)
  PROVE  Steady(c)' /\ Rested(c)'
<1>1. /\ Types /\ c \in Ends /\ held[c] \in Ends /\ held[c] # c
      /\ pc[c] = "swap" /\ Steady(c) /\ up' = up
      /\ UNCHANGED <<held, shaken, retried>>
  BY OwnFacts DEF Swap
<1>2. sock'[held[c]] = sock[c] /\ pc'[c] = "ask"
  BY <1>1 DEF Swap, Go, Types
<1> QED
  BY <1>1, <1>2 DEF Steady, Rested, SettingUp

LEMMA AskSteady ==
  ASSUME Undisturbed, NEW c \in Callers, CallStep(c), Ask(c)
  PROVE  Steady(c)' /\ Rested(c)'
<1>1. /\ Types /\ held[c] \in Ends /\ pc[c] = "ask" /\ Steady(c) /\ up' = up
      /\ asked[c] \in Sent /\ answer[c] = <<>> /\ sock[held[c]].stream = <<>>
      /\ UNCHANGED <<held, asked, answer, shaken>>
  BY OwnFacts DEF Ask, CallerOK, Holds, ReadOK
<1>2. CASE Write(held[c], asked[c]) /\ Go(c, "read")
  <2> DEFINE r == Reply(asked[c])
  <2>1. sock'[held[c]].open /\ sock'[held[c]].stream = <<>> \o r
    <3> DEFINE e == held[c]
               q == asked[c]
    <3>1. Types /\ e \in Ends /\ q \in Sent /\ Write(e, q) /\ sock[e].stream = <<>>
      BY <1>1, <1>2
    <3> HIDE DEF e, q
    <3>2. sock'[e].open /\ sock'[e].stream = <<>> \o Reply(q)
      BY <3>1, WriteFacts
    <3> QED
      BY <3>2 DEF e, q
  <2>2. r \in Seq(Line)
    BY <1>1, ReplyFacts
  <2>3. pc'[c] = "read" /\ Reply(asked[c])' = r
    BY <1>1, <1>2 DEF Go, Types
  <2> HIDE DEF r
  <2>4. <<>> \o r = r /\ Len(<<>>) + Len(r) = Len(r)
    BY <2>2
  <2>5. /\ sock'[held'[c]].open
        /\ Len(answer'[c]) + Len(sock'[held'[c]].stream) = Len(Reply(asked[c])')
    <3>1. answer'[c] = <<>> /\ held'[c] = held[c]
      BY <1>1
    <3>2. sock'[held'[c]].stream = r
      BY <2>1, <2>4, <3>1
    <3> QED
      BY <2>1, <2>3, <2>4, <3>1, <3>2
  <2>6. ~ shaken'[c] => up'
    BY <1>1 DEF Steady
  <2> QED
    BY <2>3, <2>5, <2>6 DEF Steady, Rested, SettingUp
<1>3. CASE /\ ~ sock[held[c]].open
           /\ Go(c, IF retried[c] THEN "failed" ELSE "dial")
  <2>1. /\ pc'[c] \in {"failed", "dial"}
        /\ ~ retried[c] => pc'[c] = "dial"
    BY <1>1, <1>3 DEF Go, Types
  <2>2. ~ shaken[c] => ~ retried[c] /\ up
    BY <1>1, <1>3 DEF Steady
  <2>3. Rested(c)'
    BY <2>1 DEF Rested
  <2>4. shaken'[c] = shaken[c]
    BY <1>1
  <2>5. Steady(c)'
    BY <1>1, <2>1, <2>2, <2>4 DEF Steady, SettingUp
  <2> QED
    BY <2>3, <2>5
<1> QED
  BY <1>2, <1>3 DEF Ask

LEMMA ReadLineSteady ==
  ASSUME Undisturbed, NEW c \in Callers, CallStep(c), ReadLine(c)
  PROVE  Steady(c)' /\ Rested(c)'
<1> DEFINE e == held[c]
           s == sock[e].stream
           t == sock'[e].stream
           a == answer[c]
           r == Reply(asked[c])
<1>1. /\ Types /\ e \in Ends /\ pc[c] = "read" /\ Steady(c) /\ up' = up
      /\ asked[c] \in Sent /\ a \in Seq(Line) /\ Split(a, s, r)
      /\ UNCHANGED <<held, asked, shaken>>
  BY OwnFacts DEF ReadLine, CallerOK, ReadOK
<1>2. /\ sock'[e].open = sock[e].open /\ s \in Seq(Line)
      /\ Len(s) \in Nat /\ Len(s) >= 1 /\ t \in Seq(Line) /\ Len(t) = Len(s) - 1
      /\ Next1(e) = s[1] /\ s[1] \in Line
      /\ \A i \in 1 .. (Len(s) - 1) : t[i] = s[i + 1]
  BY <1>1, ReceiveFacts DEF ReadLine, Types, Sock
<1>3. /\ r \in Seq(Line) /\ Len(r) \in Nat
      /\ \A i \in 1 .. Len(r) : r[i].last <=> i = Len(r)
  BY <1>1, ReplyFacts
<1>4. /\ answer'[c] = Append(a, s[1])
      /\ pc'[c] = IF s[1].last THEN "done" ELSE "read"
      /\ held'[c] = e /\ sock'[e].stream = t /\ Reply(asked[c])' = r
  BY <1>1, <1>2 DEF ReadLine, Go, Types
<1>5. ~ shaken[c] => up /\ sock[e].open /\ Len(a) + Len(s) = Len(r)
  BY <1>1 DEF Steady
<1> HIDE DEF e, s, t, a, r
<1>6. /\ s[1] = r[Len(a) + 1] /\ Len(a) \in Nat
      /\ Len(Append(a, s[1])) = Len(a) + 1 /\ Len(a) + Len(s) <= Len(r)
  BY <1>1, <1>2, <1>3, SplitNext DEF Split
<1>7. s[1].last <=> Len(a) + 1 = Len(r)
  BY <1>2, <1>3, <1>6
<1>8. ASSUME ~ shaken[c]
      PROVE  Len(Append(a, s[1])) + Len(t) = Len(r)
  <2>1. Len(a) + Len(s) = Len(r)
    BY <1>5, <1>8
  <2> QED
    BY <1>2, <1>3, <1>6, <2>1
<1>9. CASE s[1].last
  <2>1. pc'[c] = "done" /\ shaken'[c] = shaken[c]
    BY <1>1, <1>4, <1>9
  <2>2. Len(answer'[c]) = Len(Reply(asked[c])')
    BY <1>4, <1>6, <1>7, <1>9
  <2> QED
    BY <1>1, <1>5, <2>1, <2>2 DEF Steady, Rested, SettingUp
<1>10. CASE ~ s[1].last
  <2>1. /\ pc'[c] = "read" /\ held'[c] = e /\ shaken'[c] = shaken[c]
        /\ sock'[e].open = sock[e].open
    BY <1>1, <1>2, <1>4, <1>10 DEF e
  <2>2. ~ shaken[c] => Len(answer'[c]) + Len(sock'[held'[c]].stream) = Len(Reply(asked[c])')
    BY <1>4, <1>8
  <2> QED
    BY <1>1, <1>5, <2>1, <2>2 DEF Steady, Rested, SettingUp
<1> QED
  BY <1>9, <1>10

LEMMA ReadEndsSteady ==
  ASSUME Undisturbed, NEW c \in Callers, CallStep(c), ReadEnds(c)
  PROVE  Steady(c)' /\ Rested(c)'
<1>1. /\ Types /\ pc[c] = "read" /\ Steady(c) /\ ~ sock[held[c]].open
      /\ shaken' = shaken
  BY OwnFacts DEF ReadEnds, AtEnd
<1>2. pc'[c] = "done"
  BY <1>1 DEF ReadEnds, Go, Types
<1>3. shaken[c]
  BY <1>1 DEF Steady
<1> QED
  BY <1>1, <1>2, <1>3 DEF Steady, Rested

LEMMA ReturnSteady ==
  ASSUME Undisturbed, NEW c \in Callers, CallStep(c), Return(c)
  PROVE  Steady(c)' /\ Rested(c)'
<1>1. Types
  BY OwnFacts
<1>2. pc'[c] = "idle" /\ retried'[c] = FALSE
  BY <1>1 DEF Return, Go, Types
<1> QED
  BY <1>2 DEF Steady, Rested

LEMMA CallStepSteady ==
  ASSUME Undisturbed, NEW c \in Callers, CallStep(c), NEW d \in Callers
  PROVE  Steady(d)' /\ Rested(d)'
<1>1. CASE d # c
  BY <1>1, OthersSteady
<1>2. Steady(c)' /\ Rested(c)'
  BY DialSteady, GreetSteady, RestrictSteady, ConfirmedSteady, SwapSteady, AskSteady,
     ReadLineSteady, ReadEndsSteady, ReturnSteady DEF CallStep
<1> QED
  BY <1>1, <1>2

-----------------------------------------------------------------------------
(* The steps around the calls.                                             *)
LEMMA CallSteady ==
  ASSUME Undisturbed, NEW c \in Callers, NEW e \in Entries, NEW p \in Protocols,
         Call(c, e, p), NEW d \in Callers
  PROVE  Steady(d)' /\ Rested(d)'
<1>1. /\ Types /\ pc[c] = "idle" /\ Rested(c) /\ up' = up /\ sock' = sock
      /\ UNCHANGED <<answer, retried>>
  BY DEF Undisturbed, Orderly, Call
<1>2. CASE d # c
  <2>1. /\ pc'[d] = pc[d] /\ held'[d] = held[d] /\ asked'[d] = asked[d]
        /\ shaken'[d] = shaken[d]
    BY <1>1, <1>2 DEF Call, Go, Types
  <2> QED
    BY <1>1, <2>1, LeftAlone
<1>3. CASE d = c
  <2>1. pc'[c] \in {"dial", "ask"} /\ shaken'[c] = ~ up
    BY <1>1 DEF Call, Go, Types
  <2> QED
    BY <1>1, <1>3, <2>1 DEF Steady, Rested, SettingUp
<1> QED
  BY <1>2, <1>3

(* Who is in a call when BIRD goes down or the pool is closed is shaken.   *)
LEMMA ShakenSteady ==
  ASSUME Undisturbed, UNCHANGED <<pc, retried>>, shaken' = Disturbed, NEW d \in Callers
  PROVE  Steady(d)' /\ Rested(d)'
  BY DEF Undisturbed, Disturbed, Steady, Rested

LEMMA ComeUpSteady ==
  ASSUME Undisturbed, ComeUp, NEW d \in Callers
  PROVE  Steady(d)' /\ Rested(d)'
<1>1. Steady(d) /\ Rested(d) /\ ~ up /\ UNCHANGED <<pc, shaken, retried>>
  BY DEF Undisturbed, ComeUp, callVars
<1> QED
  BY <1>1 DEF Steady, Rested

LEMMA PruneSteady ==
  ASSUME Undisturbed, NEW e \in Entries, Prune(e), NEW d \in Callers
  PROVE  Steady(d)' /\ Rested(d)'
<1>1. Types /\ e \in idle /\ UNCHANGED <<up, callVars>>
  BY DEF Undisturbed, Orderly, Prune
<1>2. \A k \in Ends : k # e => sock'[k] = sock[k]
  BY <1>1 DEF Prune, Types, Ends
<1>3. d # e /\ d \in Ends /\ (pc[d] # "idle" => held[d] # e /\ held[d] \in Ends)
  BY <1>1, Held, QueryAssumption DEF Undisturbed, Ends
<1> QED
  BY <1>1, <1>2, <1>3, LeftAlone DEF callVars

LEMMA UndisturbedStep ==
  ASSUME Undisturbed, [QueryNext]_queryVars
  PROVE  Undisturbed'
<1>1. Orderly'
  BY OrderlyStep DEF Undisturbed
<1>2. ASSUME NEW d \in Callers PROVE Steady(d)' /\ Rested(d)'
  <2>1. ASSUME NEW c \in Callers, CallStep(c) PROVE Steady(d)' /\ Rested(d)'
    BY <2>1, CallStepSteady
  <2>2. ASSUME NEW c \in Callers, NEW e \in Entries, NEW p \in Protocols, Call(c, e, p)
        PROVE  Steady(d)' /\ Rested(d)'
    BY <2>2, CallSteady
  <2>3. CASE GoDown
    BY <2>3, ShakenSteady DEF GoDown
  <2>4. CASE Sweep
    BY <2>4, ShakenSteady DEF Sweep
  <2>5. CASE ComeUp
    BY <2>5, ComeUpSteady
  <2>6. ASSUME NEW e \in Entries, Prune(e) PROVE Steady(d)' /\ Rested(d)'
    BY <2>6, PruneSteady
  <2>7. CASE UNCHANGED queryVars
    BY <2>7, LeftAlone DEF queryVars, callVars
  <2>8. ASSUME NEW c \in Callers, Blocked(c) \/ Refused(c) PROVE Steady(d)' /\ Rested(d)'
    BY <2>8, LeftAlone DEF Blocked, Refused
  <2>9. ASSUME NEW late \in SUBSET Callers, LockPool(late) PROVE Steady(d)' /\ Rested(d)'
    BY <2>9, LeftAlone DEF LockPool
  <2> QED
    BY <2>1, <2>2, <2>3, <2>4, <2>5, <2>6, <2>7, <2>8, <2>9 DEF QueryNext
<1> QED
  BY <1>1, <1>2 DEF Undisturbed

(* For any number of callers and connections and any replies: a call       *)
(* during which BIRD runs and the pool is not closed ends without an error *)
(* and with every line BIRD sent, though the connection it was given died  *)
(* or was dropped before, and others are dialling and pruning beside it    *)
(* (bird.go:383-424, conn.go:41-67).                                       *)
THEOREM UndisturbedAnswersAreWhole == QuerySpec => []AnswersWhole
<1>1. QueryInit => Undisturbed
  <2> SUFFICES ASSUME QueryInit PROVE Undisturbed
    OBVIOUS
  <2>1. Orderly
    BY InitOrderly
  <2>2. \A c \in Callers : Steady(c) /\ Rested(c)
    BY DEF QueryInit, Steady, Rested
  <2> QED
    BY <2>1, <2>2 DEF Undisturbed
<1>2. Undisturbed /\ [QueryNext]_queryVars => Undisturbed'
  BY UndisturbedStep
<1>3. ASSUME Undisturbed, NEW c \in Callers, pc[c] \in {"done", "failed"}, ~ shaken[c]
      PROVE  pc[c] = "done" /\ answer[c] = Reply(asked[c])
  <2> DEFINE r == Reply(asked[c])
             a == answer[c]
  <2>1. Orderly /\ Steady(c) /\ pc[c] # "idle"
    BY <1>3 DEF Undisturbed
  <2>2. /\ CallerOK(c) /\ asked[c] \in Sent /\ a \in Seq(Line)
        /\ pc[c] = "done" /\ Len(a) = Len(r)
    BY <1>3, <2>1, Held DEF Orderly, Types, Sent, Steady
  <2>3. r \in Seq(Line) /\ \A i \in 1 .. Len(a) : a[i] = r[i]
    BY <2>2, ReplyFacts DEF CallerOK, ReadOK, Split
  <2> HIDE DEF r, a
  <2>4. a = r
    BY <2>2, <2>3
  <2> QED
    BY <2>2, <2>4 DEF r, a
<1>4. Undisturbed => AnswersWhole
  BY <1>3 DEF AnswersWhole
<1> QED
  BY <1>1, <1>2, <1>4, PTL DEF QuerySpec

-----------------------------------------------------------------------------
(* Counts.                                                                 *)
Tally == [family : Families \cup {None}, counts : [Families -> Nat]]

(* The counts an answer about p may give for f, and what the loop's state  *)
(* is once it has seen n lines: the family is that of the last heading.    *)
RightCounts(p, f) == {0} \cup {Counts[p][g] : g \in DOMAIN Counts[p] \cap {f}}

Right(p, n, seen) ==
  /\ seen \in Tally
  /\ seen.family # None =>
       \E h \in 3 .. n :
         /\ Report[p][h].is = "channel" /\ Report[p][h].family = seen.family
         /\ \A k \in (h + 1) .. n : Report[p][k].is # "channel"
  /\ \A f \in Families : seen.counts[f] \in RightCounts(p, f)

LEMMA SetCountType ==
  ASSUME NEW seen \in Tally, NEW line \in Saying
  PROVE  SetCount(seen, line) \in Tally
<1>1. line.family \in Families \cup {None} /\ line.n \in Nat
  BY DEF Saying
<1>2. CASE line.is = "channel"
  BY <1>1, <1>2 DEF SetCount, Tally
<1>3. CASE line.is \in {"routes", "down"} /\ seen.family # None
  <2>1. seen.family \in Families
    BY <1>3 DEF Tally
  <2>2. SetCount(seen, line) =
          [seen EXCEPT !.counts[seen.family] = IF line.is = "down" THEN 0 ELSE line.n]
    BY <1>3 DEF SetCount
  <2>3. (IF line.is = "down" THEN 0 ELSE line.n) \in Nat
    BY <1>1
  <2> QED
    BY <2>1, <2>2, <2>3 DEF Tally
<1>4. CASE line.is # "channel" /\ ~ (line.is \in {"routes", "down"} /\ seen.family # None)
  BY <1>4 DEF SetCount
<1> QED
  BY <1>2, <1>3, <1>4

(* The parser's loop over the first n lines of an answer.                  *)
Empty == [family |-> None, counts |-> [f \in Families |-> 0]]

Seen(lines) == CHOOSE g : g = [n \in 0 .. Len(lines) |->
                                 IF n <= 2 THEN Empty ELSE SetCount(g[n - 1], lines[n].says)]

LEMMA SeenFacts ==
  ASSUME NEW lines \in Seq(Line)
  PROVE  /\ Parsed(lines) = Seen(lines)[Len(lines)].counts
         /\ Seen(lines) = [n \in 0 .. Len(lines) |->
                             IF n <= 2 THEN Empty ELSE SetCount(Seen(lines)[n - 1], lines[n].says)]
<1> DEFINE N == Len(lines)
           step == [i \in 1 .. N |-> [t \in Tally |->
                      IF i <= 2 THEN Empty ELSE SetCount(t, lines[i].says)]]
<1>1. N \in Nat /\ \A i \in 1 .. N : lines[i].says \in Saying
  <2>1. \A i \in 1 .. N : lines[i] \in Line
    OBVIOUS
  <2> QED
    BY <2>1 DEF Line
<1>2. Empty \in Tally
  BY DEF Empty, Tally
<1>3. step \in [1 .. N -> [Tally -> Tally]]
  BY <1>1, <1>2, SetCountType
<1>4. \A i \in 1 .. N : \A t \in Tally :
        step[i][t] = IF i <= 2 THEN Empty ELSE SetCount(t, lines[i].says)
  OBVIOUS
<1> HIDE DEF step
<1>5. PICK g : Loops(g, N, Tally, Empty, step)
  BY <1>1, <1>2, <1>3, LoopExists
<1>6. g = [n \in 0 .. N |-> IF n <= 2 THEN Empty ELSE SetCount(g[n - 1], lines[n].says)]
  <2>1. ASSUME NEW n \in 0 .. N
        PROVE  g[n] = IF n <= 2 THEN Empty ELSE SetCount(g[n - 1], lines[n].says)
    <3>1. CASE n = 0
      BY <1>5, <3>1 DEF Loops
    <3>2. CASE n # 0
      <4>1. n \in 1 .. N /\ n - 1 \in 0 .. N
        BY <1>1, <3>2
      <4>2. g[n - 1] \in Tally
        BY <1>5, <4>1 DEF Loops
      <4>3. g[n] = step[n][g[n - 1]]
        BY <1>5, <4>1 DEF Loops
      <4>4. step[n][g[n - 1]] =
              IF n <= 2 THEN Empty ELSE SetCount(g[n - 1], lines[n].says)
        BY <1>4, <4>1, <4>2
      <4> QED
        BY <4>3, <4>4
    <3> QED
      BY <3>1, <3>2
  <2> QED
    BY <1>5, <2>1 DEF Loops
<1>7. Seen(lines) = [n \in 0 .. Len(lines) |->
                       IF n <= 2 THEN Empty ELSE SetCount(Seen(lines)[n - 1], lines[n].says)]
  BY <1>6 DEF Seen
<1>8. Parsed(lines) = Seen(lines)[Len(lines)].counts
  BY DEF Parsed, Seen, Empty
<1> QED
  BY <1>7, <1>8


LEMMA StepRight ==
  ASSUME NEW p \in Protocols, NEW n \in 3 .. Len(Report[p]), NEW seen, Right(p, n - 1, seen)
  PROVE  Right(p, n, SetCount(seen, Report[p][n]))
<1> DEFINE r == Report[p]
           line == r[n]
           next == SetCount(seen, line)
<1> SUFFICES Right(p, n, next)
  OBVIOUS
<1>1. r \in Seq(Saying) /\ n \in Nat /\ n >= 3 /\ n \in 1 .. Len(r) /\ line \in Saying
  BY QueryAssumption
<1>2. seen \in Tally /\ next \in Tally
  BY <1>1, SetCountType DEF Right
<1>3. \A f \in Families : seen.counts[f] \in RightCounts(p, f)
  BY DEF Right
<1>4. CASE line.is = "channel"
  <2>1. next = [seen EXCEPT !.family = line.family]
    BY <1>4 DEF SetCount
  <2>2. next.family = line.family /\ next.counts = seen.counts
    BY <1>2, <2>1 DEF Tally
  <2>3. n \in 3 .. n /\ (n + 1) .. n = {}
    BY <1>1
  <2> HIDE DEF next
  <2> QED
    BY <1>2, <1>3, <1>4, <2>2, <2>3 DEF Right
<1>5. CASE line.is # "channel"
  <2>1. next.family = seen.family
    BY <1>2, <1>5 DEF SetCount, Tally
  <2>2. ASSUME seen.family # None
        PROVE  \E h \in 3 .. (n - 1) :
                 /\ r[h].is = "channel" /\ r[h].family = seen.family
                 /\ \A k \in (h + 1) .. (n - 1) : r[k].is # "channel"
    BY <2>2 DEF Right
  <2>3. ASSUME seen.family # None
        PROVE  \E h \in 3 .. n :
                 /\ r[h].is = "channel" /\ r[h].family = seen.family
                 /\ \A k \in (h + 1) .. n : r[k].is # "channel"
    <3>1. PICK h \in 3 .. (n - 1) :
                 /\ r[h].is = "channel" /\ r[h].family = seen.family
                 /\ \A k \in (h + 1) .. (n - 1) : r[k].is # "channel"
      BY <2>2, <2>3
    <3>2. h \in 3 .. n /\ \A k \in (h + 1) .. n : k = n \/ k \in (h + 1) .. (n - 1)
      BY <1>1
    <3> QED
      BY <1>5, <3>1, <3>2
  <2>4. ASSUME NEW f \in Families
        PROVE  next.counts[f] \in RightCounts(p, f)
    <3>1. CASE line.is \in {"routes", "down"} /\ seen.family = f
      <4>1. f # None
        BY QueryAssumption
      <4>2. next = [seen EXCEPT !.counts[seen.family] = IF line.is = "down" THEN 0 ELSE line.n]
        BY <1>5, <3>1, <4>1 DEF SetCount
      <4>3. next.counts[f] = IF line.is = "down" THEN 0 ELSE line.n
        BY <1>2, <3>1, <4>2 DEF Tally
      <4>4. CASE line.is = "down"
        BY <4>3, <4>4 DEF RightCounts
      <4>5. CASE line.is = "routes"
        <5>1. PICK h \in 3 .. (n - 1) :
                 /\ r[h].is = "channel" /\ r[h].family = f
                 /\ \A k \in (h + 1) .. (n - 1) : r[k].is # "channel"
          BY <2>2, <3>1, <4>1
        <5>2. h \in 3 .. Len(r) /\ n \in 3 .. Len(r) /\ h < n
          BY <1>1
        <5>3. f \in DOMAIN Counts[p] /\ line.n = Counts[p][f]
          BY <4>1, <4>5, <5>1, <5>2, ReportAssumption
        <5> QED
          BY <4>3, <4>5, <5>3 DEF RightCounts
      <4> QED
        BY <3>1, <4>4, <4>5
    <3>2. CASE ~ (line.is \in {"routes", "down"} /\ seen.family = f)
      <4>1. next.counts[f] = seen.counts[f]
        <5>1. CASE line.is \in {"routes", "down"} /\ seen.family # None
          <6>1. next = [seen EXCEPT !.counts[seen.family] = IF line.is = "down" THEN 0 ELSE line.n]
            BY <1>5, <5>1 DEF SetCount
          <6> QED
            BY <1>2, <3>2, <5>1, <6>1 DEF Tally
        <5>2. CASE ~ (line.is \in {"routes", "down"} /\ seen.family # None)
          BY <1>5, <5>2 DEF SetCount
        <5> QED
          BY <5>1, <5>2
      <4> QED
        BY <1>3, <4>1
    <3> QED
      BY <3>1, <3>2
  <2> HIDE DEF next
  <2> QED
    BY <1>2, <2>1, <2>3, <2>4 DEF Right
<1> QED
  BY <1>4, <1>5

(* What is parsed out of the first lines of a report.                      *)
LEMMA ParsedRight ==
  ASSUME NEW p \in Protocols, NEW lines \in Seq(Line), Len(lines) <= Len(Report[p]),
         \A i \in 1 .. Len(lines) : lines[i].says = Report[p][i]
  PROVE  \A f \in Families : Parsed(lines)[f] \in RightCounts(p, f)
<1> DEFINE N == Len(lines)
           seen == Seen(lines)
           S == {n \in 0 .. N : Right(p, n, seen[n])}
<1>1. N \in Nat /\ Len(Report[p]) \in Nat
  BY QueryAssumption
<1>2. \A n \in 0 .. N : seen[n] = IF n <= 2 THEN Empty ELSE SetCount(seen[n - 1], lines[n].says)
  <2>1. seen = [n \in 0 .. N |-> IF n <= 2 THEN Empty ELSE SetCount(seen[n - 1], lines[n].says)]
    BY SeenFacts
  <2> HIDE DEF seen, N
  <2> QED
    BY <2>1
<1>3. \A n : Right(p, n, Empty)
  BY DEF Right, Empty, Tally, RightCounts
<1> HIDE DEF seen
<1>4. 0 \in S
  BY <1>1, <1>2, <1>3
<1>5. ASSUME NEW n \in 1 .. N, n - 1 \in S
      PROVE  n \in S
  <2>1. CASE n <= 2
    BY <1>1, <1>2, <1>3, <2>1
  <2>2. CASE n > 2
    <3>1. n \in 3 .. Len(Report[p]) /\ n \in 0 .. N
      BY <1>1, <2>2
    <3>2. Right(p, n - 1, seen[n - 1])
      BY <1>5
    <3>3. Right(p, n, SetCount(seen[n - 1], Report[p][n]))
      BY <3>1, <3>2, StepRight
    <3>4. seen[n] = SetCount(seen[n - 1], Report[p][n])
      BY <1>2, <2>2, <3>1
    <3> QED
      BY <3>1, <3>3, <3>4
  <2> QED
    BY <1>1, <2>1, <2>2
<1> HIDE DEF S
<1>6. \A i \in 1 .. N : i - 1 \in S => i \in S
  BY <1>5
<1>7. 0 .. N \subseteq S
  BY <1>1, <1>4, <1>6, Climb
<1>8. Right(p, N, seen[N])
  BY <1>1, <1>7 DEF S
<1>9. Parsed(lines) = seen[N].counts
  BY SeenFacts DEF seen
<1> QED
  BY <1>8, <1>9 DEF Right

(* For any number of callers and connections and any report that is right: *)
(* a count parsed out of an answer, also of one cut off at any line by the *)
(* end of its connection, is never that of the other family or of another  *)
(* protocol (bird.go:590-628, conn.go:41-67).                              *)
THEOREM ParsedCountsAreTrue == QuerySpec => []CountsAreTrue
<1>1. Orderly => CountsAreTrue
  <2> SUFFICES ASSUME Orderly, NEW c \in Callers, pc[c] = "done", NEW f \in Families
               PROVE  Parsed(answer[c])[f] \in RightCounts(asked[c].about, f)
    BY DEF CountsAreTrue, RightCounts
  <2> DEFINE a == answer[c]
             q == asked[c]
  <2>1. a \in Seq(Line) /\ q \in Sent /\ q.by # None /\ q.about \in Protocols
    BY QueryAssumption DEF Orderly, Types, Command, Sent
  <2>2. Len(a) <= Len(Reply(q)) /\ \A i \in 1 .. Len(a) : a[i] = Reply(q)[i]
    <3>1. Split(a, <<>>, Reply(q))
      BY DEF Orderly, CallerOK, ReadOK
    <3> HIDE DEF a, q
    <3>2. Len(a) \in Nat /\ Len(<<>>) = 0
      BY <2>1
    <3>3. Len(a) + Len(<<>>) <= Len(Reply(q)) /\ \A i \in 1 .. Len(a) : a[i] = Reply(q)[i]
      BY <3>1 DEF Split
    <3> QED
      BY <3>2, <3>3
  <2> DEFINE r == Report[q.about]
  <2>3. Reply(q) = [i \in DOMAIN r |-> [of |-> q, says |-> r[i], last |-> i = Len(r)]]
    BY <2>1 DEF Reply
  <2> HIDE DEF a, q
  <2>4. r \in Seq(Saying) /\ DOMAIN r = 1 .. Len(r) /\ Len(r) \in Nat
    BY <2>1, QueryAssumption
  <2> HIDE DEF r
  <2>5. Len(Reply(q)) = Len(r) /\ \A i \in 1 .. Len(r) : Reply(q)[i].says = r[i]
    <3>1. DOMAIN Reply(q) = 1 .. Len(r)
      BY <2>3, <2>4
    <3>2. Reply(q) \in Seq(Line)
      BY <2>1, ReplyFacts
    <3>3. \A i \in 1 .. Len(r) : Reply(q)[i] = [of |-> q, says |-> r[i], last |-> i = Len(r)]
      BY <2>3, <2>4
    <3>4. ASSUME NEW i \in 1 .. Len(r) PROVE Reply(q)[i].says = r[i]
      <4>1. Reply(q)[i] = [of |-> q, says |-> r[i], last |-> i = Len(r)]
        BY <3>3
      <4>2. [of |-> q, says |-> r[i], last |-> i = Len(r)].says = r[i]
        OBVIOUS
      <4> QED
        BY <4>1, <4>2, Zenon
    <3> QED
      BY <2>4, <3>1, <3>2, <3>4
  <2>6. Len(a) \in Nat /\ Len(a) <= Len(r) /\ \A i \in 1 .. Len(a) : a[i].says = r[i]
    BY <2>1, <2>2, <2>4, <2>5
  <2> QED
    BY <2>1, <2>6, ParsedRight DEF a, q, r
<1>2. QueryInit => Orderly
  BY InitOrderly
<1>3. Orderly /\ [QueryNext]_queryVars => Orderly'
  BY OrderlyStep
<1> QED
  BY <1>1, <1>2, <1>3, PTL DEF QuerySpec

-----------------------------------------------------------------------------
(* What calls ask of the pool is what Lease allows.  A caller that is not  *)
(* in a call has no entry.                                                 *)
Resting == \A c \in Callers : pc[c] = "idle" => held[c] = None

Borrower == Orderly /\ Resting

States == [e \in Entries |-> IF sock[e].strict THEN "open" ELSE "none"]

Allowed == [Contract!LeaseNext]_(Contract!leaseVars)

(* Nobody is lent anything or returns it, and each entry keeps a restricted *)
(* connection or goes on without one.                                      *)
LEMMA NothingLent ==
  ASSUME UNCHANGED <<held, closing>>, \A e \in Entries : sock'[e].strict = sock[e].strict
  PROVE  Allowed
<1>1. States' = States
  BY DEF States
<1> QED
  BY <1>1 DEF Allowed, Contract!leaseVars, States

LEMMA CallAllowed ==
  ASSUME Borrower, NEW c \in Callers, NEW e \in Entries, NEW p \in Protocols, Call(c, e, p)
  PROVE  Allowed
<1>1. pc[c] = "idle" /\ e \in idle /\ held' = [held EXCEPT ![c] = e] /\ UNCHANGED <<sock, closing>>
  BY DEF Call
<1>2. held[c] = None
  BY <1>1 DEF Borrower, Resting
<1>3. ASSUME NEW d \in Callers PROVE held[d] # e
  <2>1. CASE pc[d] = "idle"
    BY <2>1, QueryAssumption DEF Borrower, Resting
  <2>2. CASE pc[d] # "idle"
    BY <1>1, <2>2, Held DEF Borrower
  <2> QED
    BY <2>1, <2>2
<1>4. States' = States
  BY <1>1 DEF States
<1>5. Contract!Borrow(c, e)
  BY <1>1, <1>2, <1>3, <1>4 DEF Contract!Borrow, Contract!Free, States
<1> QED
  BY <1>5 DEF Allowed, Contract!LeaseNext

LEMMA StepAllowed ==
  ASSUME Borrower, NEW c \in Callers, CallStep(c)
  PROVE  Allowed
<1>1. /\ Orderly /\ Types /\ pc[c] # "idle" /\ CallerOK(c)
      /\ c \in Ends /\ held[c] \in Ends /\ held[c] \in Entries /\ held[c] # None
      /\ held \in [Callers -> Entries \cup {None}] /\ sock \in [Ends -> Sock]
      /\ \A e \in Entries : e \in Ends /\ e # c
  BY CallTouches, Held, QueryAssumption DEF Borrower, Orderly, Types, Ends
<1>2. \A k \in Ends : k \notin {c, held[c]} => sock'[k] = sock[k]
  BY <1>1, CallTouches
<1>3. CASE Dial(c) \/ Greet(c) \/ RestrictConn(c) \/ Confirmed(c)
  <2>1. UNCHANGED <<held, closing>>
    BY <1>3 DEF Dial, Greet, RestrictConn, Confirmed
  <2>2. \E s : sock' = [sock EXCEPT ![c] = s]
    <3>1. sock = [sock EXCEPT ![c] = sock[c]]
      BY <1>1
    <3> QED
      BY <1>3, <3>1 DEF Dial, Greet, RestrictConn, Confirmed, Write
  <2>3. \A e \in Entries : sock'[e] = sock[e]
    BY <1>1, <2>2
  <2> QED
    BY <2>1, <2>3, NothingLent
<1>4. CASE Swap(c)
  <2>1. /\ UNCHANGED <<held, closing>>
        /\ sock' = [sock EXCEPT ![held[c]] = sock[c], ![c] = NoSock]
        /\ sock[c].strict
    BY <1>1, <1>4 DEF Swap, CallerOK, SetUpOK
  <2>2. sock'[held[c]] = sock[c] /\ \A e \in Entries : e # held[c] => sock'[e] = sock[e]
    BY <1>1, <2>1
  <2>3. States' = [States EXCEPT ![held[c]] = "open"]
    BY <1>1, <2>1, <2>2 DEF States
  <2>4. Contract!Renew(c)
    BY <1>1, <2>1, <2>3 DEF Contract!Renew, States
  <2> QED
    BY <2>4 DEF Allowed, Contract!LeaseNext
<1>5. CASE Ask(c) \/ ReadLine(c) \/ ReadEnds(c)
  <2>1. UNCHANGED <<held, closing>>
    BY <1>5 DEF Ask, ReadLine, ReadEnds
  <2>2. sock'[held[c]].strict = sock[held[c]].strict
    <3>1. CASE Ask(c)
      <4>1. asked[c] \in Sent /\ asked[c] # Confirm
        BY <1>1, QueryAssumption DEF Types, Sent, Command, Confirm
      <4>2. CASE Write(held[c], asked[c])
        <5>1. sock'[held[c]].strict <=> sock[held[c]].strict \/ asked[c] = Confirm
          BY <1>1, <4>1, <4>2, WriteFacts
        <5>2. sock' \in [Ends -> Sock]
          BY <1>1, <4>1, <4>2, WriteFacts
        <5>3. sock'[held[c]].strict \in BOOLEAN /\ sock[held[c]].strict \in BOOLEAN
          BY <1>1, <5>2 DEF Sock
        <5> QED
          BY <4>1, <5>1, <5>3
      <4>3. CASE sock' = sock
        BY <4>3
      <4> QED
        BY <3>1, <4>2, <4>3 DEF Ask
    <3>2. CASE ReadLine(c)
      BY <1>1, <3>2, ReceiveFacts DEF ReadLine
    <3>3. CASE ReadEnds(c)
      BY <1>1, <3>3, DropFacts DEF ReadEnds
    <3> QED
      BY <1>5, <3>1, <3>2, <3>3
  <2>3. \A e \in Entries : sock'[e].strict = sock[e].strict
    BY <1>1, <1>2, <2>2
  <2> QED
    BY <2>1, <2>3, NothingLent
<1>6. CASE Return(c)
  <2>1. held' = [held EXCEPT ![c] = None] /\ closing' = closing
    BY <1>6 DEF Return
  <2>2. States' = States \/ (closing # "open" /\ States' = [States EXCEPT ![held[c]] = "none"])
    <3>1. CASE sock' = sock
      BY <3>1 DEF States
    <3>2. CASE closing # "open" /\ sock' = [sock EXCEPT ![held[c]] = NoSock]
      <4>1. sock'[held[c]] = NoSock /\ \A e \in Entries : e # held[c] => sock'[e] = sock[e]
        BY <1>1, <3>2
      <4>2. ~ NoSock.strict
        BY DEF NoSock
      <4> QED
        BY <1>1, <3>2, <4>1, <4>2 DEF States
    <3> QED
      BY <1>6, <3>1, <3>2 DEF Return
  <2>3. Contract!Return(c)
    BY <1>1, <2>1, <2>2 DEF Contract!Return, States
  <2> QED
    BY <2>3 DEF Allowed, Contract!LeaseNext
<1> QED
  BY <1>3, <1>4, <1>5, <1>6 DEF CallStep

LEMMA AroundAllowed ==
  ASSUME Borrower,
         \/ GoDown \/ ComeUp \/ Sweep
         \/ \E e \in Entries : Prune(e)
         \/ \E c \in Callers : Blocked(c) \/ Refused(c)
         \/ \E late \in SUBSET Callers : LockPool(late)
  PROVE  Allowed
<1>1. /\ sock \in [Ends -> Sock] /\ Entries \subseteq Ends /\ DOMAIN sock = Ends
      /\ ~ NoSock.strict
  BY DEF Borrower, Orderly, Types, Ends, NoSock
<1>2. CASE GoDown
  <2>1. UNCHANGED <<held, closing>> /\ sock' = [k \in Ends |-> [sock[k] EXCEPT !.open = FALSE]]
    BY <1>1, <1>2 DEF GoDown
  <2>2. ASSUME NEW e \in Entries PROVE sock'[e].strict = sock[e].strict
    <3>1. sock[e] \in Sock /\ sock'[e] = [sock[e] EXCEPT !.open = FALSE]
      BY <1>1, <2>1
    <3> QED
      BY <3>1 DEF Sock
  <2> QED
    BY <2>1, <2>2, NothingLent
<1>3. CASE ComeUp
  BY <1>3, NothingLent DEF ComeUp, callVars
<1>4. CASE Sweep
  <2>1. /\ held' = held /\ closing' # "open"
        /\ \A e \in Entries : sock'[e] = NoSock
    BY <1>1, <1>4 DEF Sweep
  <2> DEFINE dropped == Entries
  <2>2. States' = [e \in Entries |-> IF e \in dropped THEN "none" ELSE States[e]]
    BY <1>1, <2>1 DEF States
  <2>3. dropped \in SUBSET Entries
    OBVIOUS
  <2> HIDE DEF dropped
  <2>4. Contract!Shut(dropped, "none")
    BY <2>1, <2>2 DEF Contract!Shut, States
  <2> QED
    BY <2>3, <2>4 DEF Allowed, Contract!LeaseNext
<1>5. ASSUME NEW e \in Entries, Prune(e) PROVE Allowed
  <2>1. /\ held' = held /\ closing' = closing /\ e \in idle
        /\ sock' = [sock EXCEPT ![e] = NoSock]
    BY <1>5 DEF Prune, callVars
  <2>2. sock'[e] = NoSock /\ \A k \in Entries : k # e => sock'[k] = sock[k]
    BY <1>1, <2>1
  <2> DEFINE dropped == {e}
  <2>3. States' = [k \in Entries |-> IF k \in dropped THEN "none" ELSE States[k]]
    BY <1>1, <2>2 DEF States
  <2>4. ASSUME NEW k \in dropped, NEW d \in Callers PROVE held[d] # k
    <3>1. CASE pc[d] = "idle"
      BY <3>1, QueryAssumption DEF Borrower, Resting
    <3>2. CASE pc[d] # "idle"
      BY <2>1, <3>2, Held DEF Borrower
    <3> QED
      BY <3>1, <3>2
  <2>5. dropped \in SUBSET Entries
    OBVIOUS
  <2> HIDE DEF dropped
  <2>6. Contract!Trim(dropped)
    BY <2>1, <2>3, <2>4 DEF Contract!Trim, Contract!Free, States
  <2> QED
    BY <2>5, <2>6 DEF Allowed, Contract!LeaseNext
<1>6. ASSUME NEW c \in Callers, Blocked(c) \/ Refused(c) PROVE Allowed
  BY <1>6, NothingLent DEF Blocked, Refused
<1>7. ASSUME NEW late \in SUBSET Callers, LockPool(late) PROVE Allowed
  <2>1. held' = held /\ closing' # "open" /\ sock' = sock
    BY <1>7 DEF LockPool
  <2> DEFINE dropped == {}
  <2>2. States' = [e \in Entries |-> IF e \in dropped THEN "none" ELSE States[e]]
    BY <2>1 DEF States
  <2>3. dropped \in SUBSET Entries
    OBVIOUS
  <2> HIDE DEF dropped
  <2>4. Contract!Shut(dropped, "none")
    BY <2>1, <2>2 DEF Contract!Shut, States
  <2> QED
    BY <2>3, <2>4 DEF Allowed, Contract!LeaseNext
<1> QED
  BY <1>2, <1>3, <1>4, <1>5, <1>6, <1>7

LEMMA RestingStep ==
  ASSUME Borrower, [QueryNext]_queryVars
  PROVE  Resting'
<1>1. /\ Orderly /\ Resting /\ pc \in [Callers -> Place]
      /\ held \in [Callers -> Entries \cup {None}]
  BY DEF Borrower, Orderly, Types
<1>2. UNCHANGED <<pc, held>> => Resting'
  BY <1>1 DEF Resting
<1>3. ASSUME NEW c \in Callers, CallStep(c), NEW d \in Callers, pc'[d] = "idle"
      PROVE  held'[d] = None
  <2>1. CASE d # c
    BY <1>1, <1>3, <2>1, CallTouches DEF Resting
  <2>2. CASE d = c
    <3>1. Return(c)
      BY <1>1, <1>3, <2>2
      DEF CallStep, Dial, Greet, RestrictConn, Confirmed, Swap, Ask, ReadLine, ReadEnds, Go
    <3> QED
      BY <1>1, <2>2, <3>1 DEF Return
  <2> QED
    BY <2>1, <2>2
<1>4. ASSUME NEW c \in Callers, NEW e \in Entries, NEW p \in Protocols, Call(c, e, p),
             NEW d \in Callers, pc'[d] = "idle"
      PROVE  held'[d] = None
  <2>1. d # c /\ pc'[d] = pc[d] /\ held'[d] = held[d]
    BY <1>1, <1>4 DEF Call, Go
  <2> QED
    BY <1>1, <1>4, <2>1 DEF Resting
<1>5. CASE GoDown \/ ComeUp \/ Sweep \/ UNCHANGED queryVars
  BY <1>2, <1>5 DEF GoDown, ComeUp, Sweep, queryVars, callVars
<1>6. ASSUME NEW e \in Entries, Prune(e) PROVE Resting'
  BY <1>2, <1>6 DEF Prune, callVars
<1>7. CASE \E c \in Callers : CallStep(c)
  BY <1>3, <1>7 DEF Resting
<1>8. CASE \E c \in Callers, e \in Entries, p \in Protocols : Call(c, e, p)
  BY <1>4, <1>8 DEF Resting
<1>9. CASE (\E c \in Callers : Blocked(c) \/ Refused(c)) \/ \E late \in SUBSET Callers : LockPool(late)
  BY <1>2, <1>9 DEF Blocked, Refused, LockPool
<1> QED
  BY <1>5, <1>6, <1>7, <1>8, <1>9 DEF QueryNext

(* Whatever BIRD does and whenever the pool is closed, a call borrows an   *)
(* entry nobody has, changes its connection and no other, puts only a      *)
(* restricted one in its place, and gives the entry back: calls keep to    *)
(* what the pool promises, which PoolLends shows of the pool               *)
(* (bird.go:383-424).                                                      *)
THEOREM CallsKeepLease == QuerySpec => KeepsLease
<1>1. QueryInit => Contract!LeaseInit
  BY DEF QueryInit, Contract!LeaseInit, NoSock
<1>2. QueryInit => Borrower
  BY InitOrderly DEF QueryInit, Borrower, Resting
<1>3. Borrower /\ [QueryNext]_queryVars => Borrower'
  BY OrderlyStep, RestingStep DEF Borrower
<1>4. ASSUME Borrower, [QueryNext]_queryVars PROVE Allowed
  <2>1. CASE UNCHANGED queryVars
    BY <2>1, NothingLent DEF queryVars, callVars
  <2> QED
    BY <1>4, <2>1, CallAllowed, StepAllowed, AroundAllowed DEF QueryNext
<1>5. Borrower /\ [QueryNext]_queryVars => [Contract!LeaseNext]_(Contract!leaseVars)
  BY <1>4 DEF Allowed
<1> QED
  BY <1>1, <1>2, <1>3, <1>5, PTL DEF QuerySpec, KeepsLease, Contract!LeaseSpec
=============================================================================
