--------------------------- MODULE TokenCache_proofs ---------------------------
(***************************************************************************)
(* Proofs about TokenCache, for any callers, lives, delays and attempts:   *)
(* what callers that share a token without a lock can still rely on.       *)
(***************************************************************************)
EXTENDS TokenCache, TLAPS

Text   == [ptr : {"configured", "answered"}, len : {"configured", "answered"}]
Cached == [ptr : -2..Life, len : BOOLEAN]
Reply  == [bytes : -1..Life, domain : BOOLEAN, expires : BOOLEAN]
JobRow == [url : Text, sent : Cached, reply : Reply, half : {"none", "ptr", "len"},
           left : 0..(Trip + Pause), tries : 0..Attempts, elapsed : Nat]

Types ==
  /\ token \in Cached /\ expiry \in 0..Life /\ crmUrl \in Text
  /\ pc \in [Callers -> Labels]
  /\ job \in [Callers -> JobRow]
  /\ used \in [Disturbances -> Nat]

(* What a caller has in hand at label p. *)
InHand(p, j) ==
  /\ p = "idle" => j = NoJob
  /\ p \in {"check", "check2"} => j.tries = 0 /\ j.elapsed = 0
  /\ p = "refresh" => j.left <= Trip
  /\ p = "pause" => j.left <= Pause /\ j.tries < Attempts
  /\ p \in Storing \cup {"refresh", "pause"} => j.tries > 0
  /\ p \in {"token2", "url2"} => j.half # "none"
  /\ IF p \in {"refresh", "token", "token2"} THEN j.reply = NoReply \/ j.reply.bytes >= 0
                                             ELSE j.reply.bytes = None

(* The time n attempts and their pauses take. *)
Span(n) == n * (Trip + Pause)

(* How late a caller may be at label p. *)
Timely(p, j) ==
  /\ p = "refresh" => j.elapsed + j.left <= Span(j.tries - 1) + Trip
  /\ p \in Storing => j.elapsed <= Span(j.tries - 1) + Trip
  /\ p = "pause" => j.elapsed + j.left <= Span(j.tries)
  /\ p = "send" => j.elapsed <= Span(Attempts - 1) + Trip
  /\ p = "call" => j.elapsed + j.left <= Span(Attempts - 1) + Trip + Trip

(* A token b that was fetched a request ago at most, if there is one. *)
Young(b) == b < 0 \/ b + Trip >= Life

(* The words of the token that a caller at label p knows to be stored. *)
Past(p) == p \in {"url", "url2", "expiry"}
PtrStored(p, j) == Past(p) \/ (p = "token2" /\ j.half = "len")
LenStored(p, j) == Past(p) \/ (p = "token2" /\ j.half = "ptr")

(* An answer on its way, or a stored one, is young. *)
Fresh(p, j, t) ==
  /\ p = "refresh" => j.reply.bytes < 0 \/ j.reply.bytes + Trip >= Life + j.left
  /\ p \in {"token", "token2"} => Young(j.reply.bytes)
  /\ PtrStored(p, j) => Young(t.ptr)

(* Unless Zoho has answered n > 0 times without a token, callers that get as  *)
(* far as to use the token find it whole.                                     *)
Whole(p, j, t, n) ==
  n = 0 => /\ PtrStored(p, j) \/ p = "send" => t.ptr # None
           /\ LenStored(p, j) \/ p = "send" => t.len = TRUE
           /\ p \in {"token", "token2"} => j.reply.bytes # None

Fits(p, j, t, n) == InHand(p, j) /\ Timely(p, j) /\ Fresh(p, j, t) /\ Whole(p, j, t, n)

(* The token and its expiry. *)
Kept(t, e, n) ==
  /\ t.ptr >= 0 => e <= t.ptr + Trip
  /\ n = 0 /\ e > 0 => t.ptr # None /\ t.len = TRUE

Empties == used["empty"]

IInv ==
  /\ Types
  /\ Kept(token, expiry, Empties)
  /\ \A c \in Callers : Fits(pc[c], job[c], token, Empties)

-----------------------------------------------------------------------------
LEMMA Times == Life \in Nat \ {0} /\ Trip \in Nat /\ Pause \in Nat /\ Attempts \in Nat \ {0}
BY TimesAssumption

LEMMA Rows ==
  /\ NoJob \in JobRow /\ NoJob.reply = NoReply /\ NoReply \in Reply /\ NoJob.tries = 0
  /\ NoJob.half = "none" /\ NoJob.left = 0 /\ NoJob.elapsed = 0
  /\ Configured \in Text /\ Answered \in Text /\ Empty \in Cached /\ NoReply.bytes = None
  /\ Empty.ptr = None
BY Times DEF NoJob, NoReply, Configured, Answered, Domain, Empty, Str, None, JobRow, Text, Cached, Reply

LEMMA StrType == ASSUME NEW b \in -1..Life PROVE Str(b) \in Cached /\ Str(b).ptr = b /\ Str(b).len = (b # None)
<1>1. b \in -2..Life /\ (b # None) \in BOOLEAN
  BY Times
<1> DEFINE l == b # None
<1>2. Str(b) = [ptr |-> b, len |-> l] /\ l \in BOOLEAN
  BY DEF Str
<1> HIDE DEF l
<1>3. Str(b) \in Cached
  BY <1>1, <1>2 DEF Cached
<1>4. Str(b).ptr = b
  BY <1>2
<1>5. Str(b).len = l
  BY <1>2
<1> QED BY <1>3, <1>4, <1>5 DEF l

LEMMA WordType ==
  ASSUME NEW s \in Cached, NEW n \in Cached, NEW w \in {"ptr", "len"}
  PROVE  /\ Word(w, s, n) \in Cached
         /\ Word(w, s, n).ptr = IF w = "ptr" THEN n.ptr ELSE s.ptr
         /\ Word(w, s, n).len = IF w = "ptr" THEN s.len ELSE n.len
<1>1. CASE w = "ptr"
  <2>1. Word(w, s, n) = [s EXCEPT !.ptr = n.ptr]
    BY <1>1 DEF Word
  <2> QED BY <1>1, <2>1 DEF Cached
<1>2. CASE w = "len"
  <2>1. Word(w, s, n) = [s EXCEPT !.len = n.len]
    BY <1>2 DEF Word
  <2> QED BY <1>2, <2>1 DEF Cached
<1> QED BY <1>1, <1>2

LEMMA UrlType ==
  ASSUME NEW s \in Text, NEW w \in {"ptr", "len"} PROVE Word(w, s, Answered) \in Text
BY Rows DEF Word, Text


LEMMA SpanFacts ==
  /\ Span(0) = 0
  /\ \A n \in Nat : Span(n) \in Nat /\ Span(n + 1) = Span(n) + Trip + Pause
  /\ \A n, m \in Nat : n <= m => Span(n) <= Span(m)
<1> DEFINE s == Trip + Pause
<1>1. s \in Nat
  BY Times
<1>2. \A n \in Nat : Span(n) = n * s
  BY DEF Span
<1> HIDE DEF s
<1>3. \A n \in Nat : n * s \in Nat /\ (n + 1) * s = n * s + s
  BY <1>1
<1>4. \A n, m \in Nat : n <= m => n * s <= m * s
  BY <1>1
<1>5. \A n \in Nat : Span(n) \in Nat /\ Span(n + 1) = Span(n) + s
  BY <1>2, <1>3
<1>6. Span(0) = 0
  BY <1>1, <1>2
<1>7. \A n, m \in Nat : n <= m => Span(n) <= Span(m)
  BY <1>2, <1>4
<1>8. \A n \in Nat : Span(n) \in Nat /\ Span(n + 1) = Span(n) + Trip + Pause
  <2>1. \A a \in Nat : a + s = a + Trip + Pause
    BY Times DEF s
  <2> QED BY <1>5, <2>1
<1> QED BY <1>6, <1>7, <1>8

LEMMA SpentMore ==
  ASSUME Types, NEW k \in Disturbances, Spend(k)
  PROVE  /\ used' \in [Disturbances -> Nat]
         /\ Empties' = 0 => Empties = 0
         /\ k = "empty" => Empties' > 0
BY DEF Types, Spend, Empties, Disturbances

(* Others are not disturbed by one who stores a young answer. *)
LEMMA Undisturbed ==
  ASSUME NEW p, NEW j, NEW t, NEW t2, NEW n, NEW n2, Fits(p, j, t, n),
         n2 = 0 => n = 0, Young(t.ptr) => Young(t2.ptr),
         n2 = 0 => (t.ptr # None => t2.ptr # None) /\ (t.len = TRUE => t2.len = TRUE)
  PROVE  Fits(p, j, t2, n2)
BY DEF Fits, Fresh, Whole

(* One caller's step. *)
LEMMA OneStep ==
  ASSUME IInv, NEW c \in Callers, NEW l \in Labels, NEW j \in JobRow,
         Goto(c, l), job' = [job EXCEPT ![c] = j],
         Fits(l, j, token', Empties'),
         token' \in Cached, expiry' \in 0..Life, crmUrl' \in Text, used' \in [Disturbances -> Nat],
         Kept(token', expiry', Empties'),
         Empties' = 0 => Empties = 0, Young(token.ptr) => Young(token'.ptr),
         Empties' = 0 => /\ token.ptr # None => token'.ptr # None
                         /\ token.len = TRUE => token'.len = TRUE
  PROVE  IInv'
<1>1. Types'
  BY DEF IInv, Types, Goto
<1>2. \A q \in Callers : Fits(pc[q], job[q], token', Empties')
  BY Undisturbed DEF IInv
<1>3. \A q \in Callers : pc'[q] = (IF q = c THEN l ELSE pc[q]) /\ job'[q] = (IF q = c THEN j ELSE job[q])
  BY DEF IInv, Types, Goto
<1>4. \A q \in Callers : Fits(pc'[q], job'[q], token', Empties')
  BY <1>2, <1>3
<1> QED BY <1>1, <1>4 DEF IInv

(* One that leaves the cache alone. *)
LEMMA OwnStep ==
  ASSUME IInv, NEW c \in Callers, NEW l \in Labels, NEW j \in JobRow,
         Goto(c, l), job' = [job EXCEPT ![c] = j],
         Fits(l, j, token, Empties'),
         UNCHANGED shared, used' \in [Disturbances -> Nat], Empties' = 0 => Empties = 0
  PROVE  IInv'
<1>1. token' = token /\ expiry' = expiry /\ crmUrl' = crmUrl
  BY DEF shared
<1>2. token' \in Cached /\ expiry' \in 0..Life /\ crmUrl' \in Text
  BY <1>1 DEF IInv, Types
<1>3. Kept(token', expiry', Empties')
  BY <1>1 DEF IInv, Kept
<1>4. Fits(l, j, token', Empties')
  BY <1>1
<1> QED BY <1>1, <1>2, <1>3, <1>4, OneStep

LEMMA SameUsed ==
  ASSUME IInv, UNCHANGED used
  PROVE  Empties' = Empties /\ used' \in [Disturbances -> Nat]
BY DEF IInv, Types, Empties

LEMMA Nothing == ASSUME NEW t, NEW n PROVE Fits("idle", NoJob, t, n)
BY Rows DEF Fits, InHand, Timely, Fresh, Whole, PtrStored, LenStored, Past, Storing

LEMMA InitInv == Init => IInv
<1> SUFFICES ASSUME Init PROVE IInv
  OBVIOUS
<1>1. Types
  BY Rows, Times DEF Init, Types, Labels
<1>2. Kept(token, expiry, Empties)
  BY Rows DEF Init, Kept, None
<1> QED BY <1>1, <1>2, Nothing DEF Init, IInv

LEMMA BeginInv == ASSUME IInv, NEW c \in Callers, Begin(c) PROVE IInv'
<1> DEFINE j == [job[c] EXCEPT !.url = crmUrl]
<1>1. job[c] = NoJob /\ job[c] \in JobRow /\ crmUrl \in Text
  BY DEF Begin, IInv, Types, Fits, InHand
<1>2. j \in JobRow /\ j.tries = 0 /\ j.elapsed = 0 /\ j.reply = NoReply
  BY <1>1, Rows DEF JobRow
<1>3. Goto(c, "check") /\ job' = [job EXCEPT ![c] = j] /\ UNCHANGED <<shared, used>> /\ "check" \in Labels
  BY DEF Begin, Labels
<1> HIDE DEF j
<1>4. Fits("check", j, token, Empties)
  BY <1>2, Rows DEF Fits, InHand, Timely, Fresh, Whole, PtrStored, LenStored, Past, Storing
<1> QED BY <1>2, <1>3, <1>4, SameUsed, OwnStep

(* A call ends. *)
LEMMA ReturnInv ==
  ASSUME IInv, NEW c \in Callers, Return(c), UNCHANGED shared,
         used' \in [Disturbances -> Nat], Empties' = 0 => Empties = 0
  PROVE  IInv'
<1>1. "idle" \in Labels
  BY DEF Labels
<1> QED BY <1>1, Rows, Nothing, OwnStep DEF Return

LEMMA AskInv ==
  ASSUME IInv, NEW c \in Callers, Ask(c), UNCHANGED <<shared, used>>,
         pc[c] \in {"check", "check2"} \/ (pc[c] = "pause" /\ job[c].left = 0)
  PROVE  IInv'
<1> DEFINE n == job[c].tries + 1
           j == [job[c] EXCEPT !.tries = n, !.left = Trip, !.reply = NoReply]
<1>1. job[c] \in JobRow /\ Fits(pc[c], job[c], token, Empties)
  BY DEF IInv, Types
<1>2. job[c].tries \in Nat /\ job[c].elapsed \in Nat /\ job[c].tries < Attempts
  BY <1>1, Times DEF JobRow, Fits, InHand
<1>3. n \in 1..Attempts /\ n \in 0..Attempts /\ Trip \in 0..(Trip + Pause) /\ NoReply \in Reply
  BY <1>2, Times, Rows
<1>4. job[c].elapsed <= Span(n - 1)
  <2>1. n - 1 = job[c].tries
    BY <1>2
  <2>2. Span(job[c].tries) \in Nat
    BY <1>2, SpanFacts
  <2> DEFINE spent == Span(job[c].tries)
  <2>3. job[c].elapsed = 0 \/ (job[c].left = 0 /\ job[c].elapsed + job[c].left <= spent)
    BY <1>1 DEF Fits, InHand, Timely
  <2> HIDE DEF spent
  <2>4. job[c].elapsed <= spent
    BY <1>2, <2>2, <2>3 DEF spent
  <2> QED BY <2>1, <2>4 DEF spent
<1> HIDE DEF n
<1>5. j \in JobRow
  BY <1>1, <1>3 DEF JobRow
<1>6. j.tries = n /\ j.left = Trip /\ j.reply = NoReply /\ j.elapsed = job[c].elapsed
  BY <1>1 DEF JobRow
<1>7. job' = [job EXCEPT ![c] = j] /\ Goto(c, "refresh") /\ "refresh" \in Labels
  BY DEF Ask, Labels, Waiting, n
<1> HIDE DEF j
<1>8. Fits("refresh", j, token, Empties)
  <2>1. Span(n - 1) \in Nat /\ j.elapsed + j.left <= Span(n - 1) + Trip
    BY <1>2, <1>3, <1>4, <1>6, SpanFacts, Times
  <2> QED BY <1>3, <1>6, <2>1, Times, Rows
      DEF Fits, InHand, Timely, Fresh, Whole, PtrStored, LenStored, Past, Storing, None
<1> QED BY <1>5, <1>7, <1>8, SameUsed, OwnStep

(* A caller moves on with what it has in hand. *)
LEMMA GoesOn ==
  ASSUME IInv, NEW c \in Callers, NEW l \in Labels, Goto(c, l), UNCHANGED <<shared, job>>,
         used' \in [Disturbances -> Nat], Empties' = 0 => Empties = 0,
         Fits(l, job[c], token, Empties')
  PROVE  IInv'
<1>1. job[c] \in JobRow /\ job' = [job EXCEPT ![c] = job[c]]
  BY DEF IInv, Types
<1> QED BY <1>1, OwnStep

LEMMA CheckTokenInv == ASSUME IInv, NEW c \in Callers, CheckToken(c) PROVE IInv'
<1>1. CASE Goto(c, "check2") /\ UNCHANGED job
  <2>1. Fits("check", job[c], token, Empties) /\ UNCHANGED <<shared, used>>
    BY DEF CheckToken, IInv
  <2>2. Fits("check2", job[c], token, Empties) /\ "check2" \in Labels
    BY <2>1 DEF Fits, InHand, Timely, Fresh, Whole, PtrStored, LenStored, Past, Storing, Labels
  <2> QED BY <1>1, <2>1, <2>2, SameUsed, GoesOn
<1>2. CASE Ask(c)
  BY <1>2, AskInv DEF CheckToken
<1> QED BY <1>1, <1>2 DEF CheckToken

LEMMA CheckExpiryInv == ASSUME IInv, NEW c \in Callers, CheckExpiry(c) PROVE IInv'
<1>1. CASE expiry > 0 /\ Goto(c, "send") /\ UNCHANGED job
  <2>1. Fits("check2", job[c], token, Empties) /\ UNCHANGED <<shared, used>> /\ Kept(token, expiry, Empties)
    BY DEF CheckExpiry, IInv
  <2>2. InHand("send", job[c]) /\ "send" \in Labels
    BY <2>1 DEF Fits, InHand, Storing, Labels
  <2>3. Timely("send", job[c])
    <3>1. Attempts - 1 \in Nat
      BY Times
    <3>2. Span(Attempts - 1) \in Nat
      BY <3>1, SpanFacts
    <3> QED BY <2>1, <3>2, Times DEF Fits, InHand, Timely, Storing
  <2>4. Fresh("send", job[c], token)
    BY DEF Fresh, PtrStored, Past
  <2>5. Whole("send", job[c], token, Empties)
    BY <1>1, <2>1 DEF Kept, Whole
  <2> QED BY <1>1, <2>1, <2>2, <2>3, <2>4, <2>5, SameUsed, GoesOn DEF Fits
<1>2. CASE Ask(c)
  BY <1>2, AskInv DEF CheckExpiry
<1> QED BY <1>1, <1>2 DEF CheckExpiry

-----------------------------------------------------------------------------
(* An attempt failed, with the cache left alone or with what it says intact.  *)
LEMMA FailedInv ==
  ASSUME IInv, NEW c \in Callers, AttemptFailed(c), pc[c] \in {"refresh", "token2"},
         token' \in Cached, UNCHANGED <<expiry, crmUrl>>, used' \in [Disturbances -> Nat],
         Kept(token', expiry, Empties'),
         Empties' = 0 => Empties = 0, Young(token.ptr) => Young(token'.ptr),
         Empties' = 0 => /\ token.ptr # None => token'.ptr # None
                         /\ token.len = TRUE => token'.len = TRUE
  PROVE  IInv'
<1>0. expiry' \in 0..Life /\ crmUrl' \in Text /\ Kept(token', expiry', Empties')
  BY DEF IInv, Types, Kept
<1>1. CASE Return(c)
  <2>1. "idle" \in Labels
    BY DEF Labels
  <2> QED BY <1>0, <1>1, <2>1, Rows, Nothing, OneStep DEF Return
<1>2. CASE job[c].tries < Attempts /\ Goto(c, "pause")
           /\ job' = [job EXCEPT ![c].left = Pause, ![c].half = "none", ![c].reply = NoReply]
  <2> DEFINE j == [job[c] EXCEPT !.left = Pause, !.half = "none", !.reply = NoReply]
  <2>1. job[c] \in JobRow /\ Fits(pc[c], job[c], token, Empties)
    BY DEF IInv, Types
  <2>2. job[c].tries \in Nat /\ job[c].elapsed \in Nat /\ job[c].left \in Nat /\ job[c].tries > 0
    BY <2>1, Times DEF JobRow, Fits, InHand, Storing
  <2>3. Pause \in 0..(Trip + Pause) /\ NoReply \in Reply
    BY Times, Rows
  <2>4. j \in JobRow
    BY <2>1, <2>3 DEF JobRow
  <2>5. /\ j.tries = job[c].tries /\ j.left = Pause /\ j.reply = NoReply
        /\ j.elapsed = job[c].elapsed
    BY <2>1 DEF JobRow
  <2>6. job' = [job EXCEPT ![c] = j] /\ "pause" \in Labels
    BY <1>2 DEF Labels, Waiting
  <2> HIDE DEF j
  <2>7. j.elapsed + j.left <= Span(j.tries)
    <3> DEFINE m == job[c].tries - 1
    <3>1. m \in Nat /\ m + 1 = job[c].tries
      BY <2>2
    <3>2. Span(m) \in Nat /\ Span(m + 1) = Span(m) + Trip + Pause
      BY <3>1, SpanFacts
    <3>3. job[c].elapsed + job[c].left <= Span(m) + Trip \/ job[c].elapsed <= Span(m) + Trip
      BY <2>1 DEF Fits, Timely, Storing
    <3> HIDE DEF m
    <3>4. job[c].elapsed <= Span(m) + Trip
      BY <2>2, <3>2, <3>3, Times
    <3> QED BY <2>2, <2>5, <3>1, <3>2, <3>4, Times
  <2>8. Fits("pause", j, token', Empties')
    BY <1>2, <2>2, <2>5, <2>7, Times, Rows
    DEF Fits, InHand, Timely, Fresh, Whole, PtrStored, LenStored, Past, Storing
  <2> QED BY <1>0, <1>2, <2>4, <2>6, <2>8, OneStep
<1> QED BY <1>1, <1>2 DEF AttemptFailed, FailThenPause

LEMMA RefreshFailedInv == ASSUME IInv, NEW c \in Callers, RefreshFailed(c) PROVE IInv'
<1>1. AttemptFailed(c) /\ pc[c] = "refresh" /\ Spend("failed")
      /\ token' = token /\ UNCHANGED <<expiry, crmUrl>>
  BY DEF RefreshFailed, shared
<1>2. used' \in [Disturbances -> Nat] /\ (Empties' = 0 => Empties = 0)
  BY <1>1, SpentMore DEF IInv, Disturbances
<1>3. token' \in Cached /\ Kept(token', expiry, Empties')
  BY <1>1, <1>2 DEF IInv, Types, Kept
<1> QED BY <1>1, <1>2, <1>3, FailedInv

LEMMA IssueInv == ASSUME IInv, NEW c \in Callers, Issue(c) PROVE IInv'
<1>1. PICK d \in BOOLEAN, e \in BOOLEAN :
        /\ job' = [job EXCEPT ![c].reply = [bytes |-> Life, domain |-> d, expires |-> e]]
        /\ UNCHANGED used \/ Spend("bare")
  BY DEF Issue
<1> DEFINE r == [bytes |-> Life, domain |-> d, expires |-> e]
           j == [job[c] EXCEPT !.reply = r]
<1>2. job[c] \in JobRow /\ Fits("refresh", job[c], token, Empties) /\ UNCHANGED shared
      /\ Goto(c, "refresh") /\ "refresh" \in Labels
  BY DEF Issue, IInv, Types, Goto, Labels, Waiting
<1>3. r \in Reply /\ r.bytes = Life
  BY Times DEF Reply
<1> HIDE DEF r
<1>4. j \in JobRow
  BY <1>2, <1>3 DEF JobRow
<1>5. /\ j.reply = r /\ j.left = job[c].left /\ j.tries = job[c].tries
      /\ j.elapsed = job[c].elapsed /\ j.left \in Nat
  BY <1>2, Times DEF JobRow
<1>6. job' = [job EXCEPT ![c] = j]
  BY <1>1 DEF r
<1> HIDE DEF j
<1>7. used' \in [Disturbances -> Nat] /\ (Empties' = 0 => Empties = 0)
  BY <1>1, SpentMore, SameUsed DEF IInv, Disturbances
<1>8. InHand("refresh", j)
  BY <1>2, <1>3, <1>5, Times DEF Fits, InHand, Storing
<1>9. Timely("refresh", j)
  BY <1>2, <1>5 DEF Fits, Timely, Storing
<1>10. Fresh("refresh", j, token)
  BY <1>3, <1>5, <1>8, Times DEF Fresh, InHand, PtrStored, Past
<1>11. Whole("refresh", j, token, Empties')
  BY DEF Whole, PtrStored, LenStored, Past
<1> QED BY <1>2, <1>4, <1>6, <1>7, <1>8, <1>9, <1>10, <1>11, OwnStep DEF Fits

LEMMA ArriveInv == ASSUME IInv, NEW c \in Callers, Arrive(c) PROVE IInv'
<1>1. /\ Fits("refresh", job[c], token, Empties) /\ UNCHANGED <<shared, job>>
      /\ Goto(c, "token") /\ "token" \in Labels /\ job[c] \in JobRow
  BY DEF Arrive, IInv, Types, Labels, Storing
<1>2. used' \in [Disturbances -> Nat] /\ (Empties' = 0 => Empties = 0)
      /\ (job[c].reply = NoReply => Empties' > 0)
  <2>1. CASE job[c].reply # NoReply /\ UNCHANGED used
    BY <2>1, SameUsed
  <2>2. CASE Spend("empty")
    BY <2>2, SpentMore DEF IInv, Disturbances
  <2> QED BY <2>1, <2>2 DEF Arrive
<1>3. job[c].left \in Nat /\ job[c].elapsed \in Nat /\ job[c].tries \in Nat /\ job[c].tries > 0
      /\ job[c].reply \in Reply
  BY <1>1, Times DEF JobRow, Fits, InHand
<1>4. InHand("token", job[c])
  BY <1>1 DEF Fits, InHand, Storing
<1>5. Timely("token", job[c])
  <2> DEFINE m == job[c].tries - 1
  <2>1. Span(m) \in Nat
    BY <1>3, SpanFacts
  <2>2. job[c].elapsed + job[c].left <= Span(m) + Trip
    BY <1>1 DEF Fits, Timely
  <2> HIDE DEF m
  <2>3. job[c].elapsed <= Span(m) + Trip
    BY <1>3, <2>1, <2>2, Times
  <2> QED BY <2>3 DEF Timely, Storing, m
<1>6. Fresh("token", job[c], token)
  BY <1>1, <1>3, Times DEF Fits, Fresh, Young, PtrStored, Past, Reply
<1>7. Whole("token", job[c], token, Empties')
  BY <1>2, <1>4 DEF InHand, Whole, PtrStored, LenStored, Past, None
<1> QED BY <1>1, <1>2, <1>4, <1>5, <1>6, <1>7, GoesOn DEF Fits
-----------------------------------------------------------------------------
(* The two words of the token. *)

(* What a caller that stores b into a cache t leaves there. *)
LEMMA Stored ==
  ASSUME IInv, NEW b \in -1..Life, Young(b), NEW w \in {"ptr", "len"},
         token' = Word(w, token, Str(b)), Empties = 0 => b # None, UNCHANGED <<expiry, used>>
  PROVE  /\ token' \in Cached
         /\ w = "ptr" => token'.ptr = b /\ token'.len = token.len
         /\ w = "len" => token'.ptr = token.ptr /\ token'.len = (b # None)
         /\ Young(token.ptr) => Young(token'.ptr)
         /\ Empties = 0 => /\ token.ptr # None => token'.ptr # None
                           /\ token.len = TRUE => token'.len = TRUE
         /\ Kept(token', expiry, Empties)
<1>1. token \in Cached /\ expiry \in 0..Life /\ Kept(token, expiry, Empties)
  BY DEF IInv, Types
<1>2. Str(b) \in Cached /\ Str(b).ptr = b /\ Str(b).len = (b # None)
  BY StrType
<1>3. token' \in Cached /\ token'.ptr = (IF w = "ptr" THEN b ELSE token.ptr)
  BY <1>1, <1>2, WordType
<1>4. token'.len = IF w = "ptr" THEN token.len ELSE Str(b).len
  BY <1>1, <1>2, WordType
<1>5. w = "len" => token'.len = (b # None)
  BY <1>2, <1>4
<1>6. w = "ptr" => token'.len = token.len
  BY <1>4
<1>7. Empties = 0 => (token.len = TRUE => token'.len = TRUE)
  BY <1>5, <1>6
<1>8. Young(token.ptr) => Young(token'.ptr)
  BY <1>3
<1>9. Empties = 0 => (token.ptr # None => token'.ptr # None)
  BY <1>3
<1>10. token'.ptr >= 0 => expiry <= token'.ptr + Trip
  BY <1>1, <1>3, Times DEF Kept, Young
<1>11. Kept(token', expiry, Empties)
  BY <1>1, <1>7, <1>9, <1>10 DEF Kept
<1> QED BY <1>3, <1>5, <1>6, <1>7, <1>8, <1>9, <1>11

(* The answer a caller has in hand when it stores the token. *)
LEMMA Answer ==
  ASSUME IInv, NEW c \in Callers, pc[c] \in {"token", "token2"}
  PROVE  /\ job[c].reply.bytes \in -1..Life /\ Young(job[c].reply.bytes)
         /\ Empties = 0 => job[c].reply.bytes # None
         /\ job[c].reply = NoReply \/ job[c].reply.bytes # None
<1>1. job[c] \in JobRow /\ Fits(pc[c], job[c], token, Empties)
  BY DEF IInv, Types
<1> QED BY <1>1 DEF JobRow, Reply, Fits, Fresh, Whole, InHand, None

LEMMA StoreTokenInv == ASSUME IInv, NEW c \in Callers, StoreToken(c) PROVE IInv'
<1> DEFINE b == job[c].reply.bytes
<1>1. PICK w \in {"ptr", "len"} :
        token' = Word(w, token, Str(b)) /\ job' = [job EXCEPT ![c].half = Other(w)]
  BY DEF StoreToken
<1>2. pc[c] = "token" /\ Goto(c, "token2") /\ UNCHANGED <<expiry, crmUrl, used>> /\ "token2" \in Labels
  BY DEF StoreToken, Labels, Storing
<1>3. b \in -1..Life /\ Young(b) /\ (Empties = 0 => b # None)
  BY <1>2, Answer
<1>4. /\ token' \in Cached
      /\ w = "ptr" => token'.ptr = b
      /\ w = "len" => token'.len = (b # None)
      /\ Young(token.ptr) => Young(token'.ptr)
      /\ Empties = 0 => /\ token.ptr # None => token'.ptr # None
                        /\ token.len = TRUE => token'.len = TRUE
      /\ Kept(token', expiry, Empties)
  BY <1>1, <1>2, <1>3, Stored
<1> DEFINE j == [job[c] EXCEPT !.half = Other(w)]
<1>5. job[c] \in JobRow /\ Fits("token", job[c], token, Empties) /\ Empties' = Empties
      /\ expiry' = expiry /\ crmUrl' = crmUrl /\ used' \in [Disturbances -> Nat]
      /\ expiry' \in 0..Life /\ crmUrl' \in Text
  BY <1>2 DEF IInv, Types, Empties
<1>6. Other(w) \in {"ptr", "len"} /\ (Other(w) = "len" <=> w = "ptr")
  BY DEF Other
<1>7. job' = [job EXCEPT ![c] = j]
  BY <1>1
<1>8. j \in JobRow /\ j.half = Other(w) /\ j.reply = job[c].reply /\ j.tries = job[c].tries
      /\ j.elapsed = job[c].elapsed
  BY <1>5, <1>6 DEF JobRow
<1> HIDE DEF j
<1>9. InHand("token2", j)
  BY <1>5, <1>6, <1>8 DEF Fits, InHand, Storing
<1>10. Timely("token2", j)
  BY <1>5, <1>8 DEF Fits, Timely, Storing
<1>11. Fresh("token2", j, token')
  BY <1>3, <1>4, <1>6, <1>8 DEF Fresh, PtrStored, Past
<1>12. Whole("token2", j, token', Empties')
  <2>1. Empties = 0 => (w = "len" => token'.len = TRUE)
    BY <1>3, <1>4
  <2>2. j.half = "ptr" => w = "len"
    BY <1>6, <1>8
  <2> QED BY <1>3, <1>4, <1>5, <1>6, <1>8, <2>1, <2>2 DEF Whole, PtrStored, LenStored, Past
<1>13. Kept(token', expiry', Empties')
  BY <1>4, <1>5
<1> HIDE DEF b
<1> QED BY <1>2, <1>4, <1>5, <1>7, <1>8, <1>9, <1>10, <1>11, <1>12, <1>13, OneStep DEF Fits

LEMMA FinishTokenInv == ASSUME IInv, NEW c \in Callers, FinishToken(c) PROVE IInv'
<1> DEFINE r == job[c].reply
           b == r.bytes
           w == job[c].half
<1>1. /\ pc[c] = "token2" /\ token' = Word(w, token, Str(b)) /\ UNCHANGED <<expiry, crmUrl, used>>
      /\ job[c] \in JobRow /\ Fits("token2", job[c], token, Empties)
  BY DEF FinishToken, IInv, Types
<1>2. b \in -1..Life /\ Young(b) /\ (Empties = 0 => b # None) /\ (r = NoReply \/ b # None)
  BY <1>1, Answer
<1>3. w \in {"ptr", "len"}
  BY <1>1 DEF JobRow, Fits, InHand
<1>4. /\ token' \in Cached
      /\ w = "ptr" => token'.ptr = b /\ token'.len = token.len
      /\ w = "len" => token'.ptr = token.ptr /\ token'.len = (b # None)
      /\ Young(token.ptr) => Young(token'.ptr)
      /\ Empties = 0 => /\ token.ptr # None => token'.ptr # None
                        /\ token.len = TRUE => token'.len = TRUE
      /\ Kept(token', expiry, Empties)
  BY <1>1, <1>2, <1>3, Stored
<1>5. Empties' = Empties /\ used' \in [Disturbances -> Nat]
  BY <1>1, SameUsed
<1>6. CASE r = NoReply
  <2>1. AttemptFailed(c)
    BY <1>6 DEF FinishToken
  <2>2. Kept(token', expiry, Empties')
    BY <1>4, <1>5
  <2> HIDE DEF r, b, w
  <2> QED BY <1>1, <1>4, <1>5, <2>1, <2>2, FailedInv
<1>7. CASE r # NoReply
  <2> DEFINE l == IF r.domain THEN "url" ELSE AfterUrl(r)
             j == [job[c] EXCEPT !.half = "none", !.reply.bytes = None]
             r2 == [r EXCEPT !.bytes = None]
  <2>1. Goto(c, l) /\ job' = [job EXCEPT ![c] = j]
    BY <1>7 DEF FinishToken
  <2>2. l \in {"url", "expiry", "send"} /\ l \in Labels
    BY DEF AfterUrl, Labels, Storing
  <2>3. r \in Reply /\ r2 \in Reply /\ r2.bytes = None
    <3>1. r \in Reply
      BY <1>1 DEF JobRow
    <3> HIDE DEF r
    <3>2. None \in -1..Life
      BY Times DEF None
    <3> QED BY <3>1, <3>2 DEF Reply
  <2>4. j = [job[c] EXCEPT !.half = "none", !.reply = r2]
    OBVIOUS
  <2> HIDE DEF r2
  <2>5. j \in JobRow /\ j.reply = r2 /\ j.tries = job[c].tries /\ j.elapsed = job[c].elapsed
    BY <1>1, <2>3, <2>4 DEF JobRow
  <2>6. InHand(l, j)
    BY <1>1, <2>2, <2>3, <2>5 DEF Fits, InHand, Storing
  <2>7. Timely(l, j)
    <3> DEFINE m == job[c].tries - 1
    <3>1. job[c].elapsed <= Span(m) + Trip
      BY <1>1 DEF Fits, Timely, Storing
    <3>2. m \in Nat /\ Attempts - 1 \in Nat /\ m <= Attempts - 1 /\ job[c].elapsed \in Nat
      BY <1>1, Times DEF JobRow, Fits, InHand, Storing
    <3>3. Span(m) \in Nat /\ Span(Attempts - 1) \in Nat /\ Span(m) <= Span(Attempts - 1)
      BY <3>2, SpanFacts
    <3>4. job[c].elapsed <= Span(Attempts - 1) + Trip
      <4> HIDE DEF m
      <4> QED BY <3>1, <3>2, <3>3, Times
    <3> HIDE DEF j, l
    <3> QED BY <2>2, <2>5, <3>1, <3>4 DEF Timely, Storing
  <2>8. Young(token'.ptr) /\ (Empties = 0 => token'.ptr # None)
    <3>1. CASE w = "ptr"
      BY <1>2, <1>4, <3>1
    <3>2. CASE w = "len"
      <4>1. PtrStored("token2", job[c])
        BY <3>2 DEF PtrStored
      <4> QED BY <1>1, <1>4, <3>2, <4>1 DEF Fits, Fresh, Whole
    <3> QED BY <1>3, <3>1, <3>2
  <2>9. Empties = 0 => token'.len = TRUE
    <3>1. CASE w = "ptr"
      <4>1. LenStored("token2", job[c])
        BY <3>1 DEF LenStored
      <4> QED BY <1>1, <1>4, <3>1, <4>1 DEF Fits, Whole
    <3>2. CASE w = "len"
      BY <1>2, <1>4, <3>2
    <3> QED BY <1>3, <3>1, <3>2
  <2> HIDE DEF j, l
  <2>10. Fresh(l, j, token') /\ Whole(l, j, token', Empties')
    BY <1>5, <2>2, <2>8, <2>9 DEF Fresh, Whole, PtrStored, LenStored, Past
  <2>11. expiry' \in 0..Life /\ crmUrl' \in Text /\ Kept(token', expiry', Empties')
    BY <1>1, <1>4, <1>5 DEF IInv, Types
  <2> HIDE DEF r, b, w
  <2> QED BY <1>4, <1>5, <2>1, <2>2, <2>5, <2>6, <2>7, <2>10, <2>11, OneStep DEF Fits
<1> QED BY <1>6, <1>7

-----------------------------------------------------------------------------
(* The address and the expiry. *)

LEMMA StoreUrlInv == ASSUME IInv, NEW c \in Callers, StoreUrl(c) PROVE IInv'
<1>1. PICK w \in {"ptr", "len"} :
        crmUrl' = Word(w, crmUrl, Answered) /\ job' = [job EXCEPT ![c].half = Other(w)]
  BY DEF StoreUrl
<1> DEFINE j == [job[c] EXCEPT !.half = Other(w)]
<1>2. /\ pc[c] = "url" /\ Goto(c, "url2") /\ token' = token /\ expiry' = expiry /\ UNCHANGED used
      /\ "url2" \in Labels /\ job[c] \in JobRow /\ Fits("url", job[c], token, Empties)
      /\ token' \in Cached /\ expiry' \in 0..Life
  BY DEF StoreUrl, Labels, Storing, IInv, Types
<1>3. Empties' = Empties /\ used' \in [Disturbances -> Nat]
  BY <1>2, SameUsed
<1>4. crmUrl' \in Text /\ Other(w) \in {"ptr", "len"}
  BY <1>1, UrlType DEF IInv, Types, Other
<1>5. /\ j \in JobRow /\ j.half = Other(w) /\ j.reply = job[c].reply /\ j.tries = job[c].tries
      /\ j.elapsed = job[c].elapsed /\ job' = [job EXCEPT ![c] = j]
  BY <1>1, <1>2, <1>4 DEF JobRow
<1> HIDE DEF j
<1>6. Fits("url2", j, token', Empties')
  BY <1>2, <1>3, <1>4, <1>5
  DEF Fits, InHand, Timely, Fresh, Whole, PtrStored, LenStored, Past, Storing
<1>7. Kept(token', expiry', Empties')
  BY <1>2, <1>3 DEF IInv
<1> QED BY <1>2, <1>3, <1>4, <1>5, <1>6, <1>7, OneStep

LEMMA FinishUrlInv == ASSUME IInv, NEW c \in Callers, FinishUrl(c) PROVE IInv'
<1> DEFINE l == AfterUrl(job[c].reply)
           j == [job[c] EXCEPT !.half = "none"]
<1>1. /\ pc[c] = "url2" /\ Goto(c, l) /\ token' = token /\ expiry' = expiry /\ UNCHANGED used
      /\ job[c] \in JobRow /\ Fits("url2", job[c], token, Empties)
      /\ token' \in Cached /\ expiry' \in 0..Life /\ job' = [job EXCEPT ![c] = j]
  BY DEF FinishUrl, IInv, Types
<1>2. Empties' = Empties /\ used' \in [Disturbances -> Nat]
  BY <1>1, SameUsed
<1>3. crmUrl' \in Text
  <2>1. job[c].half \in {"ptr", "len"}
    BY <1>1 DEF JobRow, Fits, InHand
  <2> QED BY <2>1, UrlType DEF FinishUrl, IInv, Types
<1>4. l \in {"expiry", "send"} /\ l \in Labels
  BY DEF AfterUrl, Labels, Storing
<1>5. /\ j \in JobRow /\ j.reply = job[c].reply /\ j.tries = job[c].tries
      /\ j.elapsed = job[c].elapsed
  BY <1>1 DEF JobRow
<1>6. job[c].elapsed <= Span(job[c].tries - 1) + Trip /\ job[c].elapsed <= Span(Attempts - 1) + Trip
  <2> DEFINE m == job[c].tries - 1
  <2>1. job[c].elapsed <= Span(m) + Trip
    BY <1>1 DEF Fits, Timely, Storing
  <2>2. m \in Nat /\ Attempts - 1 \in Nat /\ m <= Attempts - 1 /\ job[c].elapsed \in Nat
    BY <1>1, Times DEF JobRow, Fits, InHand, Storing
  <2>3. Span(m) \in Nat /\ Span(Attempts - 1) \in Nat /\ Span(m) <= Span(Attempts - 1)
    BY <2>2, SpanFacts
  <2>4. job[c].elapsed <= Span(Attempts - 1) + Trip
    <3> HIDE DEF m
    <3> QED BY <2>1, <2>2, <2>3, Times
  <2> QED BY <2>1, <2>4
<1> HIDE DEF j, l
<1>7. Timely(l, j)
  BY <1>4, <1>5, <1>6 DEF Timely, Storing
<1>8. InHand(l, j) /\ Fresh(l, j, token') /\ Whole(l, j, token', Empties')
  BY <1>1, <1>2, <1>4, <1>5
  DEF Fits, InHand, Fresh, Whole, PtrStored, LenStored, Past, Storing
<1>9. Kept(token', expiry', Empties')
  BY <1>1, <1>2 DEF IInv
<1> QED BY <1>1, <1>2, <1>3, <1>4, <1>5, <1>7, <1>8, <1>9, OneStep DEF Fits

(* A caller that has stored a token, or seen a valid one, goes on to send.    *)
LEMMA StoreExpiryInv == ASSUME IInv, NEW c \in Callers, StoreExpiry(c) PROVE IInv'
<1>1. /\ pc[c] = "expiry" /\ Goto(c, "send") /\ token' = token /\ expiry' = Life /\ crmUrl' = crmUrl
      /\ UNCHANGED <<job, used>> /\ "send" \in Labels /\ job[c] \in JobRow
      /\ Fits("expiry", job[c], token, Empties) /\ token' \in Cached /\ crmUrl' \in Text
  BY DEF StoreExpiry, Labels, IInv, Types
<1>2. Empties' = Empties /\ used' \in [Disturbances -> Nat] /\ expiry' \in 0..Life
  BY <1>1, SameUsed, Times
<1>3. Kept(token', expiry', Empties')
  BY <1>1, <1>2, Times DEF Kept, Fits, Fresh, Whole, PtrStored, LenStored, Past, Young, Cached
<1>4. Timely("send", job[c])
  <2> DEFINE m == job[c].tries - 1
  <2>1. job[c].elapsed <= Span(m) + Trip
    BY <1>1 DEF Fits, Timely, Storing
  <2>2. m \in Nat /\ Attempts - 1 \in Nat /\ m <= Attempts - 1 /\ job[c].elapsed \in Nat
    BY <1>1, Times DEF JobRow, Fits, InHand, Storing
  <2>3. Span(m) \in Nat /\ Span(Attempts - 1) \in Nat /\ Span(m) <= Span(Attempts - 1)
    BY <2>2, SpanFacts
  <2>4. job[c].elapsed <= Span(Attempts - 1) + Trip
    <3> HIDE DEF m
    <3> QED BY <2>1, <2>2, <2>3, Times
  <2> QED BY <2>4 DEF Timely, Storing
<1>5. InHand("send", job[c]) /\ Fresh("send", job[c], token') /\ Whole("send", job[c], token', Empties')
  BY <1>1, <1>2 DEF Fits, InHand, Fresh, Whole, PtrStored, LenStored, Past, Storing
<1>6. job' = [job EXCEPT ![c] = job[c]]
  BY <1>1 DEF IInv, Types
<1> QED BY <1>1, <1>2, <1>3, <1>4, <1>5, <1>6, OneStep DEF Fits

-----------------------------------------------------------------------------
(* The request. *)

LEMMA SendInv == ASSUME IInv, NEW c \in Callers, Send(c) PROVE IInv'
<1> DEFINE j == [job[c] EXCEPT !.sent = token, !.left = Trip, !.reply = NoReply]
<1>1. /\ Goto(c, "call") /\ UNCHANGED <<shared, used>> /\ job' = [job EXCEPT ![c] = j]
      /\ job[c] \in JobRow /\ Fits("send", job[c], token, Empties) /\ token \in Cached
      /\ "call" \in Labels
  BY DEF Send, IInv, Types, Labels, Waiting
<1>2. Trip \in 0..(Trip + Pause) /\ NoReply \in Reply
  BY Times, Rows
<1>3. j \in JobRow /\ j.left = Trip /\ j.reply = NoReply /\ j.elapsed = job[c].elapsed
  BY <1>1, <1>2 DEF JobRow
<1> HIDE DEF j
<1>4. Timely("call", j)
  <2>1. Attempts - 1 \in Nat
    BY Times
  <2>2. Span(Attempts - 1) \in Nat /\ job[c].elapsed \in Nat
    BY <1>1, <2>1, SpanFacts DEF JobRow
  <2> QED BY <1>1, <1>3, <2>2, Times DEF Fits, Timely, Storing
<1>5. InHand("call", j) /\ Fresh("call", j, token) /\ Whole("call", j, token, Empties)
  BY <1>3, Rows DEF InHand, Fresh, Whole, PtrStored, LenStored, Past, Storing
<1> QED BY <1>1, <1>3, <1>4, <1>5, SameUsed, OwnStep DEF Fits

LEMMA PanicInv == ASSUME IInv, NEW c \in Callers, Panic(c) PROVE IInv'
<1>1. CASE Return(c) /\ UNCHANGED shared
  BY <1>1, SameUsed, ReturnInv DEF Panic
<1>2. CASE /\ token' = Empty /\ expiry' = 0 /\ crmUrl' = Configured
           /\ pc' = [d \in Callers |-> "idle"] /\ job' = [d \in Callers |-> NoJob]
  <2>1. Types'
    BY <1>2, Rows, Times, SameUsed DEF Panic, Types, Labels
  <2>2. Kept(token', expiry', Empties')
    BY <1>2, Rows DEF Kept, None
  <2> QED BY <1>2, <2>1, <2>2, Nothing DEF IInv
<1> QED BY <1>1, <1>2 DEF Panic

LEMMA FinishInv == ASSUME IInv, NEW c \in Callers, Finish(c) PROVE IInv'
BY SameUsed, ReturnInv DEF Finish

-----------------------------------------------------------------------------
(* Zoho and the clock. *)

LEMMA RevokeInv == ASSUME IInv, Revoke PROVE IInv'
<1>1. /\ token.ptr > 0 /\ token' = [token EXCEPT !.ptr = Revoked] /\ UNCHANGED <<expiry, crmUrl, pc, job>>
      /\ token \in Cached
  BY DEF Revoke, IInv, Types
<1>2. used' \in [Disturbances -> Nat] /\ (Empties' = 0 => Empties = 0)
  BY SpentMore DEF Revoke, IInv, Disturbances
<1>3. token' \in Cached /\ token'.ptr = -2 /\ token'.len = token.len
  BY <1>1, Times DEF Cached, Revoked
<1>4. Types'
  BY <1>1, <1>2, <1>3 DEF IInv, Types
<1>5. Kept(token', expiry', Empties')
  BY <1>1, <1>2, <1>3 DEF IInv, Kept, None
<1>6. Young(token'.ptr) /\ token'.ptr # None
  BY <1>3 DEF Young, None
<1>7. \A q \in Callers : Fits(pc[q], job[q], token', Empties')
  BY <1>2, <1>3, <1>6, Undisturbed DEF IInv
<1> QED BY <1>1, <1>4, <1>5, <1>7 DEF IInv

LEMMA LessFacts ==
  \A n \in -2..Life : /\ Less(n) \in -2..Life /\ Less(n) <= n
                      /\ n >= 0 => Less(n) >= 0
                      /\ n < 0 => Less(n) = n
                      /\ n > 0 => Less(n) = n - 1
BY Times DEF Less

LEMMA AgedFacts ==
  ASSUME NEW j \in JobRow, j.left > 0
  PROVE  /\ Aged(j) \in JobRow
         /\ Aged(j).reply.bytes = Less(j.reply.bytes) /\ (j.reply = NoReply => Aged(j).reply = NoReply)
         /\ Aged(j).left = j.left - 1 /\ Aged(j).elapsed = j.elapsed + 1
         /\ Aged(j).tries = j.tries
<1> DEFINE b == Less(j.reply.bytes)
           t == Less(j.sent.ptr)
           r == [j.reply EXCEPT !.bytes = b]
           q == [j.sent EXCEPT !.ptr = t]
<1>1. j.reply \in Reply /\ j.sent \in Cached /\ j.reply.bytes \in -1..Life /\ j.sent.ptr \in -2..Life
  BY DEF JobRow, Reply, Cached
<1>2. b \in -1..Life /\ t \in -2..Life
  BY <1>1, LessFacts, Times DEF Less
<1>3. j.reply = NoReply => b = None
  BY Rows, Times DEF Less, None
<1>4. Aged(j) = [j EXCEPT !.reply = r, !.sent = q, !.left = j.left - 1, !.elapsed = j.elapsed + 1]
  BY DEF Aged
<1> HIDE DEF b, t
<1>5. r \in Reply /\ r.bytes = b /\ q \in Cached
  BY <1>1, <1>2 DEF Reply, Cached
<1>6. j.reply = NoReply => r = NoReply
  <2> SUFFICES ASSUME j.reply = NoReply PROVE r = NoReply
    OBVIOUS
  <2>1. NoReply \in Reply /\ r \in Reply /\ r.bytes = None /\ NoReply.bytes = None
    BY <1>1, <1>3, <1>5, Rows
  <2>2. r.domain = NoReply.domain /\ r.expires = NoReply.expires
    BY <1>1 DEF Reply
  <2>3. \A x, y \in Reply : x.bytes = y.bytes /\ x.domain = y.domain /\ x.expires = y.expires => x = y
    BY DEF Reply
  <2> QED BY <2>1, <2>2, <2>3
<1> HIDE DEF r, q
<1>7. j.left - 1 \in 0..(Trip + Pause) /\ j.elapsed + 1 \in Nat
  BY Times DEF JobRow
<1>8. Aged(j) \in JobRow
  BY <1>4, <1>5, <1>7 DEF JobRow
<1>9. Aged(j).reply = r /\ Aged(j).left = j.left - 1 /\ Aged(j).elapsed = j.elapsed + 1
      /\ Aged(j).tries = j.tries
  BY <1>4 DEF JobRow
<1> QED BY <1>5, <1>6, <1>8, <1>9 DEF b

LEMMA TickInv == ASSUME IInv, Tick PROVE IInv'
<1>1. /\ \A c \in Callers : pc[c] = "idle" \/ (pc[c] \in Waiting /\ job[c].left > 0)
      /\ token' = [token EXCEPT !.ptr = Less(token.ptr)] /\ expiry' = Less(expiry)
      /\ job' = [c \in Callers |-> IF pc[c] = "idle" THEN NoJob ELSE Aged(job[c])]
      /\ UNCHANGED <<crmUrl, pc, used>> /\ token \in Cached /\ expiry \in 0..Life
      /\ token.ptr \in -2..Life
  BY DEF Tick, IInv, Types, Cached
<1> DEFINE n == Less(token.ptr)
<1>2. n \in -2..Life
  BY <1>1, LessFacts
<1>3. token' \in Cached /\ token'.ptr = n /\ token'.len = token.len
  <2> HIDE DEF n
  <2>1. token' = [token EXCEPT !.ptr = n]
    BY <1>1 DEF n
  <2> QED BY <1>1, <1>2, <2>1 DEF Cached
<1>4. expiry' \in 0..Life /\ (expiry' > 0 => expiry > 0) /\ (n >= 0 => expiry' <= n + Trip)
  BY <1>1, Times DEF Less, IInv, Kept
<1>5. Empties' = Empties /\ used' \in [Disturbances -> Nat]
  BY <1>1, SameUsed
<1>6. token.ptr # None => token'.ptr # None
  BY <1>1, <1>3, Times DEF Less, None
<1>7. Kept(token', expiry', Empties')
  BY <1>3, <1>4, <1>5, <1>6 DEF IInv, Kept
<1>8. \A c \in Callers : job'[c] \in JobRow /\ Fits(pc[c], job'[c], token', Empties')
  <2> TAKE c \in Callers
  <2>1. CASE pc[c] = "idle"
    BY <1>1, <2>1, Nothing, Rows
  <2>2. CASE pc[c] \in Waiting /\ job[c].left > 0
    <3>1. job[c] \in JobRow /\ Fits(pc[c], job[c], token, Empties)
      BY DEF IInv, Types
    <3>2. pc[c] # "idle" /\ job'[c] = Aged(job[c])
      BY <1>1, <2>2 DEF Waiting
    <3> DEFINE j == job'[c]
    <3>3. /\ j \in JobRow /\ j.reply.bytes = Less(job[c].reply.bytes)
          /\ job[c].reply = NoReply => j.reply = NoReply
          /\ j.left = job[c].left - 1 /\ j.elapsed = job[c].elapsed + 1 /\ j.tries = job[c].tries
      BY <2>2, <3>1, <3>2, AgedFacts
    <3>4. job[c].reply.bytes \in -1..Life /\ job[c].left \in Nat /\ job[c].elapsed \in Nat
          /\ job[c].tries \in Nat
      BY <3>1, Times DEF JobRow, Reply
    <3>5. InHand(pc[c], j)
      BY <2>2, <3>1, <3>3, <3>4, Times DEF Fits, InHand, Waiting, Storing, Less, None
    <3>6. Timely(pc[c], j)
      BY <2>2, <3>1, <3>3, <3>4, Times DEF Fits, InHand, Timely, Waiting, Storing
    <3>7. Fresh(pc[c], j, token')
      BY <2>2, <3>1, <3>3, <3>4, Times
      DEF Fits, Fresh, Waiting, PtrStored, Past, Less
    <3>8. Whole(pc[c], j, token', Empties')
      BY <2>2 DEF Whole, Waiting, PtrStored, LenStored, Past
    <3> QED BY <3>3, <3>5, <3>6, <3>7, <3>8 DEF Fits
  <2> QED BY <1>1, <2>1, <2>2
<1>9. Types'
  BY <1>1, <1>3, <1>4, <1>5, <1>8 DEF IInv, Types
<1> QED BY <1>1, <1>7, <1>8, <1>9 DEF IInv

LEMMA StepInv == IInv /\ [Next]_vars => IInv'
<1> SUFFICES ASSUME IInv, [Next]_vars PROVE IInv'
  OBVIOUS
<1>1. CASE UNCHANGED vars
  BY <1>1 DEF vars, shared, IInv, Types, Empties
<1>2. ASSUME NEW c \in Callers, Proceed(c) PROVE IInv'
  <2>1. Resume(c) => IInv'
    BY AskInv DEF Resume
  <2> QED BY <1>2, <2>1, CheckTokenInv, CheckExpiryInv, IssueInv, ArriveInv, StoreTokenInv,
             FinishTokenInv, StoreUrlInv, FinishUrlInv, StoreExpiryInv, SendInv, PanicInv, FinishInv
          DEF Proceed
<1> QED BY <1>1, <1>2, BeginInv, RefreshFailedInv, RevokeInv, TickInv DEF Next

THEOREM Inductive == Spec => []IInv
BY InitInv, StepInv, PTL DEF Spec

-----------------------------------------------------------------------------
(* Token, expiry and jobs keep their types, and a goroutine that has stored   *)
(* one word of a string has the other in hand.                                *)
THEOREM TypeCorrect == Spec => []TypeOK
<1>1. IInv => TypeOK
  BY DEF IInv, Types, TypeOK, Cached, Text, JobRow, Fits, InHand
<1> QED BY <1>1, Inductive, PTL

(* requestToken: for any number of goroutines without a lock, the expiry in   *)
(* the cache outlives the token in the cache by one request at most.          *)
THEOREM ExpiryAlwaysHonest == Spec => []ExpiryHonest
<1>1. IInv => ExpiryHonest
  BY DEF IInv, Kept, ExpiryHonest
<1> QED BY <1>1, Inductive, PTL

(* RefreshToken: as long as Zoho never answers without a token, no goroutine  *)
(* gets as far as a request with an empty token or half of one.               *)
THEOREM EmptyAlwaysAccounted == Spec => []EmptyAccounted
<1>1. IInv => EmptyAccounted
  BY DEF IInv, Types, Fits, Whole, EmptyAccounted, Empties, Disturbances
<1> QED BY <1>1, Inductive, PTL

(* doRequest: no call outlasts its attempts, pauses and request, whatever the *)
(* other goroutines do to the cache meanwhile.                                *)
THEOREM CallsAlwaysBounded == Spec => []CallBounded
<1>1. IInv => CallBounded
  <2> SUFFICES ASSUME IInv, NEW c \in Callers
               PROVE  job[c].elapsed <= Attempts * Trip + (Attempts - 1) * Pause + Trip
    BY DEF CallBounded
  <2> DEFINE most == Span(Attempts - 1)
             m == job[c].tries - 1
  <2>1. /\ job[c] \in JobRow /\ pc[c] \in Labels
        /\ InHand(pc[c], job[c]) /\ Timely(pc[c], job[c])
    BY DEF IInv, Types, Fits
  <2>2. job[c].elapsed \in Nat /\ job[c].left \in Nat /\ job[c].tries \in 0..Attempts
    BY <2>1, Times DEF JobRow
  <2>3. most \in Nat
    <3>1. Attempts - 1 \in Nat
      BY Times
    <3> QED BY <3>1, SpanFacts
  <2>4. job[c].elapsed <= most + Trip + Trip
    <3>1. CASE pc[c] \in {"idle", "check", "check2"}
      BY <2>1, <2>3, <3>1, Rows, Times DEF InHand
    <3>2. CASE pc[c] \in Storing \cup {"refresh"}
      <4>1. m \in Nat /\ Attempts - 1 \in Nat /\ m <= Attempts - 1
        BY <2>1, <2>2, <3>2, Times DEF InHand
      <4>2. Span(m) \in Nat /\ Span(m) <= most
        BY <4>1, SpanFacts
      <4>3. job[c].elapsed <= Span(m) + Trip \/ job[c].elapsed + job[c].left <= Span(m) + Trip
        BY <2>1, <3>2 DEF Timely
      <4> HIDE DEF m, most
      <4> QED BY <2>2, <2>3, <4>2, <4>3, Times
    <3>3. CASE pc[c] = "pause"
      <4>1. job[c].tries \in Nat /\ Attempts - 1 \in Nat /\ job[c].tries <= Attempts - 1
        BY <2>1, <2>2, <3>3, Times DEF InHand
      <4>2. Span(job[c].tries) \in Nat /\ Span(job[c].tries) <= most
        BY <4>1, SpanFacts
      <4>3. job[c].elapsed + job[c].left <= Span(job[c].tries)
        BY <2>1, <3>3 DEF Timely
      <4> HIDE DEF most
      <4> QED BY <2>2, <2>3, <4>2, <4>3, Times
    <3>4. CASE pc[c] \in {"send", "call"}
      <4> HIDE DEF most
      <4>1. job[c].elapsed <= most + Trip \/ job[c].elapsed + job[c].left <= most + Trip + Trip
        BY <2>1, <3>4 DEF Timely, most
      <4> QED BY <2>2, <2>3, <4>1, Times
    <3> QED BY <2>1, <3>1, <3>2, <3>3, <3>4 DEF Labels, Waiting
  <2>5. most + Trip + Trip = Attempts * Trip + (Attempts - 1) * Pause + Trip
    BY Times DEF Span
  <2> QED BY <2>4, <2>5
<1> QED BY <1>1, Inductive, PTL
=============================================================================
