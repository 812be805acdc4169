------------------------------ MODULE TokenCache ------------------------------
(***************************************************************************)
(* The OAuth token of ZohoService: every goroutine that calls Zoho reads   *)
(* and refreshes the same refreshToken, tokenExpiry and crmUrl, without a  *)
(* lock.  A Go string is two words, its bytes and its length, which are    *)
(* stored one after the other: a reader may see one of them only.          *)
(*                                                                         *)
(* One tick is 30 s, the timeout of the HTTP client and the pause between  *)
(* two attempts; the code between two waits takes no time.  The bytes of a *)
(* token are represented by what is left of its life at Zoho.              *)
(***************************************************************************)
EXTENDS Integers

CONSTANTS
  Callers,      \* goroutines that call Zoho: the pollers and the handlers
  Pollers,      \* those of them that poll: nothing recovers their panics
  Life,         \* ticks a token lives, the expires_in Zoho answers
  Trip,         \* ticks after which the HTTP client gives up
  Pause,        \* ticks between two attempts
  Attempts,     \* how often a refresh is attempted
  Budget,       \* Budget[k]: how often Zoho does k (bounds the model)
  MaxTotal      \* how often it does anything unusual (bounds the model)

Disturbances == {"failed", "empty", "bare", "revoke"}

ASSUME TimesAssumption ==
  /\ Pollers \subseteq Callers
  /\ Life \in Nat \ {0} /\ Trip \in Nat /\ Pause \in Nat
  /\ Attempts \in Nat \ {0}

ASSUME BoundsAssumption == Budget \in [Disturbances -> Nat] /\ MaxTotal \in Nat

VARIABLES
  token,        \* refreshToken, [ptr, len]
  expiry,       \* ticks until tokenExpiry, 0 when it has passed or was never set
  crmUrl,       \* crmUrl, [ptr, len]
  pc, job,      \* where each caller is, and what it has in hand
  used          \* disturbances so far

shared == <<token, expiry, crmUrl>>
vars == <<shared, pc, job, used>>

-----------------------------------------------------------------------------
None == -1          \* a nil pointer, the bytes of an empty string
Revoked == -2       \* the bytes of a token Zoho no longer accepts

Str(bytes) == [ptr |-> bytes, len |-> bytes # None]
Empty == Str(None)
Domain(d) == [ptr |-> d, len |-> d]
Configured == Domain("configured")
Answered == Domain("answered")

(* A caller's request: its address, the token it was sent with, what Zoho   *)
(* answered, the word of a string still to be stored, the ticks until it    *)
(* times out or its pause ends, attempts made, ticks since the call began.  *)
NoReply == [bytes |-> None, domain |-> FALSE, expires |-> FALSE]
NoJob == [url |-> Configured, sent |-> Empty, reply |-> NoReply, half |-> "none",
          left |-> 0, tries |-> 0, elapsed |-> 0]

Spent == used["failed"] + used["empty"] + used["bare"] + used["revoke"]
Spend(k) == /\ used[k] < Budget[k] /\ Spent < MaxTotal
            /\ used' = [used EXCEPT ![k] = @ + 1]

Goto(c, l) == pc' = [pc EXCEPT ![c] = l]

Waiting == {"refresh", "pause", "call"}
Storing == {"token", "token2", "url", "url2", "expiry"}
Labels == {"idle", "check", "check2", "send"} \cup Waiting \cup Storing

-----------------------------------------------------------------------------
Init ==
  /\ token = Empty /\ expiry = 0 /\ crmUrl = Configured
  /\ pc = [c \in Callers |-> "idle"]
  /\ job = [c \in Callers |-> NoJob]
  /\ used = [k \in Disturbances |-> 0]

(* doRequest and doRawRequest: the address is built before the token is     *)
(* refreshed.                                                               *)
Begin(c) ==
  /\ pc[c] = "idle"
  /\ job' = [job EXCEPT ![c].url = crmUrl]
  /\ Goto(c, "check")
  /\ UNCHANGED <<shared, used>>

(* The call is over, with an answer or an error. *)
Return(c) == Goto(c, "idle") /\ job' = [job EXCEPT ![c] = NoJob]

(* requestToken: the request that asks for a token goes out. *)
Ask(c) ==
  /\ job' = [job EXCEPT ![c].tries = @ + 1, ![c].left = Trip, ![c].reply = NoReply]
  /\ Goto(c, "refresh")

(* RefreshToken reads the token's length, and then the expiry. *)
CheckToken(c) ==
  /\ pc[c] = "check"
  /\ IF token.len THEN Goto(c, "check2") /\ UNCHANGED job ELSE Ask(c)
  /\ UNCHANGED <<shared, used>>

(* Mutant: a token that is there is taken to be valid. *)
CheckExpiryNever(c) ==
  /\ pc[c] = "check2"
  /\ Goto(c, "send")
  /\ UNCHANGED <<shared, job, used>>

CheckExpiry(c) ==
  /\ pc[c] = "check2"
  /\ IF expiry > 0 THEN Goto(c, "send") /\ UNCHANGED job ELSE Ask(c)
  /\ UNCHANGED <<shared, used>>

(* An attempt failed: a pause, or after the last one the call's end. *)
FailThenPause(c, n) ==
  IF job[c].tries < Attempts
    THEN /\ Goto(c, "pause")
         /\ job' = [job EXCEPT ![c].left = n, ![c].half = "none", ![c].reply = NoReply]
    ELSE Return(c)

(* Mutant: the pauses grow. *)
AttemptFailedBackOff(c) == FailThenPause(c, Pause * job[c].tries)

AttemptFailed(c) == FailThenPause(c, Pause)

(* The pause is over; the cache is not looked at again before the attempt. *)
Resume(c) ==
  /\ pc[c] = "pause" /\ job[c].left = 0
  /\ Ask(c)
  /\ UNCHANGED <<shared, used>>

(* Zoho issues a token, and the answer is on its way; it names the domain   *)
(* to use and the token's life, or (rarely) not.                            *)
Issue(c) ==
  /\ pc[c] = "refresh" /\ job[c].reply = NoReply
  /\ \E d, e \in BOOLEAN :
       /\ job' = [job EXCEPT ![c].reply = [bytes |-> Life, domain |-> d, expires |-> e]]
       /\ IF d /\ e THEN UNCHANGED used ELSE Spend("bare")
  /\ UNCHANGED <<shared, pc>>

(* Mutant: a failure also forgets the token that is cached. *)
RefreshFailedForgets(c) ==
  /\ pc[c] = "refresh"
  /\ AttemptFailed(c)
  /\ Spend("failed")
  /\ token' = Empty
  /\ UNCHANGED <<expiry, crmUrl>>

(* The refresh failed: a status other than 200, a body that is no JSON, a   *)
(* broken connection or the timeout.                                        *)
RefreshFailed(c) ==
  /\ pc[c] = "refresh"
  /\ AttemptFailed(c)
  /\ Spend("failed")
  /\ UNCHANGED shared

(* The answer has arrived: a token, or (a refused refresh has status 200    *)
(* too) none.                                                               *)
Arrive(c) ==
  /\ pc[c] = "refresh"
  /\ IF job[c].reply # NoReply THEN UNCHANGED used ELSE Spend("empty")
  /\ Goto(c, "token")
  /\ UNCHANGED <<shared, job>>

(* A string is stored word by word, in either order. *)
Word(w, s, new) == IF w = "ptr" THEN [s EXCEPT !.ptr = new.ptr] ELSE [s EXCEPT !.len = new.len]
Other(w) == IF w = "ptr" THEN "len" ELSE "ptr"

AfterUrl(r) == IF r.expires THEN "expiry" ELSE "send"

(* requestToken stores the token before it looks whether there is one. *)
StoreToken(c) ==
  /\ pc[c] = "token"
  /\ \E w \in {"ptr", "len"} :
       /\ token' = Word(w, token, Str(job[c].reply.bytes))
       /\ job' = [job EXCEPT ![c].half = Other(w)]
  /\ Goto(c, "token2")
  /\ UNCHANGED <<expiry, crmUrl, used>>

(* The second word, and then the answer is looked at. *)
FinishToken(c) ==
  LET r == job[c].reply IN
  /\ pc[c] = "token2"
  /\ token' = Word(job[c].half, token, Str(r.bytes))
  /\ IF r = NoReply
       THEN AttemptFailed(c)
       ELSE /\ Goto(c, IF r.domain THEN "url" ELSE AfterUrl(r))
            /\ job' = [job EXCEPT ![c].half = "none", ![c].reply.bytes = None]
  /\ UNCHANGED <<expiry, crmUrl, used>>

StoreUrl(c) ==
  /\ pc[c] = "url"
  /\ \E w \in {"ptr", "len"} :
       /\ crmUrl' = Word(w, crmUrl, Answered)
       /\ job' = [job EXCEPT ![c].half = Other(w)]
  /\ Goto(c, "url2")
  /\ UNCHANGED <<token, expiry, used>>

FinishUrl(c) ==
  /\ pc[c] = "url2"
  /\ crmUrl' = Word(job[c].half, crmUrl, Answered)
  /\ Goto(c, AfterUrl(job[c].reply))
  /\ job' = [job EXCEPT ![c].half = "none"]
  /\ UNCHANGED <<token, expiry, used>>

(* Mutant: the life is counted as if the clock had been two ticks ahead. *)
StoreExpiryLate(c) ==
  /\ pc[c] = "expiry"
  /\ expiry' = Life + Trip + 1
  /\ Goto(c, "send")
  /\ UNCHANGED <<token, crmUrl, job, used>>

(* tokenExpiry is counted from now, not from when Zoho issued the token. *)
StoreExpiry(c) ==
  /\ pc[c] = "expiry"
  /\ expiry' = Life
  /\ Goto(c, "send")
  /\ UNCHANGED <<token, crmUrl, job, used>>

(* The request goes out with the token the cache holds by now, whoever put *)
(* it there.                                                               *)
Broken == token.len /\ token.ptr = None

Send(c) ==
  /\ pc[c] = "send" /\ ~Broken
  /\ job' = [job EXCEPT ![c].sent = token, ![c].left = Trip, ![c].reply = NoReply]
  /\ Goto(c, "call")
  /\ UNCHANGED <<shared, used>>

(* To copy bytes that are not there is a panic: the server recovers that of *)
(* a handler, that of a poller ends the process, which starts anew.         *)
Panic(c) ==
  /\ pc[c] = "send" /\ Broken
  /\ IF c \in Pollers
       THEN /\ token' = Empty /\ expiry' = 0 /\ crmUrl' = Configured
            /\ pc' = [d \in Callers |-> "idle"]
            /\ job' = [d \in Callers |-> NoJob]
       ELSE Return(c) /\ UNCHANGED shared
  /\ UNCHANGED used

(* Zoho's answer, or the timeout; that the token was refused is an error    *)
(* like any other.                                                          *)
Finish(c) ==
  /\ pc[c] = "call"
  /\ Return(c)
  /\ UNCHANGED <<shared, used>>

(* Zoho no longer accepts the cached token. *)
Revoke ==
  /\ token.ptr > 0 /\ Spend("revoke")
  /\ token' = [token EXCEPT !.ptr = Revoked]
  /\ UNCHANGED <<expiry, crmUrl, pc, job>>

(* 30 s pass, unless some caller has something to do now. *)
Less(n) == IF n > 0 THEN n - 1 ELSE n

Aged(j) == [j EXCEPT !.reply.bytes = Less(@), !.sent.ptr = Less(@),
                     !.left = @ - 1, !.elapsed = @ + 1]

Tick ==
  /\ \A c \in Callers : pc[c] = "idle" \/ (pc[c] \in Waiting /\ job[c].left > 0)
  /\ token' = [token EXCEPT !.ptr = Less(@)]
  /\ expiry' = Less(expiry)
  /\ job' = [c \in Callers |-> IF pc[c] = "idle" THEN NoJob ELSE Aged(job[c])]
  /\ UNCHANGED <<crmUrl, pc, used>>

-----------------------------------------------------------------------------
Proceed(c) ==
  \/ CheckToken(c) \/ CheckExpiry(c) \/ Resume(c) \/ Issue(c) \/ Arrive(c)
  \/ StoreToken(c) \/ FinishToken(c) \/ StoreUrl(c) \/ FinishUrl(c)
  \/ StoreExpiry(c) \/ Send(c) \/ Panic(c) \/ Finish(c)

Next ==
  \/ \E c \in Callers : Begin(c) \/ Proceed(c) \/ RefreshFailed(c)
  \/ Revoke \/ Tick

Spec == Init /\ [][Next]_vars

(* Goroutines are scheduled, time goes on, and a poller has orders to send  *)
(* again and again.                                                         *)
FairSpec ==
  /\ Spec /\ []<><<Tick>>_vars
  /\ \A c \in Callers : WF_vars(Proceed(c))
  /\ \A c \in Pollers : WF_vars(Begin(c))

-----------------------------------------------------------------------------
(* The variables keep their types. *)
TypeOK ==
  /\ token \in [ptr : -2..Life, len : BOOLEAN]
  /\ expiry \in 0..Life
  /\ crmUrl \in [ptr : {"configured", "answered"}, len : {"configured", "answered"}]
  /\ pc \in [Callers -> Labels]
  /\ \A c \in Callers :
       /\ job[c].left \in 0..(Trip + Pause)
       /\ job[c].tries \in 0..Attempts
       /\ job[c].half \in {"none", "ptr", "len"}
       /\ pc[c] \in {"token2", "url2"} => job[c].half # "none"

(* RefreshToken: a request is about to go out without a token, or with half *)
(* of one, only if Zoho has answered a refresh without a token: the races   *)
(* between the callers alone do not bring it about.                         *)
EmptyAccounted ==
  \A c \in Callers :
    pc[c] = "send" /\ ~(token.len /\ token.ptr # None) => used["empty"] > 0

(* requestToken: the cached expiry, counted from the arrival of the answer, *)
(* outlives the cached token by one request at most, also when the token of *)
(* one caller and the expiry of another are cached; unless it was revoked.  *)
ExpiryHonest == token.ptr >= 0 => expiry <= token.ptr + Trip

(* doRequest: a call of Zoho, with all the attempts at a token and the      *)
(* pauses between them, is over in the time the constants allow.            *)
CallBounded ==
  \A c \in Callers :
    job[c].elapsed <= Attempts * Trip + (Attempts - 1) * Pause + Trip

Served(c) ==
  /\ pc[c] = "call"
  /\ job[c].sent.len /\ job[c].sent.ptr > 0
  /\ job[c].url \in {Configured, Answered}

(* RefreshToken: once Zoho behaves, calls carry a live token to a proper    *)
(* address again and again, although a 401 is not acted upon, an empty      *)
(* token is stored, and a token may be half overwritten.                    *)
ServiceResumes == []<>(\E c \in Callers : Served(c))
=============================================================================
