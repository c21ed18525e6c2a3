--------------------------- MODULE PlatformClient ---------------------------
(***************************************************************************)
(* One call of the platform's API: the access token of lib/qqapi/client.go *)
(* and the retry loop of lib/requests/requests.go, by any number of        *)
(* goroutines at once.                                                     *)
(*                                                                         *)
(* Time is counted in ticks of the HTTP client's timeout, five seconds in  *)
(* main.go.  An attempt and a pause between two attempts (half a second at *)
(* most) each end within a tick, and so does a goroutine's way from one    *)
(* step to the next; waiting for the lock of the token may take longer.    *)
(*                                                                         *)
(* A token is known by the ticks the platform still grants it, 0 once it   *)
(* has expired, and the cache by the ticks until it gives its token up:    *)
(* moments are kept as what is left until them, so that time has no bound. *)
(* NULL is the empty string.  getAccessToken returns c.accessToken after it has *)
(* released the read lock: what it returns may be a newer token than the   *)
(* one it has checked.  Tokens have one length, so that a torn read of the *)
(* string yields one of the two.                                           *)
(***************************************************************************)
EXTENDS Integers

CONSTANTS
  Caller,      \* goroutines
  MaxAttempts, \* maxRetries + 1, four in the code
  Buffer,      \* ticks by which the cache gives up a token early, ten
  Grant,       \* expires_in of the tokens the platform hands out, in ticks
  NULL

ASSUME AttemptAssumption == MaxAttempts \in Nat \ {0}
ASSUME BufferAssumption  == Buffer \in Nat /\ Buffer > 2 * MaxAttempts
ASSUME GrantAssumption   == Grant \subseteq {g \in Nat : g > 2 * MaxAttempts}
ASSUME CallerAssumption  == NULL \notin Caller
ASSUME NullAssumption    == NULL \notin Nat

VARIABLES
  accessToken, \* the token in the cache
  expireIn,    \* ticks until expireAt, when the cache gives it up
  lock,        \* the goroutine that holds the write lock
  pc,          \* where each goroutine stands
  token,       \* the token in the header of its request
  tries,       \* attempts of the request under way
  result,      \* what the call has returned
  spent,       \* ticks since the goroutine came where it stands
  fate         \* what has become of the request                 (history)

cacheVars == <<accessToken, expireIn, lock>>
callVars  == <<pc, token, tries, result, spent>>
clientVars == <<cacheVars, callVars, fate>>

(* Stages that end within a tick. *)
Timed == {"read", "fetch", "fetchPause", "call", "pause"}

Fresh == accessToken # NULL /\ expireIn > 0

Less(n) == IF n > 0 THEN n - 1 ELSE 0

-----------------------------------------------------------------------------

Move(c, stage) ==
  /\ pc' = [pc EXCEPT ![c] = stage]
  /\ spent' = [spent EXCEPT ![c] = 0]

(* The header is built once; every attempt carries it. *)
StartCall(c, t) ==
  /\ Move(c, "call")
  /\ token' = [token EXCEPT ![c] = t]
  /\ tries' = [tries EXCEPT ![c] = 1]
  /\ UNCHANGED result

Finish(c, res) ==
  /\ Move(c, "done")
  /\ token' = [token EXCEPT ![c] = 0]
  /\ tries' = [tries EXCEPT ![c] = 0]
  /\ result' = [result EXCEPT ![c] = res]

(* Under the read lock. *)
Check(c) ==
  /\ pc[c] = "check" /\ lock = NULL
  /\ Move(c, IF Fresh THEN "read" ELSE "lock")
  /\ UNCHANGED <<cacheVars, token, tries, result, fate>>

(* After the read lock has been released. *)
ReadToken(c) ==
  /\ pc[c] = "read"
  /\ StartCall(c, accessToken)
  /\ UNCHANGED <<cacheVars, fate>>

(* The write lock, and the second look at the cache. *)
Lock(c) ==
  /\ pc[c] = "lock" /\ lock = NULL
  /\ \/ Fresh /\ StartCall(c, accessToken) /\ UNCHANGED lock
     \/ /\ ~Fresh
        /\ lock' = c
        /\ Move(c, "fetch")
        /\ tries' = [tries EXCEPT ![c] = 1]
        /\ UNCHANGED <<token, result>>
  /\ UNCHANGED <<accessToken, expireIn, fate>>

(* Mutant: the token is kept for as long as the platform says. *)
FetchAnsweredUnbuffered(c, g) ==
  /\ pc[c] = "fetch"
  /\ \E age \in 0 .. spent[c] :
       accessToken' = g - age /\ StartCall(c, g - age)
  /\ expireIn' = g
  /\ lock' = NULL
  /\ UNCHANGED fate

(* The platform issued the token at some time since the attempt began; its  *)
(* lifetime is counted from when the answer is read.                        *)
FetchAnswered(c, g) ==
  /\ pc[c] = "fetch"
  /\ \E age \in 0 .. spent[c] :
       accessToken' = g - age /\ StartCall(c, g - age)
  /\ expireIn' = IF g > Buffer THEN g - Buffer ELSE 0
  /\ lock' = NULL
  /\ UNCHANGED fate

(* A refusal, an empty token, a lifetime that is no number. *)
FetchRefused(c) ==
  /\ pc[c] = "fetch"
  /\ lock' = NULL
  /\ Finish(c, "error")
  /\ UNCHANGED <<accessToken, expireIn, fate>>

(* Mutant: the error return keeps the lock. *)
FetchFailsLocked(c) ==
  /\ pc[c] = "fetch"
  /\ \/ /\ tries[c] < MaxAttempts
        /\ Move(c, "fetchPause")
        /\ UNCHANGED <<token, tries, result, lock>>
     \/ tries[c] = MaxAttempts /\ Finish(c, "error") /\ UNCHANGED lock
  /\ UNCHANGED <<accessToken, expireIn, fate>>

(* No answer, or one that isRetryableStatus. *)
FetchFails(c) ==
  /\ pc[c] = "fetch"
  /\ \/ /\ tries[c] < MaxAttempts
        /\ Move(c, "fetchPause")
        /\ UNCHANGED <<token, tries, result, lock>>
     \/ tries[c] = MaxAttempts /\ Finish(c, "error") /\ lock' = NULL
  /\ UNCHANGED <<accessToken, expireIn, fate>>

Resume(c, from, to) ==
  /\ pc[c] = from
  /\ Move(c, to)
  /\ tries' = [tries EXCEPT ![c] = @ + 1]
  /\ UNCHANGED <<cacheVars, token, result, fate>>

(* The pause before the next attempt is over. *)
Again(c) == Resume(c, "fetchPause", "fetch") \/ Resume(c, "pause", "call")

(* The client learns that the platform has carried out the request. *)
Learn(c) ==
  fate' = [fate EXCEPT ![c] = IF @ = "known" THEN "repeated" ELSE "known"]

(* Mutant: success does not leave the loop before its last round. *)
AnsweredContinuing(c) ==
  /\ pc[c] = "call"
  /\ Learn(c)
  /\ \/ /\ tries[c] < MaxAttempts
        /\ Move(c, "pause")
        /\ UNCHANGED <<token, tries, result>>
     \/ tries[c] = MaxAttempts /\ \E res \in {"ok", "error"} : Finish(c, res)
  /\ UNCHANGED cacheVars

(* A 2xx answer, whose body may be no JSON. *)
Answered(c) ==
  /\ pc[c] = "call"
  /\ Learn(c)
  /\ \E res \in {"ok", "error"} : Finish(c, res)
  /\ UNCHANGED cacheVars

(* An answer that is an error and not retryable. *)
Refused(c) ==
  /\ pc[c] = "call"
  /\ Finish(c, "error")
  /\ UNCHANGED <<cacheVars, fate>>

(* No answer, or a retryable one; the platform may have carried out the     *)
(* request all the same.                                                    *)
CallFails(c) ==
  /\ pc[c] = "call"
  /\ \E f \in {fate[c], "lost"} : fate' = [fate EXCEPT ![c] = f]
  /\ \/ /\ tries[c] < MaxAttempts
        /\ Move(c, "pause")
        /\ UNCHANGED <<token, tries, result>>
     \/ tries[c] = MaxAttempts /\ Finish(c, "error")
  /\ UNCHANGED cacheVars

Tick ==
  /\ \A c \in Caller : pc[c] \in Timed => spent[c] = 0
  /\ accessToken' = IF accessToken = NULL THEN NULL ELSE Less(accessToken)
  /\ expireIn' = Less(expireIn)
  /\ token' = [c \in Caller |-> Less(token[c])]
  /\ spent' = [c \in Caller |-> IF pc[c] \in Timed THEN 1 ELSE 0]
  /\ UNCHANGED <<lock, pc, tries, result, fate>>

-----------------------------------------------------------------------------

ClientInit ==
  /\ accessToken = NULL /\ expireIn = 0 /\ lock = NULL
  /\ pc = [c \in Caller |-> "idle"]
  /\ token = [c \in Caller |-> 0]
  /\ tries = [c \in Caller |-> 0]
  /\ result = [c \in Caller |-> "none"]
  /\ spent = [c \in Caller |-> 0]
  /\ fate = [c \in Caller |-> "open"]

Fetching(c) ==
  (\E g \in Grant : FetchAnswered(c, g)) \/ FetchRefused(c) \/ FetchFails(c)

Calling(c) == Answered(c) \/ Refused(c) \/ CallFails(c)

ClientStep(c) ==
  Check(c) \/ ReadToken(c) \/ Lock(c) \/ Fetching(c) \/ Again(c) \/ Calling(c)

-----------------------------------------------------------------------------
(* Properties                                                              *)

(* No attempt, however late among its retries, is under way with a token    *)
(* that has expired: the fifty seconds by which getAccessToken gives a      *)
(* token up early cover the answer it was late to read, the way from the    *)
(* check to the request, and all attempts with their timeouts and pauses.   *)
NeverSendsExpired == \A c \in Caller : pc[c] = "call" => token[c] > 0

(* A call that reports success was carried out, and do() never sends a      *)
(* request again that it has learnt was carried out: what happens twice, a  *)
(* message posted twice among them, is due to answers that were lost.       *)
AnswerIsTrue ==
  \A c \in Caller : /\ result[c] = "ok" => fate[c] = "known"
                    /\ fate[c] # "repeated"
                    /\ pc[c] # "done" => fate[c] # "known"

=============================================================================
