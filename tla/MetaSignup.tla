------------------------------ MODULE MetaSignup ------------------------------
(***************************************************************************)
(* One embedded signup: a state handed out by start, the requests that     *)
(* complete it (claim, authorize, exchange with Meta, install, finalize,   *)
(* release), cancellation, expiry, and the rate limit before all of them.  *)
(* A completion that lasts more than 120 seconds may be taken over by the  *)
(* next one; neither release nor finalize says whose claim it ends.        *)
(***************************************************************************)
EXTENDS CoexistenceJobs

CONSTANTS Requests,   \* requests of the user that may be under way at once
          RateLimit   \* 10 in the code: completions in a window of 10 minutes

VARIABLES
  signup,     \* row of meta_signup_states: its status, "none" before and "gone" after
  stalled,    \* it has been processing for 120 seconds
  expired,    \* its 10 minutes have passed
  hits,       \* meta_signup_rate_limits
  completing, \* request -> its step, the phone and the kind Meta verified
  successes,  \* requests answered with 201 (history)
  cancelled   \* the signup was cancelled (history)

signupVars == <<signup, stalled, expired, hits, completing, successes, cancelled>>
around == <<probe, enabling, overdue, batch, doing, requested>>   \* what a signup never writes

NoRequest == [step |-> "idle", phone |-> NoPhone, coexistence |-> FALSE]

SignupInit ==
  /\ signup = "none" /\ stalled = FALSE /\ expired = FALSE
  /\ hits = 0
  /\ completing = [r \in Requests |-> NoRequest]
  /\ successes = 0 /\ cancelled = FALSE

Then(r, step) == completing' = [completing EXCEPT ![r].step = step]
Answer(r) == completing' = [completing EXCEPT ![r] = NoRequest]

-----------------------------------------------------------------------------
\* start, whose rate limit is another one.
StartSignup ==
  /\ signup = "none"
  /\ signup' = "pending"
  /\ UNCHANGED <<stalled, expired, hits, completing, successes, cancelled, conn, jobs, around>>

\* An attempt counts up to one above the limit; above it, it is refused and goes no further.
consume == hits' = IF hits <= RateLimit THEN hits + 1 ELSE hits

Arrive(r) ==
  /\ completing[r] = NoRequest
  /\ consume
  /\ IF hits' <= RateLimit THEN Then(r, "claim") ELSE UNCHANGED completing
  /\ UNCHANGED <<signup, stalled, expired, successes, cancelled, conn, jobs, around>>

WindowEnds ==
  /\ hits > 0 /\ hits' = 0
  /\ UNCHANGED <<signup, stalled, expired, completing, successes, cancelled, conn, jobs, around>>

ClaimSignup(r) ==
  /\ completing[r].step = "claim"
  /\ IF ~expired /\ (signup = "pending" \/ (signup = "processing" /\ stalled))
     THEN signup' = "processing" /\ stalled' = FALSE /\ Then(r, "authorize")
     ELSE Answer(r) /\ UNCHANGED <<signup, stalled>>
  /\ UNCHANGED <<expired, hits, successes, cancelled, conn, jobs, around>>

Authorize(r) ==
  /\ completing[r].step = "authorize"
  /\ \E next \in {"exchange", "release"} : Then(r, next)
  /\ UNCHANGED <<signup, stalled, expired, hits, successes, cancelled, conn, jobs, around>>

\* exchangeAndVerify: Meta names the phone, or refuses, or does not show its number.
Exchange(r) ==
  /\ completing[r].step = "exchange"
  /\ \/ \E p \in Phones, c \in BOOLEAN :
          completing' = [completing EXCEPT ![r] = [step |-> "install", phone |-> p, coexistence |-> c]]
     \/ Then(r, "release")
  /\ UNCHANGED <<signup, stalled, expired, hits, successes, cancelled, conn, jobs, around>>

\* install: refused when the phone is taken or the plan is used up, or for its workspace.
InstallNumber(r) ==
  LET p == completing[r].phone IN
  /\ completing[r].step = "install"
  /\ \/ /\ MayInstall(p) /\ Install(p)
        /\ IF completing[r].coexistence THEN InsertJobs(p) ELSE UNCHANGED jobs
        /\ Then(r, "finalize")
     \/ Then(r, "release") /\ UNCHANGED <<conn, jobs>>
  /\ UNCHANGED <<signup, stalled, expired, hits, successes, cancelled, around>>

\* Plausible bug: the row count of the DELETE is not looked at.
Finalize_Unchecked(r) ==
  /\ completing[r].step = "finalize"
  /\ Answer(r)
  /\ successes' = successes + 1
  /\ signup' = IF signup = "processing" THEN "gone" ELSE signup
  /\ UNCHANGED <<stalled, expired, hits, cancelled, conn, jobs, around>>

\* complete: the row is deleted while it is processing, whoever claimed it last.
Finalize(r) ==
  /\ completing[r].step = "finalize"
  /\ IF signup = "processing"
     THEN signup' = "gone" /\ successes' = successes + 1 /\ Answer(r)
     ELSE Then(r, "release") /\ UNCHANGED <<signup, successes>>
  /\ UNCHANGED <<stalled, expired, hits, cancelled, conn, jobs, around>>

\* releaseQuietly, and the error to the user; it may fail.
ReleaseSignup(r) ==
  /\ completing[r].step = "release"
  /\ \/ signup' = IF signup = "processing" THEN "pending" ELSE signup
     \/ UNCHANGED signup
  /\ Answer(r)
  /\ UNCHANGED <<stalled, expired, hits, successes, cancelled, conn, jobs, around>>

\* Its process dies; a database error before the installation ends in release instead.
RequestDies(r) ==
  /\ completing[r] # NoRequest
  /\ Answer(r)
  /\ UNCHANGED <<signup, stalled, expired, hits, successes, cancelled, conn, jobs, around>>

\* It counts as an attempt to complete, and does nothing once a completion has begun.
CancelSignup ==
  /\ consume
  /\ IF hits' <= RateLimit /\ signup = "pending"
     THEN signup' = "gone" /\ cancelled' = TRUE
     ELSE UNCHANGED <<signup, cancelled>>
  /\ UNCHANGED <<stalled, expired, completing, successes, conn, jobs, around>>

\* The clock, and the cleanup of what has expired.
Stall ==
  /\ signup = "processing" /\ ~stalled /\ stalled' = TRUE
  /\ UNCHANGED <<signup, expired, hits, completing, successes, cancelled, conn, jobs, around>>

Expire ==
  /\ signup # "none" /\ ~expired /\ expired' = TRUE
  /\ UNCHANGED <<signup, stalled, hits, completing, successes, cancelled, conn, jobs, around>>

Cleanup ==
  /\ expired /\ signup # "gone" /\ signup' = "gone"
  /\ UNCHANGED <<stalled, expired, hits, completing, successes, cancelled, conn, jobs, around>>

SignupNext ==
  \/ StartSignup \/ WindowEnds \/ CancelSignup \/ Stall \/ Expire \/ Cleanup
  \/ \E r \in Requests : \/ Arrive(r) \/ ClaimSignup(r) \/ Authorize(r) \/ Exchange(r)
                         \/ InstallNumber(r) \/ Finalize(r) \/ ReleaseSignup(r) \/ RequestDies(r)

-----------------------------------------------------------------------------
SignupTypeOK ==
  /\ signup \in {"none", "pending", "processing", "gone"}
  /\ {stalled, expired, cancelled} \subseteq BOOLEAN
  /\ hits \in 0..(RateLimit + 1)
  /\ completing \in [Requests -> [step : {"idle", "claim", "authorize", "exchange", "install",
                                          "finalize", "release"},
                                  phone : Phones \cup {NoPhone}, coexistence : BOOLEAN]]
  /\ successes \in Nat

\* A signup succeeds at most once, however its completions take each other over, release
\* each other's claim and overlap; a cancelled one never; and success comes with a number
\* installed (metaSignupOrchestrator.js:13-27, metaSignupStateRepository.js:13-33).
SucceedsOnce ==
  /\ successes <= 1
  /\ cancelled => successes = 0
  /\ successes = 1 => signup = "gone" /\ Installed # {}
=============================================================================
