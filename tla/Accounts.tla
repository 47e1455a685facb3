------------------------------ MODULE Accounts ------------------------------
(***************************************************************************)
(* The secrets of an account: its password, the magic link which logs in   *)
(* without it, and the code which recovers it (lib/entities.js,            *)
(* backend/login.js, lib/passwordrecovery.js).  Each is replaced when it   *)
(* was used, by requests of several round trips.  Also names of new        *)
(* accounts, and what becomes of an account when its owner leaves          *)
(* (lib/staffing.js).                                                      *)
(***************************************************************************)
EXTENDS Integers

CONSTANTS
    Names,    \* user names
    Slots,    \* requests in flight
    MaxJobs   \* bound on the requests made

VARIABLES
    account,  \* password, link, whether it is revoked or must have a new password; whether its
              \* owner has left
    code,     \* recovery code in the shared cache
    names,    \* how many accounts were invited under each name
    pc,       \* next round trip of each request
    req,      \* what each request is about
    log       \* requests made, what secrets were used for, and what overlapped

vars == <<account, code, names, pc, req, log>>

\* new secrets are numbered by the request which made them, and differ
None == -1
Secrets == 0..MaxJobs

Kinds == {"idle", "change", "ask", "use", "magic", "mail", "restore", "terminate", "invite"}
PCs == {"idle", "find", "write", "out", "relink"}

NoRequest == [kind |-> "idle", new |-> 0, knows |-> 0, left |-> {}, name |-> CHOOSE n \in Names : TRUE,
              padded |-> FALSE]

TypeOK ==
    /\ account \in [password : Secrets, link : Secrets, must : BOOLEAN, revoked : BOOLEAN, gone : BOOLEAN]
    /\ code \in Secrets \union {None}
    /\ names \in [Names -> 0..MaxJobs]
    /\ pc \in [Slots -> PCs]
    /\ req \in [Slots -> [kind : Kinds, new : Secrets, knows : Secrets, left : SUBSET {"login", "relink"},
                          name : Names, padded : BOOLEAN]]
    /\ log \in [jobs : Secrets, changes : [Secrets -> Secrets], recoveries : [Secrets -> Secrets],
                logins : [Secrets -> Secrets], raced : SUBSET Kinds,
                padded : BOOLEAN, restored : BOOLEAN, crashed : BOOLEAN]

Init ==
    /\ account = [password |-> 0, link |-> 0, must |-> FALSE, revoked |-> FALSE, gone |-> FALSE]
    /\ code = None
    /\ names = [n \in Names |-> 0]
    /\ pc = [r \in Slots |-> "idle"]
    /\ req = [r \in Slots |-> NoRequest]
    /\ log = [jobs |-> 0, changes |-> [s \in Secrets |-> 0], recoveries |-> [s \in Secrets |-> 0],
              logins |-> [s \in Secrets |-> 0], raced |-> {}, padded |-> FALSE, restored |-> FALSE,
              crashed |-> FALSE]

-----------------------------------------------------------------------------

At(r, kind, step) == req[r].kind = kind /\ pc[r] = step
Goto(r, next) == pc' = [pc EXCEPT ![r] = next] /\ UNCHANGED req
Done(r) == pc' = [pc EXCEPT ![r] = "idle"] /\ req' = [req EXCEPT ![r] = NoRequest]

\* who asks knows a secret there was at some time
Ask(r, kind) ==
    /\ pc[r] = "idle" /\ log.jobs < MaxJobs
    /\ \E k \in IF kind \in {"change", "use", "magic"} THEN 0..log.jobs ELSE {0} :
       \E n \in IF kind = "invite" THEN Names ELSE {NoRequest.name} :
       \E p \in IF kind = "invite" THEN BOOLEAN ELSE {FALSE} :
          /\ req' = [req EXCEPT ![r] = [kind |-> kind, new |-> log.jobs + 1, knows |-> k, left |-> {},
                                        name |-> n, padded |-> p]]
          /\ log' = [log EXCEPT !.jobs = @ + 1, !.padded = @ \/ p, !.restored = @ \/ kind = "restore",
                        !.raced = IF \E q \in Slots : req[q].kind = kind THEN @ \union {kind} ELSE @]
    /\ pc' = [pc EXCEPT ![r] = IF kind \in {"restore", "terminate"} THEN "write" ELSE "find"]
    /\ UNCHANGED <<account, code, names>>

-----------------------------------------------------------------------------
(* updatePassword of controllers/entities.js *)

MayChange(r) == account.password = req[r].knows \/ account.must

ChangeFind(r) ==
    /\ At(r, "change", "find")
    /\ IF MayChange(r) THEN Goto(r, "write") ELSE Done(r)
    /\ UNCHANGED <<account, code, names, log>>

Change(r) ==
    /\ account' = [account EXCEPT !.password = req[r].new, !.must = FALSE]
    /\ log' = IF account.must THEN log ELSE [log EXCEPT !.changes[req[r].knows] = @ + 1]

\* the update has the condition once more
ChangeWrite(r) ==
    /\ At(r, "change", "write")
    /\ IF MayChange(r) THEN Change(r) ELSE UNCHANGED <<account, log>>
    /\ Done(r)
    /\ UNCHANGED <<code, names>>

Must == ~account.must /\ account' = [account EXCEPT !.must = TRUE] /\ UNCHANGED <<code, names, pc, req, log>>

-----------------------------------------------------------------------------
(* Recovery *)

\* there is no code yet; the message may not be sent
AskFind(r) ==
    /\ At(r, "ask", "find")
    /\ IF code = None THEN Goto(r, "write") \/ Done(r) ELSE Done(r)
    /\ UNCHANGED <<account, code, names, log>>

AskWrite(r) == At(r, "ask", "write") /\ code' = req[r].new /\ Done(r) /\ UNCHANGED <<account, names, log>>

UseFind(r) ==
    /\ At(r, "use", "find")
    /\ IF code = req[r].knows THEN Goto(r, "out") ELSE Done(r)
    /\ UNCHANGED <<account, code, names, log>>

\* A mutant of UseUnset: the code is not removed.
UseKept(r) == At(r, "use", "out") /\ Goto(r, "write") /\ UNCHANGED <<account, code, names, log>>

\* commitPassword()
UseUnset(r) == At(r, "use", "out") /\ code' = None /\ Goto(r, "write") /\ UNCHANGED <<account, names, log>>

UseWrite(r) ==
    /\ At(r, "use", "write")
    /\ account' = [account EXCEPT !.password = req[r].new]
    /\ log' = [log EXCEPT !.recoveries[req[r].knows] = @ + 1]
    /\ Done(r)
    /\ UNCHANGED <<code, names>>

-----------------------------------------------------------------------------
(* The magic link *)

\* the login and the replacement of the link go on side by side
MagicFind(r) ==
    /\ At(r, "magic", "find")
    /\ IF account.link = req[r].knows /\ ~account.revoked
       THEN pc' = [pc EXCEPT ![r] = "out"] /\ req' = [req EXCEPT ![r].left = {"login", "relink"}]
       ELSE Done(r)
    /\ UNCHANGED <<account, code, names, log>>

MagicOut(r) ==
    /\ At(r, "magic", "out")
    /\ \E what \in req[r].left :
          /\ IF what = "login"
             THEN log' = [log EXCEPT !.logins[req[r].knows] = @ + 1] /\ UNCHANGED account
             ELSE account' = [account EXCEPT !.link = req[r].new] /\ UNCHANGED log
          /\ IF req[r].left = {what} THEN Done(r)
             ELSE req' = [req EXCEPT ![r].left = @ \ {what}] /\ UNCHANGED pc
    /\ UNCHANGED <<code, names>>

\* sendNewMagicEmail()
MailFind(r) ==
    /\ req[r].kind \in {"mail", "restore"} /\ pc[r] = "find"
    /\ Goto(r, "relink")
    /\ UNCHANGED <<account, code, names, log>>

MailWrite(r) ==
    /\ pc[r] = "relink"
    /\ account' = [account EXCEPT !.link = req[r].new]
    /\ Done(r)
    /\ UNCHANGED <<code, names, log>>

-----------------------------------------------------------------------------
(* Coming and going *)

Revoke == account' = [account EXCEPT !.revoked = TRUE] /\ UNCHANGED <<code, names, pc, req, log>>

\* then a mail is sent
Restore(r) ==
    /\ At(r, "restore", "write")
    /\ account' = [account EXCEPT !.revoked = FALSE]
    /\ Goto(r, "find")
    /\ UNCHANGED <<code, names, log>>

Terminate(r) ==
    /\ At(r, "terminate", "write")
    /\ account' = [account EXCEPT !.gone = TRUE]
    /\ Goto(r, "out")
    /\ UNCHANGED <<code, names, log>>

TerminateRevoke(r) ==
    /\ At(r, "terminate", "out")
    /\ account' = [account EXCEPT !.revoked = TRUE]
    /\ Done(r)
    /\ UNCHANGED <<code, names, log>>

\* A mutant of InviteFind: nobody looks for the name.
InviteFindNot(r) == At(r, "invite", "find") /\ Goto(r, "write") /\ UNCHANGED <<account, code, names, log>>

\* the name is looked for as it is, and trimmed when it is not found: blanks around it hide the other
InviteFind(r) ==
    /\ At(r, "invite", "find")
    /\ IF names[req[r].name] > 0 /\ ~req[r].padded THEN Done(r) ELSE Goto(r, "write")
    /\ UNCHANGED <<account, code, names, log>>

InviteWrite(r) ==
    /\ At(r, "invite", "write")
    /\ names' = [names EXCEPT ![req[r].name] = @ + 1]
    /\ Done(r)
    /\ UNCHANGED <<account, code, log>>

\* the worker dies
Crash(r) ==
    /\ pc[r] # "idle"
    /\ Done(r)
    /\ log' = [log EXCEPT !.crashed = TRUE]
    /\ UNCHANGED <<account, code, names>>

Next ==
    \/ Must \/ Revoke
    \/ \E r \in Slots :
          \/ \E kind \in Kinds \ {"idle"} : Ask(r, kind)
          \/ ChangeFind(r) \/ ChangeWrite(r)
          \/ AskFind(r) \/ AskWrite(r) \/ UseFind(r) \/ UseUnset(r) \/ UseWrite(r)
          \/ MagicFind(r) \/ MagicOut(r) \/ MailFind(r) \/ MailWrite(r)
          \/ Restore(r) \/ Terminate(r) \/ TerminateRevoke(r)
          \/ InviteFind(r) \/ InviteWrite(r)
          \/ Crash(r)

Spec == Init /\ [][Next]_vars

-----------------------------------------------------------------------------
(* Properties *)

\* However requests overlap and die, a password is changed by who knows it once at most: of two who
\* know it the second is refused (controllers/entities.js:87).
ChangedOnce == \A s \in Secrets : log.changes[s] <= 1

\* A code recovers the password once, unless two who have it use it at a time (passwordrecovery.js:31).
RecoveredOnce == "use" \notin log.raced => \A s \in Secrets : log.recoveries[s] <= 1

\* A link logs in once, whatever mails are sent meanwhile, unless it is used twice at a time or the
\* worker dies before it was replaced (login.js:62).
LoggedInOnce == "magic" \notin log.raced /\ ~log.crashed => \A s \in Secrets : log.logins[s] <= 1

\* Who has left has no account, unless the worker died in between or the account was restored
\* (staffing.js:17).
GoneRevoked ==
    account.gone /\ ~log.crashed /\ ~log.restored /\ (\A r \in Slots : req[r].kind # "terminate") =>
        account.revoked

\* No two accounts are invited under one name, unless at a time, or with blanks around it
\* (entities.js:437).
InvitedOnce == "invite" \notin log.raced /\ ~log.padded => \A n \in Names : names[n] <= 1
=============================================================================
