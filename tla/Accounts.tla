------------------------------ MODULE Accounts ------------------------------
(***************************************************************************)
(* Who gets into which account: the rows of users and user_identities, the *)
(* one-time passwords in Redis and their e-mails, and the requests that    *)
(* register, sign in, reset a password, move an account to another address *)
(* or delete it.                                                           *)
(*                                                                         *)
(* A request reads rows and codes, and later writes by the id it read or   *)
(* deletes by the key it computed; the unique indexes on users.email and   *)
(* on the identities are all that is checked again at the write.  Google   *)
(* accounts are identified with their verified address.                    *)
(***************************************************************************)
EXTENDS Naturals, Sequences

CONSTANTS
  Users,      \* ids of rows, used once
  Emails,     \* addresses, each with its mailbox and its Google account
  Requests,   \* requests in progress at once
  NoUser,
  NoEmail,
  MaxCodes    \* bound: codes ever generated

ASSUME AccountsAssumption ==
  /\ NoUser \notin Users
  /\ NoEmail \notin Emails
  /\ MaxCodes \in Nat

VARIABLES
  status,    \* of the row: none, live, deleted (deleted_at is set)
  email,     \* users.email, unique; NULL once the account is deleted
  password,  \* users whose password_hash is set
  linked,    \* user_identities, as <<user, address of the Google account>>
  codes,     \* the codes generated so far: the n-th one's mode and address
  stored,    \* otp:<mode>:<email>: the code, by its number, or 0
  req,       \* what each request is doing
  dead,      \* history: codes used, replaced, withdrawn or expired
  held       \* history: who held a request's address at some time since the
             \* request was received

rows == <<status, email, password, linked>>
otp == <<codes, stored>>
vars == <<rows, otp, req, dead, held>>

Modes == {"register", "reset", "change_email"}
OtpKeys == Modes \X Emails
Codes == 1..MaxCodes

Idle == [kind |-> "none", step |-> "idle", user |-> NoUser, email |-> NoEmail,
         code |-> 0, spent |-> FALSE]

(* A request that presents no code: its next step, for an account and an    *)
(* address it has found or was given.                                       *)
Knowing(kind, s, u, e) ==
  [Idle EXCEPT !.kind = kind, !.step = s, !.user = u, !.email = e]

Init ==
  /\ status = [u \in Users |-> "none"]
  /\ email = [u \in Users |-> NoEmail]
  /\ password = {}
  /\ linked = {}
  /\ codes = <<>>
  /\ stored = [k \in OtpKeys |-> 0]
  /\ req = [r \in Requests |-> Idle]
  /\ dead = {}
  /\ held = [r \in Requests |-> {}]

Become(r, q) == req' = [req EXCEPT ![r] = q]
Advance(r, s) == Become(r, [req[r] EXCEPT !.step = s])

(* The query by address: only an account that is not deleted.               *)
\* Mutant: accounts deleted while they were being changed are found too.
HoldersOrDeleted(e) == {u \in Users : email[u] = e}
Holders(e) == {u \in Users : status[u] = "live" /\ email[u] = e}

(* The unique index counts every row, deleted or not.                       *)
\* Mutant: only the rows that are not deleted count.
TakenByLive(e) == Holders(e) # {}
Taken(e) == \E u \in Users : email[u] = e

-----------------------------------------------------------------------------
(* SendOTP, past its rate limit: no code is sent for an address that is     *)
(* taken, or, to reset a password, for one that is not.                     *)
SendCheck(r, mode, e) ==
  /\ req[r].step = "idle"
  /\ Taken(e) <=> mode = "reset"
  /\ Become(r, Knowing(mode, "store", NoUser, e))
  /\ UNCHANGED <<rows, otp>>

Dies(ns) == dead' = dead \cup (ns \ {0})

SendStore(r) ==
  LET key == <<req[r].kind, req[r].email>>
      n == Len(codes) + 1
  IN
  /\ req[r].step = "store" /\ n <= MaxCodes
  /\ codes' = Append(codes, key)
  /\ stored' = [stored EXCEPT ![key] = n]
  /\ Dies({stored[key]})
  /\ Become(r, Idle)
  /\ UNCHANGED rows

(* A code goes when its ten minutes are over.  The key also goes, whichever  *)
(* code it holds by then, when the goroutine fails to send the e-mail of a   *)
(* code: at any time, since nothing limits how long that takes.              *)
CodeGone(k) ==
  /\ stored[k] # 0
  /\ stored' = [stored EXCEPT ![k] = 0]
  /\ Dies({stored[k]})
  /\ UNCHANGED <<rows, codes, req>>

-----------------------------------------------------------------------------
(* A request that presents a code somebody received.                        *)
Present(r, kind, u, e, n) ==
  /\ req[r].step = "idle"
  /\ n \in 1..Len(codes)
  /\ Become(r, [kind |-> kind, step |-> "verify", user |-> u, email |-> e,
                code |-> n, spent |-> n \in dead])
  /\ UNCHANGED <<rows, otp>>

(* VerifyOTP: GET and compare, then DEL.                                    *)
VerifyGet(r) ==
  /\ req[r].step = "verify"
  /\ IF stored[<<req[r].kind, req[r].email>>] = req[r].code
     THEN Advance(r, "matched") ELSE Become(r, Idle)
  /\ UNCHANGED <<rows, otp>>

\* Mutant: a code that was used stays until it expires.
VerifyOnly(r) ==
  /\ req[r].step = "matched"
  /\ Dies({req[r].code})
  /\ Advance(r, "verified")
  /\ UNCHANGED <<rows, otp>>
VerifyDel(r) ==
  LET key == <<req[r].kind, req[r].email>> IN
  /\ req[r].step = "matched"
  /\ stored' = [stored EXCEPT ![key] = 0]
  /\ Dies({stored[key], req[r].code})
  /\ Advance(r, "verified")
  /\ UNCHANGED <<rows, codes>>

(* A Redis or database error, a dead process, the refusals not modelled     *)
(* (wrong password, rate limit, captcha): nothing is written.               *)
Fail(r) ==
  /\ req[r].step \notin {"idle", "signed in"}
  /\ Become(r, Idle)
  /\ UNCHANGED <<rows, otp>>

-----------------------------------------------------------------------------
(* Register: the INSERT, which the unique index may refuse.                 *)
RegisterReceive(r, e, n) == Present(r, "register", NoUser, e, n)

Insert(u, e) ==
  /\ status[u] = "none" /\ ~Taken(e)
  /\ status' = [status EXCEPT ![u] = "live"]
  /\ email' = [email EXCEPT ![u] = e]

Enter(r, s, u) ==
  Become(r, Knowing(req[r].kind, s, u, req[r].email))
SignIn(r, u) == Enter(r, "signed in", u)

RegisterInsert(r, u) ==
  /\ req[r].kind = "register" /\ req[r].step = "verified"
  /\ Insert(u, req[r].email)
  /\ password' = password \cup {u}
  /\ SignIn(r, u)
  /\ UNCHANGED <<linked, otp>>

(* ResetPassword: the row by address, then its UPDATE by id.                *)
ResetReceive(r, e, n) == Present(r, "reset", NoUser, e, n)

ResetQuery(r) ==
  /\ req[r].kind = "reset" /\ req[r].step = "verified"
  /\ \E u \in Holders(req[r].email) : Enter(r, "set password", u)
  /\ UNCHANGED <<rows, otp>>

(* ChangePassword: the middleware has found the caller's row, not deleted.  *)
ChangePasswordRead(r, u) ==
  /\ req[r].step = "idle" /\ status[u] = "live"
  /\ Become(r, Knowing("change_password", "set password", u, NoEmail))
  /\ UNCHANGED <<rows, otp>>

SetPassword(r) ==
  /\ req[r].step = "set password"
  /\ password' = password \cup {req[r].user}
  /\ Become(r, Idle)
  /\ UNCHANGED <<status, email, linked, otp>>

(* ChangeEmail: a password must be set; the code is one for the new         *)
(* address.  The transaction finds the address free and takes it, and       *)
(* forgets the Google identities.                                           *)
\* Mutant: the password is not asked for.
MayAlwaysChangeEmail(u, e) == email[u] # e
MayChangeEmail(u, e) == u \in password /\ email[u] # e

ChangeEmailRead(r, u, e, n) ==
  /\ status[u] = "live" /\ MayChangeEmail(u, e)
  /\ Present(r, "change_email", u, e, n)

ChangeEmailWrite(r) ==
  LET u == req[r].user IN
  /\ req[r].kind = "change_email" /\ req[r].step = "verified"
  /\ ~Taken(req[r].email)
  /\ email' = [email EXCEPT ![u] = req[r].email]
  /\ linked' = {l \in linked : l[1] # u}
  /\ Become(r, Idle)
  /\ UNCHANGED <<status, password, otp>>

(* DeleteAccount.                                                           *)
DeleteRead(r, u) ==
  /\ req[r].step = "idle" /\ status[u] = "live"
  /\ Become(r, Knowing("delete", "delete", u, NoEmail))
  /\ UNCHANGED <<rows, otp>>

DeleteWrite(r) ==
  LET u == req[r].user IN
  /\ req[r].step = "delete"
  /\ status' = [status EXCEPT ![u] = "deleted"]
  /\ email' = [email EXCEPT ![u] = NoEmail]
  /\ password' = password \ {u}
  /\ linked' = {l \in linked : l[1] # u}
  /\ Become(r, Idle)
  /\ UNCHANGED otp

-----------------------------------------------------------------------------
(* Login: the row by address; its password may match if it has one.         *)
LoginRead(r, e) ==
  /\ req[r].step = "idle"
  /\ \E u \in Holders(e) \cap password :
       Become(r, Knowing("login", "signed in", u, e))
  /\ UNCHANGED <<rows, otp>>

(* GoogleExchange, for a verified address: the row by address ...           *)
GoogleRead(r, e) ==
  /\ req[r].step = "idle"
  /\ \/ \E u \in Holders(e) :
          Become(r, Knowing("google", "link", u, e))
     \/ /\ Holders(e) = {}
        /\ Become(r, Knowing("google", "create", NoUser, e))
  /\ UNCHANGED <<rows, otp>>

(* ... then a new account with its identity, in one transaction ...         *)
Linkable(u, e) == \A l \in linked : l[1] # u /\ l[2] # e

GoogleCreate(r, u) ==
  /\ req[r].step = "create"
  /\ Insert(u, req[r].email)
  /\ Linkable(u, req[r].email)
  /\ linked' = linked \cup {<<u, req[r].email>>}
  /\ SignIn(r, u)
  /\ UNCHANGED <<password, otp>>

(* ... or the identity of the account found, whose failure is only logged.  *)
GoogleLink(r) ==
  LET u == req[r].user  e == req[r].email IN
  /\ req[r].step = "link"
  /\ \/ Linkable(u, e) /\ linked' = linked \cup {<<u, e>>}
     \/ UNCHANGED linked
  /\ SignIn(r, u)
  /\ UNCHANGED <<status, email, password, otp>>

Answered(r) ==
  /\ req[r].step = "signed in"
  /\ Become(r, Idle)
  /\ UNCHANGED <<rows, otp>>

-----------------------------------------------------------------------------
Receive(r) ==
  \E e \in Emails :
    \/ \E mode \in Modes : SendCheck(r, mode, e)
    \/ \E n \in 1..Len(codes) :
         \/ RegisterReceive(r, e, n) \/ ResetReceive(r, e, n)
         \/ \E u \in Users : ChangeEmailRead(r, u, e, n)
    \/ LoginRead(r, e) \/ GoogleRead(r, e)

ReceiveFrom(r, u) == ChangePasswordRead(r, u) \/ DeleteRead(r, u)

Step(r) ==
  \/ ResetQuery(r) \/ SetPassword(r) \/ VerifyGet(r) \/ ChangeEmailWrite(r)
  \/ DeleteWrite(r) \/ GoogleLink(r) \/ Answered(r) \/ Fail(r)
  \/ \E u \in Users : RegisterInsert(r, u) \/ GoogleCreate(r, u)

CodeDies ==
  \/ \E r \in Requests : SendStore(r) \/ VerifyDel(r)
  \/ \E k \in OtpKeys : CodeGone(k)

Remember ==
  held' = [r \in Requests |->
    IF req'[r].kind \notin {"register", "reset", "login", "google"} THEN {}
    ELSE held[r] \cup {u \in Users : status'[u] = "live" /\ email'[u] = req'[r].email}]

Next ==
  /\ \/ /\ \E r \in Requests : Receive(r) \/ Step(r) \/ \E u \in Users : ReceiveFrom(r, u)
        /\ UNCHANGED dead
     \/ CodeDies
  /\ Remember

Spec == Init /\ [][Next]_vars
-----------------------------------------------------------------------------
RequestRecord ==
  [kind : Modes \cup {"none", "change_password", "delete", "login", "google"},
   step : {"idle", "store", "verify", "matched", "verified", "set password",
           "delete", "link", "create", "signed in"},
   user : Users \cup {NoUser}, email : Emails \cup {NoEmail},
   code : 0..Len(codes), spent : BOOLEAN]

(* The type invariant of the component; an address has one row at most.     *)
TypeOK ==
  /\ status \in [Users -> {"none", "live", "deleted"}]
  /\ email \in [Users -> Emails \cup {NoEmail}]
  /\ password \subseteq Users
  /\ linked \subseteq Users \X Emails
  /\ codes \in Seq(OtpKeys) /\ Len(codes) <= MaxCodes
  /\ stored \in [OtpKeys -> 0..Len(codes)]
  /\ req \in [Requests -> RequestRecord]
  /\ dead \subseteq 1..Len(codes)
  /\ held \in [Requests -> SUBSET Users]
  /\ \A u, v \in Users : email[u] = email[v] /\ email[u] # NoEmail => u = v

(* A request for an address (a login, a Google sign-in, a registration, a   *)
(* password reset) gets into no account but one that is not deleted and has *)
(* that address at some time while the request is served: never into a      *)
(* deleted account, though a change of e-mail or password that was under    *)
(* way when it was deleted has given it an address or a password again, nor *)
(* into one that had moved to another address before the request came.      *)
OnlyTheHolder ==
  \A r \in Requests :
    req[r].step = "signed in" \/ (req[r].step = "set password" /\ req[r].kind = "reset")
      => req[r].user \in held[r]

(* A code is good for the address it was mailed to and the purpose it was   *)
(* asked for, and only until it is used, replaced, withdrawn or expired: a  *)
(* request received later is refused.  (Two requests at once may both pass  *)
(* with one code, since VerifyOTP reads and deletes in two commands.)       *)
CodesUsedOnce ==
  \A r \in Requests :
    req[r].step \in {"matched", "verified"}
      => codes[req[r].code] = <<req[r].kind, req[r].email>> /\ ~req[r].spent

(* "You must set a password before changing your email address": an account *)
(* without password keeps the Google identity of its own address, in spite  *)
(* of every sign-in and change of e-mail that goes on at once.              *)
WayIn ==
  \A u \in Users :
    status[u] = "live" /\ u \notin password => <<u, email[u]>> \in linked

-----------------------------------------------------------------------------
(* What the invariants above need to be inductive.                          *)

CodeSteps == {"verify", "matched", "verified"}

(* A request has read what its next step uses.                              *)
Fits(q) ==
  /\ q.step \in CodeSteps \cup {"store"} => q.kind \in Modes /\ q.email \in Emails
  /\ q.step \in CodeSteps => q.code \in 1..Len(codes)
  /\ q.step \in CodeSteps /\ q.kind = "change_email" => q.user \in Users
  /\ q.step \in {"set password", "delete", "link"} => q.user \in Users
  /\ q.step \in {"link", "create"} => q.kind = "google" /\ q.email \in Emails
  /\ q.step = "signed in" => q.kind \in {"register", "login", "google"}

TypeInv == TypeOK /\ \A r \in Requests : Fits(req[r])

(* The account found for a Google sign-in is a holder of its address.       *)
HolderInv ==
  /\ OnlyTheHolder
  /\ \A r \in Requests : req[r].step = "link" => req[r].user \in held[r]

(* A key holds a code that was generated for it and is not dead; what was   *)
(* dead when a request came stays dead.                                     *)
CodesInv ==
  /\ CodesUsedOnce
  /\ \A k \in OtpKeys : stored[k] # 0 => codes[stored[k]] = k /\ stored[k] \notin dead
  /\ \A r \in Requests : req[r].spent => req[r].code \in dead

(* The account whose password ChangeEmail asked for still has it when its   *)
(* address is written, or has been deleted.                                 *)
WayInInv ==
  /\ WayIn
  /\ \A r \in Requests :
       req[r].kind = "change_email" /\ req[r].step \in CodeSteps
         => req[r].user \in password \/ status[req[r].user] = "deleted"
=============================================================================
