--------------------------- MODULE AccountsProofs ---------------------------
(* Type correctness of the accounts, and their three safety properties, for *)
(* any users, addresses and requests: nobody gets into an account that has  *)
(* not his address, a code is good for what it was sent for and only while  *)
(* it is alive, and an account without password keeps its Google identity.  *)
EXTENDS Accounts, TLAPS

(* What a request does to its own record it does to no other's.             *)
LEMMA OthersWait ==
  ASSUME TypeOK, NEW r \in Requests, NEW q, Become(r, q)
  PROVE  req'[r] = q /\ \A s \in Requests \ {r} : req'[s] = req[s]
  BY DEF TypeOK, Become

(* A request that is received has read only; the actions that write a row,  *)
(* and those that touch a code.                                             *)
LEMMA ReceiptReads ==
  ASSUME NEW r \in Requests, Receive(r) \/ \E u \in Users : ReceiveFrom(r, u)
  PROVE  UNCHANGED <<rows, otp>>
<1>1. ASSUME NEW u \in Users, ReceiveFrom(r, u)
      PROVE  UNCHANGED <<rows, otp>>
  BY <1>1 DEF ReceiveFrom, ChangePasswordRead, DeleteRead
<1>2. ASSUME NEW e \in Emails, NEW n, NEW kind, NEW u, Present(r, kind, u, e, n)
      PROVE  UNCHANGED <<rows, otp>>
  BY <1>2 DEF Present
<1>3. ASSUME Receive(r)
      PROVE  UNCHANGED <<rows, otp>>
  <2>1. PICK e \in Emails :
          \/ \E mode \in Modes : SendCheck(r, mode, e)
          \/ \E n \in 1..Len(codes) :
               \/ RegisterReceive(r, e, n) \/ ResetReceive(r, e, n)
               \/ \E u \in Users : ChangeEmailRead(r, u, e, n)
          \/ LoginRead(r, e) \/ GoogleRead(r, e)
    BY <1>3 DEF Receive
  <2>2. CASE \E mode \in Modes : SendCheck(r, mode, e)
    BY <2>2 DEF SendCheck
  <2>3. CASE \E n \in 1..Len(codes) :
               \/ RegisterReceive(r, e, n) \/ ResetReceive(r, e, n)
               \/ \E u \in Users : ChangeEmailRead(r, u, e, n)
    BY <2>3, <1>2 DEF RegisterReceive, ResetReceive, ChangeEmailRead
  <2>4. CASE LoginRead(r, e) \/ GoogleRead(r, e)
    BY <2>4 DEF LoginRead, GoogleRead
  <2> QED  BY <2>1, <2>2, <2>3, <2>4
<1> QED  BY <1>1, <1>3

RowWriter(r) ==
  \/ SetPassword(r) \/ ChangeEmailWrite(r) \/ DeleteWrite(r) \/ GoogleLink(r)
  \/ \E u \in Users : RegisterInsert(r, u) \/ GoogleCreate(r, u)

LEMMA StepWrites ==
  ASSUME NEW r \in Requests, Step(r)
  PROVE  UNCHANGED otp /\ (UNCHANGED rows \/ RowWriter(r))
<1>1. CASE RowWriter(r)
  BY <1>1 DEF RowWriter, SetPassword, ChangeEmailWrite, DeleteWrite, GoogleLink, RegisterInsert,
       GoogleCreate
<1>2. CASE ResetQuery(r) \/ VerifyGet(r) \/ Answered(r) \/ Fail(r)
  BY <1>2 DEF ResetQuery, VerifyGet, Answered, Fail
<1> QED  BY <1>1, <1>2 DEF Step, RowWriter

LEMMA CodeDeathWrites ==
  ASSUME CodeDies
  PROVE  UNCHANGED rows
  BY DEF CodeDies, SendStore, VerifyDel, CodeGone

LEMMA RowWriters ==
  ASSUME Next
  PROVE  UNCHANGED rows \/ \E r \in Requests : RowWriter(r)
  BY ReceiptReads, StepWrites, CodeDeathWrites DEF Next

LEMMA CodeWriters ==
  ASSUME Next
  PROVE  \/ UNCHANGED <<otp, dead>>
         \/ \E r \in Requests : SendStore(r) \/ VerifyDel(r)
         \/ \E k \in OtpKeys : CodeGone(k)
  BY ReceiptReads, StepWrites DEF Next, CodeDies

-----------------------------------------------------------------------------
(* Types.                                                                   *)
LEMMA InitType == Init => TypeInv
<1> SUFFICES ASSUME Init
             PROVE  TypeInv
  OBVIOUS
<1>1. Len(codes) = 0 /\ codes \in Seq(OtpKeys)
  BY DEF Init
<1>2. Idle \in RequestRecord /\ Fits(Idle)
  BY <1>1 DEF RequestRecord, Fits, Idle, CodeSteps
<1> QED  BY <1>1, <1>2, AccountsAssumption DEF Init, TypeInv, TypeOK

LEMMA RowsType ==
  ASSUME TypeInv, Next
  PROVE  /\ status' \in [Users -> {"none", "live", "deleted"}]
         /\ email' \in [Users -> Emails \cup {NoEmail}]
         /\ password' \subseteq Users
         /\ linked' \subseteq Users \X Emails
         /\ \A u, v \in Users : email'[u] = email'[v] /\ email'[u] # NoEmail => u = v
<1> USE DEF TypeInv, TypeOK
<1>1. CASE UNCHANGED rows
  BY <1>1 DEF rows
<1>2. ASSUME NEW r \in Requests, RowWriter(r)
      PROVE  /\ status' \in [Users -> {"none", "live", "deleted"}]
             /\ email' \in [Users -> Emails \cup {NoEmail}]
             /\ password' \subseteq Users
             /\ linked' \subseteq Users \X Emails
             /\ \A u, v \in Users : email'[u] = email'[v] /\ email'[u] # NoEmail => u = v
  <2>1. req[r].email \in Emails \cup {NoEmail} /\ Fits(req[r])
    BY DEF RequestRecord
  <2>2. CASE SetPassword(r)
    BY <2>1, <2>2 DEF SetPassword, Fits
  <2>3. CASE ChangeEmailWrite(r)
    BY <2>1, <2>3 DEF ChangeEmailWrite, Taken
  <2>4. CASE DeleteWrite(r)
    BY <2>1, <2>4 DEF DeleteWrite
  <2>5. CASE GoogleLink(r)
    <3>1. req[r].user \in Users /\ req[r].email \in Emails
      BY <2>1, <2>5 DEF GoogleLink, Fits
    <3>2. linked' = linked \/ linked' = linked \cup {<<req[r].user, req[r].email>>}
      BY <2>5 DEF GoogleLink
    <3> QED  BY <2>5, <3>1, <3>2 DEF GoogleLink
  <2>6. CASE \E w \in Users : RegisterInsert(r, w) \/ GoogleCreate(r, w)
    <3>1. PICK w \in Users : RegisterInsert(r, w) \/ GoogleCreate(r, w)
      BY <2>6
    <3>2. Insert(w, req[r].email)
      BY <3>1 DEF RegisterInsert, GoogleCreate
    <3>3. password' \subseteq Users
      BY <3>1 DEF RegisterInsert, GoogleCreate
    <3>4. CASE RegisterInsert(r, w)
      BY <2>1, <3>2, <3>3, <3>4 DEF RegisterInsert, Insert, Taken
    <3>5. CASE GoogleCreate(r, w)
      <4>1. req[r].email \in Emails
        BY <2>1, <3>5 DEF GoogleCreate, Fits
      <4>2. linked' = linked \cup {<<w, req[r].email>>}
        BY <3>5 DEF GoogleCreate
      <4> QED  BY <2>1, <3>2, <3>3, <4>1, <4>2 DEF Insert, Taken
    <3> QED  BY <3>1, <3>4, <3>5
  <2> QED  BY <1>2, <2>2, <2>3, <2>4, <2>5, <2>6 DEF RowWriter
<1> QED  BY <1>1, <1>2, RowWriters

(* Codes are only added.                                                    *)
LEMMA CodesType ==
  ASSUME TypeInv, Next
  PROVE  /\ codes' \in Seq(OtpKeys) /\ Len(codes') <= MaxCodes /\ Len(codes) <= Len(codes')
         /\ \A n \in 1..Len(codes) : codes'[n] = codes[n]
         /\ stored' \in [OtpKeys -> 0..Len(codes')]
         /\ dead' \subseteq 1..Len(codes')
         /\ dead \subseteq dead'
<1> USE AccountsAssumption DEF TypeInv, TypeOK
<1>1. Len(codes) \in Nat
  OBVIOUS
<1>2. CASE UNCHANGED <<otp, dead>>
  BY <1>1, <1>2 DEF otp
<1>4. ASSUME NEW S \in SUBSET (0..Len(codes)), dead' = dead \cup (S \ {0})
      PROVE  dead' \subseteq 1..Len(codes) /\ dead \subseteq dead'
  BY <1>1, <1>4
<1>3. CASE \E r \in Requests : SendStore(r)
  <2>1. PICK r \in Requests : SendStore(r)
    BY <1>3
  <2> DEFINE key == <<req[r].kind, req[r].email>>
  <2>2. key \in OtpKeys
    BY <2>1 DEF SendStore, Fits, OtpKeys
  <2>3. codes' = Append(codes, key) /\ Len(codes) + 1 <= MaxCodes
    BY <2>1 DEF SendStore
  <2>4. Len(codes') = Len(codes) + 1 /\ codes' \in Seq(OtpKeys)
        /\ \A n \in 1..Len(codes) : codes'[n] = codes[n]
    BY <1>1, <2>2, <2>3
  <2>5. stored' \in [OtpKeys -> 0..Len(codes) + 1]
    BY <1>1, <2>1, <2>2 DEF SendStore
  <2>6. dead' = dead \cup ({stored[key]} \ {0})
    BY <2>1 DEF SendStore, Dies
  <2>7. {stored[key]} \in SUBSET (0..Len(codes))
    BY <2>2
  <2> HIDE DEF key
  <2>8. dead' \subseteq 1..Len(codes) /\ dead \subseteq dead'
    BY <1>1, <1>4, <2>6, <2>7
  <2>9. 1..Len(codes) \subseteq 1..Len(codes')
    BY <1>1, <2>4
  <2> QED  BY <1>1, <2>3, <2>4, <2>5, <2>8, <2>9
<1>5. CASE \E r \in Requests : VerifyDel(r)
  <2>1. PICK r \in Requests : VerifyDel(r)
    BY <1>5
  <2> DEFINE key == <<req[r].kind, req[r].email>>
  <2>2. key \in OtpKeys /\ req[r].code \in 1..Len(codes)
    BY <2>1 DEF VerifyDel, Fits, OtpKeys, CodeSteps
  <2>3. {stored[key], req[r].code} \in SUBSET (0..Len(codes))
    BY <1>1, <2>2
  <2>4. stored' \in [OtpKeys -> 0..Len(codes)] /\ codes' = codes
        /\ dead' = dead \cup ({stored[key], req[r].code} \ {0})
    BY <1>1, <2>1, <2>2 DEF VerifyDel, Dies
  <2>5. dead' \subseteq 1..Len(codes) /\ dead \subseteq dead'
    BY <1>4, <2>3, <2>4
  <2> HIDE DEF key
  <2> QED  BY <1>1, <2>4, <2>5
<1>6. CASE \E k \in OtpKeys : CodeGone(k)
  <2>1. PICK k \in OtpKeys : CodeGone(k)
    BY <1>6
  <2>2. stored' \in [OtpKeys -> 0..Len(codes)] /\ codes' = codes
        /\ dead' = dead \cup ({stored[k]} \ {0})
    BY <1>1, <2>1 DEF CodeGone, Dies
  <2>3. {stored[k]} \in SUBSET (0..Len(codes))
    BY <1>1
  <2>4. dead' \subseteq 1..Len(codes) /\ dead \subseteq dead'
    BY <1>4, <2>2, <2>3
  <2> QED  BY <1>1, <2>2, <2>4
<1> QED  BY <1>2, <1>3, <1>5, <1>6, CodeWriters

(* What a request reads next is of the right type and fits its next step.   *)
Sound(r) == \E q \in RequestRecord : Fits(q) /\ Become(r, q)

LEMMA IdleFits ==
  ASSUME TypeInv
  PROVE  Idle \in RequestRecord /\ Fits(Idle)
<1>1. Len(codes) \in Nat
  BY DEF TypeInv, TypeOK
<1> QED  BY <1>1 DEF RequestRecord, Fits, Idle, CodeSteps

LEMMA IdleSound ==
  ASSUME TypeInv, NEW r \in Requests, Become(r, Idle)
  PROVE  Sound(r)
  BY IdleFits DEF Sound

LEMMA PresentSound ==
  ASSUME TypeInv, NEW r \in Requests, NEW kind \in Modes, NEW u \in Users \cup {NoUser},
         NEW e \in Emails, NEW n, Present(r, kind, u, e, n),
         kind = "change_email" => u \in Users
  PROVE  Sound(r)
<1> DEFINE q == [kind |-> kind, step |-> "verify", user |-> u, email |-> e,
                 code |-> n, spent |-> n \in dead]
<1>1. n \in 1..Len(codes) /\ Len(codes) \in Nat /\ Become(r, q)
  BY DEF Present, TypeInv, TypeOK
<1>2. (n \in dead) \in BOOLEAN
  OBVIOUS
<1>3. q \in RequestRecord /\ Fits(q)
  BY <1>1, <1>2 DEF RequestRecord, Fits, Modes, CodeSteps
<1> QED  BY <1>1, <1>3 DEF Sound

(* A request that presents no code.                                         *)
LEMMA KnowingFields ==
  ASSUME NEW kind, NEW s, NEW u, NEW e
  PROVE  /\ Knowing(kind, s, u, e).kind = kind /\ Knowing(kind, s, u, e).step = s
         /\ Knowing(kind, s, u, e).user = u /\ Knowing(kind, s, u, e).email = e
         /\ ~Knowing(kind, s, u, e).spent
  BY DEF Knowing, Idle

LEMMA KnowingSound ==
  ASSUME TypeInv, NEW r \in Requests, NEW kind, NEW s, NEW u \in Users \cup {NoUser},
         NEW e \in Emails \cup {NoEmail}, Become(r, Knowing(kind, s, u, e)),
         \/ s = "store" /\ kind \in Modes /\ e \in Emails
         \/ s = "signed in" /\ kind \in {"register", "login", "google"}
         \/ s = "set password" /\ kind \in {"reset", "change_password"} /\ u \in Users
         \/ s = "delete" /\ kind = "delete" /\ u \in Users
         \/ s = "link" /\ kind = "google" /\ u \in Users /\ e \in Emails
         \/ s = "create" /\ kind = "google" /\ e \in Emails
  PROVE  Sound(r)
<1> DEFINE q == Knowing(kind, s, u, e)
<1>1. kind \in Modes \cup {"none", "change_password", "delete", "login", "google"}
      /\ s \in {"idle", "store", "verify", "matched", "verified", "set password",
                "delete", "link", "create", "signed in"}
  BY DEF Modes
<1>2. q \in RequestRecord
  BY <1>1, IdleFits DEF RequestRecord, Knowing
<1>3. q.kind = kind /\ q.step = s /\ q.user = u /\ q.email = e
  BY DEF Knowing, Idle
<1> HIDE DEF q
<1>4. Fits(q)
  BY <1>3 DEF Fits, Modes, CodeSteps
<1> QED  BY <1>2, <1>4 DEF Sound, q

LEMMA ReceiptSound ==
  ASSUME TypeInv, NEW r \in Requests, Receive(r) \/ \E u \in Users : ReceiveFrom(r, u)
  PROVE  Sound(r)
<1>1. ASSUME NEW u \in Users, ReceiveFrom(r, u)
      PROVE  Sound(r)
  BY <1>1, KnowingSound DEF ReceiveFrom, ChangePasswordRead, DeleteRead
<1>2. ASSUME NEW e \in Emails, NEW mode \in Modes, SendCheck(r, mode, e)
      PROVE  Sound(r)
  BY <1>2, KnowingSound DEF SendCheck
<1>3. ASSUME NEW e \in Emails, NEW n \in 1..Len(codes),
             \/ RegisterReceive(r, e, n) \/ ResetReceive(r, e, n)
             \/ \E u \in Users : ChangeEmailRead(r, u, e, n)
      PROVE  Sound(r)
  BY <1>3, PresentSound DEF RegisterReceive, ResetReceive, ChangeEmailRead, Modes
<1>4. ASSUME NEW e \in Emails, LoginRead(r, e) \/ GoogleRead(r, e)
      PROVE  Sound(r)
  BY <1>4, KnowingSound DEF LoginRead, GoogleRead, Holders
<1> QED  BY <1>1, <1>2, <1>3, <1>4 DEF Receive

LEMMA AdvanceSound ==
  ASSUME TypeInv, NEW r \in Requests,
         \/ req[r].step = "verify" /\ Advance(r, "matched")
         \/ req[r].step = "matched" /\ Advance(r, "verified")
  PROVE  Sound(r)
<1> DEFINE q(s) == [req[r] EXCEPT !.step = s]
<1>1. req[r] \in RequestRecord /\ Fits(req[r])
  BY DEF TypeInv, TypeOK
<1>2. q("matched") \in RequestRecord /\ q("verified") \in RequestRecord
  BY <1>1 DEF RequestRecord
<1>3. req[r].step \in {"verify", "matched"} => Fits(q("matched")) /\ Fits(q("verified"))
  BY <1>1 DEF RequestRecord, Fits, CodeSteps
<1> QED  BY <1>2, <1>3 DEF Advance, Sound

LEMMA EnterSound ==
  ASSUME TypeInv, NEW r \in Requests, NEW s, NEW u \in Users, Enter(r, s, u),
         \/ s = "signed in" /\ req[r].kind \in {"register", "google"}
         \/ s = "set password" /\ req[r].kind = "reset"
  PROVE  Sound(r)
<1>1. req[r].email \in Emails \cup {NoEmail}
  BY DEF TypeInv, TypeOK, RequestRecord
<1> QED  BY <1>1, KnowingSound DEF Enter

LEMMA StepSound ==
  ASSUME TypeInv, NEW r \in Requests, Step(r)
  PROVE  Sound(r)
<1>1. req[r] \in RequestRecord /\ Fits(req[r])
  BY DEF TypeInv, TypeOK
<1>2. CASE VerifyGet(r)
  BY <1>2, IdleSound, AdvanceSound DEF VerifyGet
<1>3. CASE Fail(r) \/ Answered(r) \/ SetPassword(r) \/ ChangeEmailWrite(r) \/ DeleteWrite(r)
  BY <1>3, IdleSound DEF Fail, Answered, SetPassword, ChangeEmailWrite, DeleteWrite
<1>4. CASE ResetQuery(r)
  BY <1>4, EnterSound DEF ResetQuery, Holders
<1>5. CASE GoogleLink(r)
  BY <1>1, <1>5, EnterSound DEF GoogleLink, SignIn, Fits
<1>6. CASE \E u \in Users : RegisterInsert(r, u) \/ GoogleCreate(r, u)
  BY <1>1, <1>6, EnterSound DEF RegisterInsert, GoogleCreate, SignIn, Fits
<1> QED  BY <1>2, <1>3, <1>4, <1>5, <1>6 DEF Step

(* At most one request moves in a step, and soundly.                        *)
LEMMA OneMoves ==
  ASSUME TypeInv, Next
  PROVE  UNCHANGED req \/ \E r \in Requests : Sound(r)
<1>1. ASSUME NEW r \in Requests, SendStore(r) \/ VerifyDel(r)
      PROVE  Sound(r)
  BY <1>1, IdleSound, AdvanceSound DEF SendStore, VerifyDel
<1>2. ASSUME NEW k \in OtpKeys, CodeGone(k)
      PROVE  UNCHANGED req
  BY <1>2 DEF CodeGone
<1> QED  BY <1>1, <1>2, ReceiptSound, StepSound DEF Next, CodeDies

LEMMA RequestsType ==
  ASSUME TypeInv, Next
  PROVE  req' \in [Requests -> RequestRecord'] /\ \A s \in Requests : Fits(req[s])'
<1>0. 0..Len(codes) \subseteq 0..Len(codes') /\ 1..Len(codes) \subseteq 1..Len(codes')
  <2>1. codes \in Seq(OtpKeys)
    BY DEF TypeInv, TypeOK
  <2>2. codes' \in Seq(OtpKeys) /\ Len(codes) <= Len(codes')
    BY CodesType
  <2>3. Len(codes) \in Nat /\ Len(codes') \in Nat
    BY <2>1, <2>2
  <2> QED  BY <2>2, <2>3
<1>1. ASSUME NEW q \in RequestRecord, Fits(q)
      PROVE  q \in RequestRecord' /\ Fits(q)'
  <2>1. q \in RequestRecord'
    BY <1>0 DEF RequestRecord
  <2>2. Fits(q)'
    BY <1>0, <1>1 DEF Fits
  <2> QED  BY <2>1, <2>2
<1>2. req \in [Requests -> RequestRecord] /\ \A s \in Requests : Fits(req[s])
  BY DEF TypeInv, TypeOK
<1>3. CASE UNCHANGED req
  BY <1>1, <1>2, <1>3
<1>4. ASSUME NEW r \in Requests, Sound(r)
      PROVE  req' \in [Requests -> RequestRecord'] /\ \A s \in Requests : Fits(req[s])'
  <2>1. PICK q \in RequestRecord : Fits(q) /\ Become(r, q)
    BY <1>4 DEF Sound
  <2>2. q \in RequestRecord' /\ Fits(q)'
    BY <1>1, <2>1
  <2>3. req' = [req EXCEPT ![r] = q]
    BY <2>1 DEF Become
  <2>4. ASSUME NEW s \in Requests
        PROVE  req'[s] \in RequestRecord' /\ Fits(req[s])'
    BY <1>1, <1>2, <2>2, <2>3
  <2>5. req' = [s \in Requests |-> req'[s]]
    BY <1>2, <2>3
  <2> QED  BY <2>4, <2>5
<1> QED  BY <1>3, <1>4, OneMoves

LEMMA TypeStep == TypeInv /\ [Next]_vars => TypeInv'
<1> SUFFICES ASSUME TypeInv, [Next]_vars
             PROVE  TypeInv'
  OBVIOUS
<1>1. CASE UNCHANGED vars
  BY <1>1 DEF vars, rows, otp, TypeInv, TypeOK, RequestRecord, Fits
<1>2. CASE Next
  <2>1. held' \in [Requests -> SUBSET Users]
    <3>1. held \in [Requests -> SUBSET Users]
      BY DEF TypeInv, TypeOK
    <3> QED  BY <1>2, <3>1 DEF Next, Remember
  <2> QED  BY <1>2, <2>1, RowsType, CodesType, RequestsType DEF TypeInv, TypeOK
<1> QED  BY <1>1, <1>2

(* Rows, codes and requests in flight keep their types, and an address has  *)
(* one row at most: the indexes of users, whatever registrations, changes   *)
(* of address and Google sign-ins overlap.                                  *)
THEOREM TypeCorrect == Spec => []TypeOK
<1>1. TypeInv => TypeOK
  BY DEF TypeInv
<1> QED  BY <1>1, InitType, TypeStep, PTL DEF Spec

-----------------------------------------------------------------------------
(* Who gets in.  A request keeps every holder of its address it has met, and *)
(* whoever holds it after a step is one of them.                            *)
ByAddress == {"register", "reset", "login", "google"}

LEMMA HeldGrows ==
  ASSUME TypeInv, Remember, NEW s \in Requests, req'[s].kind \in ByAddress
  PROVE  /\ held[s] \subseteq held'[s]
         /\ \A u \in Users :
              status'[u] = "live" /\ email'[u] = req'[s].email => u \in held'[s]
  BY DEF Remember, ByAddress, TypeInv, TypeOK

In(q) == q.step = "signed in" \/ (q.step = "set password" /\ q.kind = "reset") \/ q.step = "link"

LEMMA HolderEach ==
  HolderInv <=> \A r \in Requests : In(req[r]) => req[r].user \in held[r]
  BY DEF HolderInv, OnlyTheHolder, In

LEMMA InByAddress ==
  ASSUME NEW q, Fits(q), In(q)
  PROVE  q.kind \in ByAddress
  BY DEF In, Fits, ByAddress

LEMMA KnowingHolder ==
  ASSUME TypeInv, Remember, NEW r \in Requests, NEW kind \in ByAddress, NEW s, NEW u \in Users,
         NEW e, Become(r, Knowing(kind, s, u, e)),
         u \in held[r] \/ (status'[u] = "live" /\ email'[u] = e)
  PROVE  req'[r].user \in held'[r]
<1>1. req'[r] = Knowing(kind, s, u, e)
  BY OthersWait DEF TypeInv
<1>2. req'[r].kind = kind /\ req'[r].user = u /\ req'[r].email = e
  BY <1>1, KnowingFields
<1> QED  BY <1>2, HeldGrows

LEMMA IdleFields == Idle.kind = "none" /\ Idle.step = "idle" /\ ~Idle.spent
  BY DEF Idle

LEMMA IdleOut == ASSUME TypeInv, NEW r \in Requests, Become(r, Idle) PROVE ~In(req'[r])
<1>1. req'[r] = Idle
  BY OthersWait DEF TypeInv
<1> QED  BY <1>1, IdleFields DEF In

LEMMA AdvanceOut ==
  ASSUME TypeInv, NEW r \in Requests, NEW s \in {"matched", "verified"}, Advance(r, s)
  PROVE  ~In(req'[r])
<1>1. req[r] \in RequestRecord /\ req'[r] = [req[r] EXCEPT !.step = s]
  BY OthersWait DEF TypeInv, TypeOK, Advance
<1>2. req'[r].step = s
  BY <1>1 DEF RequestRecord
<1> QED  BY <1>2 DEF In

LEMMA ReceiptHolder ==
  ASSUME TypeInv, Remember, NEW r \in Requests,
         Receive(r) \/ \E u \in Users : ReceiveFrom(r, u)
  PROVE  In(req'[r]) => req'[r].user \in held'[r]
<1>1. ASSUME NEW u \in Users, ReceiveFrom(r, u)
      PROVE  ~In(req'[r])
  <2>1. \/ req'[r] = Knowing("change_password", "set password", u, NoEmail)
        \/ req'[r] = Knowing("delete", "delete", u, NoEmail)
    BY <1>1, OthersWait DEF ReceiveFrom, ChangePasswordRead, DeleteRead, TypeInv
  <2>2. req'[r].step \in {"set password", "delete"} /\ req'[r].kind # "reset"
    BY <2>1 DEF Knowing, Idle
  <2> QED  BY <2>2 DEF In
<1>2. ASSUME NEW e \in Emails, NEW mode \in Modes, SendCheck(r, mode, e)
      PROVE  ~In(req'[r])
  <2>1. req'[r] = Knowing(mode, "store", NoUser, e)
    BY <1>2, OthersWait DEF SendCheck, TypeInv
  <2>2. req'[r].step = "store"
    BY <2>1 DEF Knowing, Idle
  <2> QED  BY <2>2 DEF In
<1>3. ASSUME NEW kind, NEW u, NEW e, NEW n, Present(r, kind, u, e, n)
      PROVE  ~In(req'[r])
  <2>1. req'[r] = [kind |-> kind, step |-> "verify", user |-> u, email |-> e,
                   code |-> n, spent |-> n \in dead]
    BY <1>3, OthersWait DEF Present, TypeInv
  <2> QED  BY <2>1 DEF In
<1>4. ASSUME NEW e \in Emails, LoginRead(r, e) \/ GoogleRead(r, e)
      PROVE  In(req'[r]) => req'[r].user \in held'[r]
  <2>1. status' = status /\ email' = email
    BY <1>4 DEF LoginRead, GoogleRead, rows
  <2>2. CASE Become(r, Knowing("google", "create", NoUser, e))
    <3>1. req'[r] = Knowing("google", "create", NoUser, e)
      BY <2>2, OthersWait DEF TypeInv
    <3>2. req'[r].step = "create"
      BY <3>1, KnowingFields
    <3> QED  BY <3>2 DEF In
  <2>3. CASE \E u \in Holders(e) : \/ Become(r, Knowing("login", "signed in", u, e))
                                   \/ Become(r, Knowing("google", "link", u, e))
    BY <2>1, <2>3, KnowingHolder DEF Holders, ByAddress
  <2> QED  BY <1>4, <2>2, <2>3 DEF LoginRead, GoogleRead
<1> QED  BY <1>1, <1>2, <1>3, <1>4 DEF Receive, RegisterReceive, ResetReceive, ChangeEmailRead

LEMMA StepHolder ==
  ASSUME TypeInv, HolderInv, Remember, NEW r \in Requests, Step(r)
  PROVE  In(req'[r]) => req'[r].user \in held'[r]
<1>1. req[r] \in RequestRecord /\ Fits(req[r])
  BY DEF TypeInv, TypeOK
<1>2. CASE VerifyGet(r)
  BY <1>2, IdleOut, AdvanceOut DEF VerifyGet
<1>3. CASE Fail(r) \/ Answered(r) \/ SetPassword(r) \/ ChangeEmailWrite(r) \/ DeleteWrite(r)
  BY <1>3, IdleOut DEF Fail, Answered, SetPassword, ChangeEmailWrite, DeleteWrite
<1>4. CASE ResetQuery(r)
  <2>1. status' = status /\ email' = email
    BY <1>4 DEF ResetQuery, rows
  <2> QED  BY <1>4, <2>1, KnowingHolder DEF ResetQuery, Enter, Holders, ByAddress
<1>5. CASE GoogleLink(r)
  <2>1. req[r].kind = "google" /\ req[r].user \in Users /\ req[r].user \in held[r]
    BY <1>1, <1>5, HolderEach DEF GoogleLink, Fits, In
  <2>2. Become(r, Knowing(req[r].kind, "signed in", req[r].user, req[r].email))
    BY <1>5 DEF GoogleLink, SignIn, Enter
  <2> QED  BY <2>1, <2>2, KnowingHolder DEF ByAddress
<1>6. ASSUME NEW u \in Users, RegisterInsert(r, u) \/ GoogleCreate(r, u)
      PROVE  In(req'[r]) => req'[r].user \in held'[r]
  <2>1. req[r].kind \in ByAddress
    BY <1>1, <1>6 DEF RegisterInsert, GoogleCreate, Fits, ByAddress
  <2>2. Insert(u, req[r].email) /\ Become(r, Knowing(req[r].kind, "signed in", u, req[r].email))
    BY <1>6 DEF RegisterInsert, GoogleCreate, SignIn, Enter
  <2>3. status'[u] = "live" /\ email'[u] = req[r].email
    BY <2>2 DEF Insert, TypeInv, TypeOK
  <2> QED  BY <2>1, <2>2, <2>3, KnowingHolder
<1> QED  BY <1>2, <1>3, <1>4, <1>5, <1>6 DEF Step

LEMMA HolderStep == TypeInv /\ HolderInv /\ [Next]_vars => HolderInv'
<1> SUFFICES ASSUME TypeInv, HolderInv, [Next]_vars
             PROVE  HolderInv'
  OBVIOUS
<1>1. CASE UNCHANGED vars
  BY <1>1 DEF vars, rows, otp, HolderInv, OnlyTheHolder
<1>2. CASE Next
  <2>1. Remember
    BY <1>2 DEF Next
  <2>2. ASSUME NEW s \in Requests, req'[s] = req[s], In(req'[s])
        PROVE  req'[s].user \in held'[s]
    <3>1. Fits(req[s])
      BY DEF TypeInv
    <3>2. req'[s].kind \in ByAddress /\ req[s].user \in held[s]
      BY <2>2, <3>1, InByAddress, HolderEach
    <3> QED  BY <2>1, <2>2, <3>2, HeldGrows
  <2>3. ASSUME NEW r \in Requests, NEW q, Become(r, q),
               In(req'[r]) => req'[r].user \in held'[r]
        PROVE  HolderInv'
    <3>1. \A s \in Requests : In(req'[s]) => req'[s].user \in held'[s]
      BY <2>2, <2>3, OthersWait DEF TypeInv
    <3> QED  BY <3>1 DEF HolderInv, OnlyTheHolder, In
  <2>4. ASSUME UNCHANGED req
        PROVE  HolderInv'
    <3>1. \A s \in Requests : In(req'[s]) => req'[s].user \in held'[s]
      BY <2>2, <2>4
    <3> QED  BY <3>1 DEF HolderInv, OnlyTheHolder, In
  <2>5. ASSUME NEW r \in Requests, Receive(r) \/ (\E u \in Users : ReceiveFrom(r, u)) \/ Step(r)
        PROVE  HolderInv'
    <3>1. PICK q : Become(r, q)
      BY <2>5, ReceiptSound, StepSound DEF Sound
    <3> QED  BY <2>1, <2>3, <2>5, <3>1, ReceiptHolder, StepHolder
  <2>6. ASSUME NEW r \in Requests, SendStore(r) \/ VerifyDel(r)
        PROVE  HolderInv'
    <3>1. (\E q : Become(r, q)) /\ ~In(req'[r])
      BY <2>6, IdleOut, AdvanceOut DEF SendStore, VerifyDel, Advance
    <3> QED  BY <2>3, <3>1
  <2>7. ASSUME NEW k \in OtpKeys, CodeGone(k)
        PROVE  HolderInv'
    BY <2>4, <2>7 DEF CodeGone
  <2> QED  BY <1>2, <2>5, <2>6, <2>7 DEF Next, CodeDies
<1> QED  BY <1>1, <1>2

(* Whoever signs in, or is let reset a password, by an address gets into an  *)
(* account that has had this address, undeleted, since the request came:    *)
(* Login, Register, ResetPassword and GoogleExchange beside any changes of  *)
(* address and deletions.                                                   *)
THEOREM OnlyHoldersGetIn == Spec => []OnlyTheHolder
<1>1. Init => HolderInv
  BY IdleFields DEF Init, HolderInv, OnlyTheHolder
<1>2. HolderInv => OnlyTheHolder
  BY DEF HolderInv
<1> QED  BY <1>1, <1>2, InitType, TypeStep, HolderStep, PTL DEF Spec

-----------------------------------------------------------------------------
(* Codes.  What a step makes of the one request that moves.                 *)
Known(r) ==
  \E kind, s, u, e : s \notin CodeSteps /\ Become(r, Knowing(kind, s, u, e))

Presents(r) ==
  \E kind, u, e, n :
    Present(r, kind, u, e, n) /\ (kind = "change_email" => status[u] = "live" /\ u \in password)

Moved(r) ==
  \/ Become(r, Idle) \/ Known(r) \/ Presents(r)
  \/ VerifyGet(r) /\ Advance(r, "matched")
  \/ VerifyDel(r)

LEMMA ReceiptMoved ==
  ASSUME NEW r \in Requests, Receive(r) \/ \E u \in Users : ReceiveFrom(r, u)
  PROVE  Moved(r)
<1>1. ASSUME NEW u \in Users, ReceiveFrom(r, u)
      PROVE  Known(r)
  BY <1>1 DEF ReceiveFrom, ChangePasswordRead, DeleteRead, Known, CodeSteps
<1>2. ASSUME NEW e \in Emails, NEW mode \in Modes, SendCheck(r, mode, e)
      PROVE  Known(r)
  BY <1>2 DEF SendCheck, Known, CodeSteps
<1>3. ASSUME NEW e \in Emails, NEW n \in 1..Len(codes),
             \/ RegisterReceive(r, e, n) \/ ResetReceive(r, e, n)
             \/ \E u \in Users : ChangeEmailRead(r, u, e, n)
      PROVE  Presents(r)
  BY <1>3 DEF RegisterReceive, ResetReceive, ChangeEmailRead, MayChangeEmail, Presents
<1>4. ASSUME NEW e \in Emails, LoginRead(r, e) \/ GoogleRead(r, e)
      PROVE  Known(r)
  BY <1>4 DEF LoginRead, GoogleRead, Known, CodeSteps
<1> QED  BY <1>1, <1>2, <1>3, <1>4 DEF Receive, Moved

LEMMA StepMoved ==
  ASSUME NEW r \in Requests, Step(r)
  PROVE  Moved(r)
<1>1. ASSUME NEW s, NEW u, Enter(r, s, u), s \in {"signed in", "set password"}
      PROVE  Known(r)
  BY <1>1 DEF Enter, Known, CodeSteps
<1>2. CASE ResetQuery(r) \/ GoogleLink(r) \/ \E u \in Users : RegisterInsert(r, u) \/ GoogleCreate(r, u)
  BY <1>1, <1>2 DEF ResetQuery, GoogleLink, RegisterInsert, GoogleCreate, SignIn, Moved
<1>3. CASE Fail(r) \/ Answered(r) \/ SetPassword(r) \/ ChangeEmailWrite(r) \/ DeleteWrite(r)
  BY <1>3 DEF Fail, Answered, SetPassword, ChangeEmailWrite, DeleteWrite, Moved
<1>4. CASE VerifyGet(r)
  BY <1>4 DEF VerifyGet, Moved
<1> QED  BY <1>2, <1>3, <1>4 DEF Step

LEMMA Moves ==
  ASSUME Next
  PROVE  UNCHANGED req \/ \E r \in Requests : Moved(r)
<1>1. ASSUME NEW r \in Requests, SendStore(r) \/ VerifyDel(r)
      PROVE  Moved(r)
  BY <1>1 DEF SendStore, Moved
<1>2. ASSUME NEW k \in OtpKeys, CodeGone(k)
      PROVE  UNCHANGED req
  BY <1>2 DEF CodeGone
<1> QED  BY <1>1, <1>2, ReceiptMoved, StepMoved DEF Next, CodeDies

(* A property of every request that an untouched one keeps.                 *)
CodeFits(q) ==
  /\ q.step \in {"matched", "verified"} => codes[q.code] = <<q.kind, q.email>> /\ ~q.spent
  /\ q.spent => q.code \in dead

KeysAlive == \A k \in OtpKeys : stored[k] # 0 => codes[stored[k]] = k /\ stored[k] \notin dead

LEMMA CodesEach == CodesInv <=> KeysAlive /\ \A r \in Requests : CodeFits(req[r])
  BY DEF CodesInv, CodesUsedOnce, KeysAlive, CodeFits

LEMMA KeysStep ==
  ASSUME TypeInv, CodesInv, Next
  PROVE  KeysAlive'
<1>1. /\ KeysAlive /\ \A r \in Requests : CodeFits(req[r]) /\ Fits(req[r])
      /\ stored \in [OtpKeys -> 0..Len(codes)] /\ Len(codes) \in Nat
      /\ dead \subseteq 1..Len(codes) /\ codes \in Seq(OtpKeys)
  BY CodesEach DEF TypeInv, TypeOK
<1>2. CASE UNCHANGED <<otp, dead>>
  BY <1>1, <1>2 DEF otp, KeysAlive
<1>3. CASE \E r \in Requests : SendStore(r)
  <2>1. PICK r \in Requests : SendStore(r)
    BY <1>3
  <2> DEFINE key == <<req[r].kind, req[r].email>>
             n == Len(codes) + 1
  <2>2. key \in OtpKeys
    BY <1>1, <2>1 DEF SendStore, Fits, OtpKeys
  <2>3. /\ codes' = Append(codes, key) /\ stored' = [stored EXCEPT ![key] = n]
        /\ dead' = dead \cup ({stored[key]} \ {0})
    BY <2>1 DEF SendStore, Dies
  <2> HIDE DEF key
  <2>4. codes'[n] = key /\ \A m \in 1..Len(codes) : codes'[m] = codes[m]
    BY <1>1, <2>2, <2>3
  <2>5. n \notin dead'
    BY <1>1, <2>2, <2>3
  <2>6. ASSUME NEW k \in OtpKeys, k # key, stored'[k] # 0
        PROVE  codes'[stored'[k]] = k /\ stored'[k] \notin dead'
    <3>1. stored'[k] = stored[k] /\ stored[k] \in 1..Len(codes)
      BY <1>1, <2>3, <2>6
    <3>2. codes[stored[k]] = k /\ stored[k] \notin dead
      BY <1>1, <2>6, <3>1 DEF KeysAlive
    <3>3. stored[k] # stored[key] \/ stored[key] = 0
      BY <1>1, <2>2, <2>6, <3>2 DEF KeysAlive
    <3> QED  BY <2>3, <2>4, <3>1, <3>2, <3>3
  <2>7. stored'[key] = n
    BY <1>1, <2>2, <2>3
  <2> QED  BY <2>4, <2>5, <2>6, <2>7 DEF KeysAlive
<1>4. ASSUME NEW key \in OtpKeys, NEW S, codes' = codes, stored' = [stored EXCEPT ![key] = 0],
             dead' = dead \cup (S \ {0}),
             \A n \in S \ {0} : codes[n] = key
      PROVE  KeysAlive'
  BY <1>1, <1>4 DEF KeysAlive
<1>5. CASE \E r \in Requests : VerifyDel(r)
  <2>1. PICK r \in Requests : VerifyDel(r)
    BY <1>5
  <2> DEFINE key == <<req[r].kind, req[r].email>>
             S == {stored[key], req[r].code}
  <2>2. key \in OtpKeys /\ codes[req[r].code] = key
    BY <1>1, <2>1 DEF VerifyDel, Fits, OtpKeys, CodeSteps, CodeFits
  <2>3. codes' = codes /\ stored' = [stored EXCEPT ![key] = 0] /\ dead' = dead \cup (S \ {0})
    BY <2>1 DEF VerifyDel, Dies
  <2> HIDE DEF key
  <2>4. \A n \in S \ {0} : codes[n] = key
    BY <1>1, <2>2 DEF KeysAlive
  <2> HIDE DEF S
  <2> QED  BY <1>4, <2>2, <2>3, <2>4
<1>6. CASE \E k \in OtpKeys : CodeGone(k)
  <2>1. PICK k \in OtpKeys : CodeGone(k)
    BY <1>6
  <2>2. codes' = codes /\ stored' = [stored EXCEPT ![k] = 0] /\ dead' = dead \cup ({stored[k]} \ {0})
    BY <2>1 DEF CodeGone, Dies
  <2>3. \A n \in {stored[k]} \ {0} : codes[n] = k
    BY <1>1 DEF KeysAlive
  <2> QED  BY <1>4, <2>2, <2>3
<1> QED  BY <1>2, <1>3, <1>5, <1>6, CodeWriters

LEMMA MovedCode ==
  ASSUME TypeInv, CodesInv, Next, NEW r \in Requests, Moved(r)
  PROVE  CodeFits(req[r])'
<1>1. /\ KeysAlive /\ CodeFits(req[r]) /\ Fits(req[r]) /\ req[r] \in RequestRecord
      /\ stored \in [OtpKeys -> 0..Len(codes)] /\ Len(codes) \in Nat
  BY CodesEach DEF TypeInv, TypeOK
<1>2. dead \subseteq dead' /\ \A n \in 1..Len(codes) : codes'[n] = codes[n]
  BY CodesType
<1>3. CASE Become(r, Idle)
  <2>1. req'[r].step = "idle" /\ ~req'[r].spent
    BY <1>3, OthersWait, IdleFields DEF TypeInv
  <2> QED  BY <2>1 DEF CodeFits
<1>4. CASE Known(r)
  <2>1. PICK kind, s, u, e : s \notin CodeSteps /\ Become(r, Knowing(kind, s, u, e))
    BY <1>4 DEF Known
  <2>2. req'[r] = Knowing(kind, s, u, e)
    BY <2>1, OthersWait DEF TypeInv
  <2>3. req'[r].step = s /\ ~req'[r].spent
    BY <2>2, KnowingFields
  <2> QED  BY <2>1, <2>3 DEF CodeFits, CodeSteps
<1>5. CASE Presents(r)
  <2>1. PICK kind, u, e, n : Present(r, kind, u, e, n)
    BY <1>5 DEF Presents
  <2>2. req'[r] = [kind |-> kind, step |-> "verify", user |-> u, email |-> e,
                   code |-> n, spent |-> n \in dead]
    BY <2>1, OthersWait DEF Present, TypeInv
  <2>3. req'[r].step = "verify" /\ req'[r].code = n /\ req'[r].spent = (n \in dead)
    BY <2>2
  <2> QED  BY <1>2, <2>3 DEF CodeFits
<1>6. ASSUME NEW s \in {"matched", "verified"}, Advance(r, s), req[r].step \in CodeSteps,
             codes[req[r].code] = <<req[r].kind, req[r].email>>, ~req[r].spent
      PROVE  CodeFits(req[r])'
  <2>1. req'[r] = [req[r] EXCEPT !.step = s]
    BY <1>6, OthersWait DEF Advance, TypeInv
  <2>2. /\ req'[r].kind = req[r].kind /\ req'[r].email = req[r].email
        /\ req'[r].code = req[r].code /\ req'[r].spent = req[r].spent
    BY <1>1, <2>1 DEF RequestRecord
  <2>3. codes'[req[r].code] = codes[req[r].code]
    BY <1>1, <1>2, <1>6 DEF Fits
  <2> QED  BY <1>6, <2>2, <2>3 DEF CodeFits
<1>7. CASE VerifyGet(r) /\ Advance(r, "matched")
  <2> DEFINE key == <<req[r].kind, req[r].email>>
  <2>1. CASE Advance(r, "matched") /\ stored[key] = req[r].code
    <3>1. req[r].step \in CodeSteps /\ key \in OtpKeys /\ req[r].code \in 1..Len(codes)
      BY <1>1, <1>7 DEF VerifyGet, Fits, OtpKeys, CodeSteps
    <3>2. codes[req[r].code] = key /\ req[r].code \notin dead
      BY <1>1, <2>1, <3>1 DEF KeysAlive
    <3>3. ~req[r].spent
      BY <1>1, <3>2 DEF CodeFits
    <3> QED  BY <1>6, <2>1, <3>1, <3>2, <3>3
  <2>2. CASE Become(r, Idle)
    BY <1>3, <2>2
  <2> QED  BY <1>7, <2>1, <2>2 DEF VerifyGet
<1>8. CASE VerifyDel(r)
  <2>1. req[r].step = "matched" /\ Advance(r, "verified")
    BY <1>8 DEF VerifyDel
  <2> QED  BY <1>1, <1>6, <2>1 DEF CodeFits, CodeSteps
<1> QED  BY <1>3, <1>4, <1>5, <1>7, <1>8 DEF Moved

LEMMA CodesStep == TypeInv /\ CodesInv /\ [Next]_vars => CodesInv'
<1> SUFFICES ASSUME TypeInv, CodesInv, [Next]_vars
             PROVE  CodesInv'
  OBVIOUS
<1>1. CASE UNCHANGED vars
  BY <1>1 DEF vars, rows, otp, CodesInv, CodesUsedOnce
<1>2. CASE Next
  <2>1. ASSUME NEW s \in Requests, req'[s] = req[s]
        PROVE  CodeFits(req[s])'
    <3>1. CodeFits(req[s]) /\ Fits(req[s])
      BY CodesEach DEF TypeInv
    <3>2. dead \subseteq dead' /\ \A n \in 1..Len(codes) : codes'[n] = codes[n]
      BY <1>2, CodesType
    <3> QED  BY <2>1, <3>1, <3>2 DEF CodeFits, Fits, CodeSteps
  <2>2. ASSUME NEW r \in Requests, Moved(r)
        PROVE  \A s \in Requests : CodeFits(req[s])'
    <3>1. \A s \in Requests \ {r} : req'[s] = req[s]
      BY <2>2, OthersWait DEF Moved, Known, Presents, Present, VerifyGet, VerifyDel, Advance, TypeInv
    <3> QED  BY <1>2, <2>1, <2>2, <3>1, MovedCode
  <2>3. \A s \in Requests : CodeFits(req[s])'
    BY <1>2, <2>1, <2>2, Moves
  <2>4. KeysAlive'
    BY <1>2, KeysStep
  <2> QED  BY <2>3, <2>4 DEF CodesInv, CodesUsedOnce, KeysAlive, CodeFits
<1> QED  BY <1>1, <1>2

(* A code passes for the address and the purpose it was generated for only, *)
(* and in no request that came after it was used, replaced, withdrawn or    *)
(* expired: VerifyOTP beside sends, expiries and late failures of e-mails.  *)
THEOREM CodesPassOnce == Spec => []CodesUsedOnce
<1>1. Init => CodesInv
  BY IdleFields DEF Init, CodesInv, CodesUsedOnce
<1>2. CodesInv => CodesUsedOnce
  BY DEF CodesInv
<1> QED  BY <1>1, <1>2, InitType, TypeStep, CodesStep, PTL DEF Spec

-----------------------------------------------------------------------------
(* Ways in.  A password goes with its account only, and what is deleted     *)
(* stays deleted.                                                           *)
LEMMA PasswordsStay ==
  ASSUME TypeInv, Next, NEW u \in Users
  PROVE  /\ u \in password => u \in password' \/ status'[u] = "deleted"
         /\ status[u] = "deleted" => status'[u] = "deleted"
<1>1. CASE UNCHANGED rows
  BY <1>1 DEF rows
<1>2. ASSUME NEW r \in Requests, RowWriter(r)
      PROVE  /\ u \in password => u \in password' \/ status'[u] = "deleted"
             /\ status[u] = "deleted" => status'[u] = "deleted"
  <2>1. CASE \E w \in Users : RegisterInsert(r, w) \/ GoogleCreate(r, w)
    BY <2>1 DEF RegisterInsert, GoogleCreate, Insert, TypeInv, TypeOK
  <2>2. CASE SetPassword(r) \/ ChangeEmailWrite(r) \/ GoogleLink(r)
    BY <2>2 DEF SetPassword, ChangeEmailWrite, GoogleLink
  <2>3. CASE DeleteWrite(r)
    BY <2>3 DEF DeleteWrite, TypeInv, TypeOK
  <2> QED  BY <1>2, <2>1, <2>2, <2>3 DEF RowWriter
<1> QED  BY <1>1, <1>2, RowWriters

WayFits(q) ==
  q.kind = "change_email" /\ q.step \in CodeSteps
    => q.user \in password \/ status[q.user] = "deleted"

LEMMA WayEach == WayInInv <=> WayIn /\ \A r \in Requests : WayFits(req[r])
  BY DEF WayInInv, WayFits

LEMMA RowsWayIn ==
  ASSUME TypeInv, WayInInv, Next
  PROVE  WayIn'
<1>1. CASE UNCHANGED rows
  BY <1>1 DEF rows, WayInInv, WayIn
<1>2. ASSUME NEW r \in Requests, RowWriter(r)
      PROVE  WayIn'
  <2>1. Fits(req[r]) /\ WayFits(req[r]) /\ WayIn
    BY WayEach DEF TypeInv
  <2>2. email \in [Users -> Emails \cup {NoEmail}] /\ status \in [Users -> {"none", "live", "deleted"}]
    BY DEF TypeInv, TypeOK
  <2>3. CASE \E u \in Users : RegisterInsert(r, u)
    BY <2>1, <2>2, <2>3 DEF RegisterInsert, Insert, WayIn
  <2>4. CASE \E u \in Users : GoogleCreate(r, u)
    BY <2>1, <2>2, <2>4 DEF GoogleCreate, Insert, WayIn
  <2>5. CASE SetPassword(r)
    BY <2>1, <2>5 DEF SetPassword, WayIn
  <2>6. CASE GoogleLink(r)
    BY <2>1, <2>6 DEF GoogleLink, WayIn
  <2>7. CASE DeleteWrite(r)
    BY <2>1, <2>2, <2>7 DEF DeleteWrite, WayIn
  <2>8. CASE ChangeEmailWrite(r)
    <3>1. req[r].user \in password \/ status[req[r].user] = "deleted"
      BY <2>1, <2>8 DEF ChangeEmailWrite, WayFits, CodeSteps
    <3> QED  BY <2>1, <2>2, <2>8, <3>1 DEF ChangeEmailWrite, WayIn
  <2> QED  BY <1>2, <2>3, <2>4, <2>5, <2>6, <2>7, <2>8 DEF RowWriter
<1> QED  BY <1>1, <1>2, RowWriters

LEMMA MovedWay ==
  ASSUME TypeInv, WayInInv, Next, NEW r \in Requests, Moved(r)
  PROVE  WayFits(req[r])'
<1>1. Fits(req[r]) /\ WayFits(req[r]) /\ req[r] \in RequestRecord
  BY WayEach DEF TypeInv, TypeOK
<1>2. ASSUME NEW s \in {"matched", "verified"}, Advance(r, s), req[r].step \in CodeSteps
      PROVE  WayFits(req[r])'
  <2>1. req'[r] = [req[r] EXCEPT !.step = s]
    BY <1>2, OthersWait DEF Advance, TypeInv
  <2>2. req'[r].kind = req[r].kind /\ req'[r].user = req[r].user
    BY <1>1, <2>1 DEF RequestRecord
  <2>3. ASSUME req[r].kind = "change_email"
        PROVE  req[r].user \in Users /\ (req[r].user \in password \/ status[req[r].user] = "deleted")
    BY <1>1, <1>2, <2>3 DEF Fits, WayFits
  <2>4. req[r].kind = "change_email"
          => req[r].user \in password' \/ status'[req[r].user] = "deleted"
    BY <2>3, PasswordsStay
  <2> QED  BY <2>2, <2>4 DEF WayFits
<1>3. CASE Become(r, Idle)
  <2>1. req'[r].kind = "none"
    BY <1>3, OthersWait, IdleFields DEF TypeInv
  <2> QED  BY <2>1 DEF WayFits
<1>4. CASE Known(r)
  <2>1. PICK kind, s, u, e : s \notin CodeSteps /\ Become(r, Knowing(kind, s, u, e))
    BY <1>4 DEF Known
  <2>2. req'[r] = Knowing(kind, s, u, e)
    BY <2>1, OthersWait DEF TypeInv
  <2>3. req'[r].step = s
    BY <2>2, KnowingFields
  <2> QED  BY <2>1, <2>3 DEF WayFits
<1>5. CASE Presents(r)
  <2>1. PICK kind, u, e, n :
          Present(r, kind, u, e, n) /\ (kind = "change_email" => status[u] = "live" /\ u \in password)
    BY <1>5 DEF Presents
  <2>2. req'[r] = [kind |-> kind, step |-> "verify", user |-> u, email |-> e,
                   code |-> n, spent |-> n \in dead]
    BY <2>1, OthersWait DEF Present, TypeInv
  <2>3. req'[r].kind = kind /\ req'[r].user = u /\ password' = password
    BY <2>1, <2>2 DEF Present, rows
  <2> QED  BY <2>1, <2>3 DEF WayFits
<1>6. CASE VerifyGet(r) /\ Advance(r, "matched")
  BY <1>2, <1>6 DEF VerifyGet, CodeSteps
<1>7. CASE VerifyDel(r)
  BY <1>2, <1>7 DEF VerifyDel, CodeSteps
<1> QED  BY <1>3, <1>4, <1>5, <1>6, <1>7 DEF Moved

LEMMA WayInStep == TypeInv /\ WayInInv /\ [Next]_vars => WayInInv'
<1> SUFFICES ASSUME TypeInv, WayInInv, [Next]_vars
             PROVE  WayInInv'
  OBVIOUS
<1>1. CASE UNCHANGED vars
  BY <1>1 DEF vars, rows, otp, WayInInv, WayIn
<1>2. CASE Next
  <2>1. ASSUME NEW s \in Requests, req'[s] = req[s]
        PROVE  WayFits(req[s])'
    <3>1. WayFits(req[s]) /\ Fits(req[s])
      BY WayEach DEF TypeInv
    <3>2. ASSUME req[s].kind = "change_email", req[s].step \in CodeSteps
          PROVE  req[s].user \in password' \/ status'[req[s].user] = "deleted"
      BY <1>2, <3>1, <3>2, PasswordsStay DEF WayFits, Fits
    <3> QED  BY <2>1, <3>2 DEF WayFits
  <2>2. ASSUME NEW r \in Requests, Moved(r)
        PROVE  \A s \in Requests : WayFits(req[s])'
    <3>1. \A s \in Requests \ {r} : req'[s] = req[s]
      BY <2>2, OthersWait DEF Moved, Known, Presents, Present, VerifyGet, VerifyDel, Advance, TypeInv
    <3> QED  BY <1>2, <2>1, <2>2, <3>1, MovedWay
  <2>3. \A s \in Requests : WayFits(req[s])'
    BY <1>2, <2>1, <2>2, Moves
  <2>4. WayIn'
    BY <1>2, RowsWayIn
  <2> QED  BY <2>3, <2>4 DEF WayInInv, WayFits
<1> QED  BY <1>1, <1>2

(* An account without password keeps the Google identity of its own address: *)
(* ChangeEmail, which checks the password before it verifies the code and    *)
(* drops the identities after it, beside Google sign-ins and deletions.      *)
THEOREM AlwaysAWayIn == Spec => []WayIn
<1>1. Init => WayInInv
  BY IdleFields DEF Init, WayInInv, WayIn
<1>2. WayInInv => WayIn
  BY DEF WayInInv
<1> QED  BY <1>1, <1>2, InitType, TypeStep, WayInStep, PTL DEF Spec
=============================================================================
