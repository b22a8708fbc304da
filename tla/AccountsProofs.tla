--------------------------- MODULE AccountsProofs ---------------------------
(***************************************************************************)
(* Proofs about Accounts, for every set of people, phones and requests in  *)
(* flight, and every length of the day.                                    *)
(***************************************************************************)
EXTENDS Accounts, TLAPS

-----------------------------------------------------------------------------
(* The window                                                              *)

(* The three-way comparison of within_processing_window is the arc from    *)
(* start up to end, for every length of the day and on either side of      *)
(* midnight.                                                               *)
THEOREM WindowArc ==
  ASSUME NEW r, r.exists, r.enabled, r.start \in Times, r.end \in Times, r.start # r.end,
         NEW now \in Times
  PROVE WithinWindow(r, now) <=> Since(r.start, now) < Since(r.start, r.end)
<1>1. DayLength \in Nat /\ r.start \in 0..(DayLength - 1) /\ r.end \in 0..(DayLength - 1)
      /\ now \in 0..(DayLength - 1)
  BY DayAssumption DEF Times
<1>2. CASE r.start < r.end
  BY <1>1, <1>2 DEF WithinWindow, Since
<1>3. CASE r.start > r.end
  BY <1>1, <1>3 DEF WithinWindow, Since
<1> QED BY <1>1, <1>2, <1>3

-----------------------------------------------------------------------------
(* The inductive invariant                                                 *)

Kinds == {"free", "login", "seed", "seed master", "register", "unregister",
          "get settings", "put settings"}
ChangesOK == Changes \cup {Free.change}
RequestType == [kind : Kinds, who : Emails \cup {nobody}, phone : Phones \cup {nobody},
                found : BOOLEAN, change : ChangesOK]
RowType == [exists : BOOLEAN, mode : Modes, enabled : BOOLEAN, start : Times, end : Times]

\* What a request found is still there; what it is about is a person or a phone.
RequestsOK ==
  /\ request \in [Slots -> RequestType]
  /\ \A r \in Slots : LET q == request[r] IN
       /\ q.kind \in {"login", "seed", "register", "unregister"} => q.who \in Emails
       /\ q.kind \in {"login", "register", "unregister"} => q.phone \in Phones
       /\ q.kind \in {"login", "seed"} /\ q.found => account[q.who] # "absent"
       /\ q.kind \in {"register", "unregister"} => account[q.who] # "absent"
\* A registration in flight is of the present session, unless that is unclear.
InFlight ==
  \A r \in Slots : LET q == request[r] IN
    /\ q.kind \in {"register", "unregister"}
    /\ session[q.phone] # nobody /\ standing[q.phone] # "unclear"
    => q.who = session[q.phone]
SettingsOK == row \in RowType
IInv == AccountInv /\ RequestsOK /\ InFlight /\ SettingsOK /\ PhoneOfItsUser

LEMMA InitIInv == Init => IInv
<1> SUFFICES ASSUME Init PROVE IInv
  OBVIOUS
<1>1. 2 \in Times /\ 5 \in Times /\ 0 \in Times
  BY DayAssumption DEF Times
<1>2. AccountInv
  BY <1>1, AccountAssumption DEF Init, AccountInv, TypeOK, Roles, NoRow, DefaultRow, Row, Modes
<1>3. RequestsOK /\ InFlight
  BY DEF Init, RequestsOK, InFlight, RequestType, Free, Kinds, ChangesOK
<1>4. SettingsOK
  BY <1>1 DEF Init, SettingsOK, RowType, NoRow, DefaultRow, Row, Modes
<1>5. PhoneOfItsUser
  BY DEF Init, PhoneOfItsUser
<1> QED BY <1>2, <1>3, <1>4, <1>5 DEF IInv

-----------------------------------------------------------------------------
(* Receiving and answering                                                 *)

\* A request enters; if it registers, it is of the phone's present session.
LEMMA ReceiveKeeps ==
  ASSUME IInv, NEW r \in Slots, NEW q \in RequestType, Receive(r, q),
         UNCHANGED <<accountVars, deviceVars, row>>,
         q.kind \in {"login", "seed", "register", "unregister"} => q.who \in Emails,
         q.kind \in {"login", "register", "unregister"} => q.phone \in Phones,
         q.kind \in {"login", "seed"} /\ q.found => account[q.who] # "absent",
         q.kind \in {"register", "unregister"} =>
           q.who = session[q.phone] /\ account[q.who] # "absent",
         clock' \in Times
  PROVE IInv'
<1>1. AccountInv' /\ SettingsOK' /\ PhoneOfItsUser'
  BY DEF IInv, AccountInv, TypeOK, SettingsOK, PhoneOfItsUser, accountVars, deviceVars
<1>2. RequestsOK'
  BY DEF IInv, RequestsOK, Receive, accountVars
<1>3. InFlight'
  BY DEF IInv, RequestsOK, InFlight, Receive, deviceVars
<1> QED BY <1>1, <1>2, <1>3 DEF IInv

\* A slot is freed; nothing else of the requests changes.
LEMMA AnswerRequests ==
  ASSUME IInv, NEW r \in Slots, Answer(r),
         \A e \in Emails : account[e] # "absent" => account'[e] # "absent"
  PROVE RequestsOK'
<1>1. Free \in RequestType
  BY DEF Free, RequestType, Kinds, ChangesOK
<1>2. request' \in [Slots -> RequestType]
  BY <1>1 DEF IInv, RequestsOK, Answer
<1>3. \A s \in Slots : request'[s] = request[s] \/ request'[s] = Free
  BY DEF IInv, RequestsOK, Answer
<1> QED BY <1>2, <1>3 DEF IInv, RequestsOK, Free

LEMMA AnswerInFlight ==
  ASSUME IInv, NEW r \in Slots, Answer(r), UNCHANGED session, UNCHANGED standing
  PROVE InFlight'
<1>1. \A s \in Slots : request'[s] = request[s] \/ request'[s] = Free
  BY DEF IInv, RequestsOK, Answer
<1> QED BY <1>1 DEF IInv, InFlight, Free

-----------------------------------------------------------------------------
(* One lemma per action                                                    *)

\* Accounts change as configured and none disappears.
AccountsGrow ==
  /\ account' \in [Emails -> Roles \cup {"absent"}]
  /\ \A e \in Emails : account'[e] # "absent" => (account'[e] = "MASTER_ADMIN" <=> e = Master)
  /\ \A e \in Emails : account[e] # "absent" => account'[e] # "absent"

LEMMA StartKeeps ==
  ASSUME IInv, NEW r \in Slots, NEW p \in Phones, NEW e \in Emails,
         \/ FindUser(r, p, e) \/ SeedFind(r, e) \/ SendRegistration(r, p) \/ FindRegistration(r, p)
  PROVE IInv'
<1>1. clock \in Times
  BY DEF IInv, AccountInv, TypeOK
<1>2. CASE FindUser(r, p, e)
  <2> DEFINE q == [Free EXCEPT !.kind = "login", !.who = e, !.phone = p, !.found = account[e] # "absent"]
  <2>1. q \in RequestType
    BY DEF Free, RequestType, Kinds, ChangesOK
  <2>2. q.kind = "login" /\ q.who = e /\ q.phone = p /\ q.found = (account[e] # "absent")
    BY DEF Free
  <2>3. Receive(r, q) /\ UNCHANGED <<accountVars, deviceVars, row, clock>>
    BY <1>2 DEF FindUser
  <2> HIDE DEF q
  <2> QED BY <1>1, <2>1, <2>2, <2>3, ReceiveKeeps
<1>3. CASE SeedFind(r, e)
  <2> DEFINE q == [Free EXCEPT !.kind = "seed", !.who = e, !.found = account[e] # "absent"]
  <2>1. q \in RequestType
    BY DEF Free, RequestType, Kinds, ChangesOK
  <2>2. q.kind = "seed" /\ q.who = e /\ q.found = (account[e] # "absent")
    BY DEF Free
  <2>3. Receive(r, q) /\ UNCHANGED <<accountVars, deviceVars, row, clock>>
    BY <1>3 DEF SeedFind
  <2> HIDE DEF q
  <2> QED BY <1>1, <2>1, <2>2, <2>3, ReceiveKeeps
<1>4. ASSUME Caller(p) # nobody
      PROVE Caller(p) = session[p] /\ Caller(p) \in Emails /\ account[Caller(p)] # "absent"
  BY <1>4 DEF Caller, Roles
<1>5. ASSUME NEW k \in {"register", "unregister"}, Caller(p) # nobody,
             Receive(r, [Free EXCEPT !.kind = k, !.who = Caller(p), !.phone = p]),
             UNCHANGED <<accountVars, deviceVars, row, clock>>
      PROVE IInv'
  <2> DEFINE q == [Free EXCEPT !.kind = k, !.who = Caller(p), !.phone = p]
  <2>1. q \in RequestType
    BY <1>4, <1>5 DEF Free, RequestType, Kinds, ChangesOK
  <2>2. q.kind = k /\ q.who = Caller(p) /\ q.phone = p
    BY DEF Free
  <2>3. Receive(r, q) /\ UNCHANGED <<accountVars, deviceVars, row, clock>>
    BY <1>5
  <2> HIDE DEF q
  <2> QED BY <1>1, <1>4, <1>5, <2>1, <2>2, <2>3, ReceiveKeeps
<1>6. CASE SendRegistration(r, p)
  BY <1>5, <1>6 DEF SendRegistration
<1>7. CASE FindRegistration(r, p)
  BY <1>5, <1>7 DEF FindRegistration
<1> QED BY <1>2, <1>3, <1>6, <1>7

LEMMA LoadKeeps ==
  ASSUME IInv, NEW r \in Slots, NEW p \in Phones, GetSettings(r, p) \/ PutSettings(r, p)
  PROVE IInv'
<1>1. PICK k \in {"get settings", "put settings"}, c \in ChangesOK : LoadSettings(r, p, k, c)
  BY DEF GetSettings, PutSettings, ChangesOK
<1>2. PICK b \in BOOLEAN :
        Receive(r, [Free EXCEPT !.kind = k, !.who = Caller(p), !.change = c,
                                !.found = row.exists /\ ~b])
  BY <1>1 DEF LoadSettings
<1> DEFINE q == [Free EXCEPT !.kind = k, !.who = Caller(p), !.change = c, !.found = row.exists /\ ~b]
<1>3. q \in RequestType
  BY DEF Free, RequestType, Kinds, Caller, IInv, SettingsOK, RowType
<1>4. q.kind = k
  BY DEF Free
<1>5. Receive(r, q) /\ UNCHANGED <<accountVars, deviceVars, row, clock>> /\ clock \in Times
  BY <1>1, <1>2 DEF LoadSettings, IInv, AccountInv, TypeOK
<1> HIDE DEF q
<1> QED BY <1>3, <1>4, <1>5, ReceiveKeeps

\* Signing a phone in keeps the invariant if the user has a row.
LEMMA SignedInKeeps ==
  ASSUME IInv, NEW p \in Phones, NEW e \in Emails, SignedIn(p, e), AccountsGrow,
         account'[e] # "absent", session[p] = nobody,
         UNCHANGED <<passwords, row, clock>>, RequestsOK',
         \A s \in Slots : request'[s] = request[s] \/ request'[s] = Free
  PROVE IInv'
<1>1. /\ session' \in [Phones -> Emails \cup {nobody}]
      /\ \A x \in Phones : session'[x] # nobody => account'[session'[x]] # "absent"
  BY DEF SignedIn, AccountsGrow, IInv, AccountInv, TypeOK
<1>2. standing' \in [Phones -> {"new", "registered", "unclear"}] /\ standing'[p] # "registered"
      /\ \A x \in Phones : x # p => standing'[x] = standing[x] /\ session'[x] = session[x]
  BY DEF SignedIn, IInv, AccountInv, TypeOK
<1>3. AccountInv' /\ SettingsOK'
  BY <1>1, <1>2 DEF SignedIn, AccountsGrow, IInv, AccountInv, TypeOK, SettingsOK
<1>4. PhoneOfItsUser'
  BY <1>2 DEF SignedIn, IInv, PhoneOfItsUser
<1>5. InFlight'
  <2> SUFFICES ASSUME NEW s \in Slots, request'[s].kind \in {"register", "unregister"},
                      session'[request'[s].phone] # nobody, standing'[request'[s].phone] # "unclear"
               PROVE request'[s].who = session'[request'[s].phone]
    BY DEF InFlight
  <2>1. request'[s] = request[s]
    BY DEF Free
  <2>2. request[s].phone \in Phones
    BY <2>1 DEF IInv, RequestsOK
  <2>3. request[s].phone # p
    BY <2>1 DEF SignedIn, IInv, AccountInv, TypeOK
  <2> QED BY <1>2, <2>1, <2>2, <2>3 DEF IInv, InFlight
<1> QED BY <1>3, <1>4, <1>5 DEF IInv

LEMMA WriteUserKeeps ==
  ASSUME IInv, NEW r \in Slots, WriteUser(r)
  PROVE IInv'
<1> DEFINE q == request[r]
<1>1. /\ q.kind = "login" /\ session[q.phone] = nobody /\ q.who \in Emails /\ q.phone \in Phones
      /\ q.found => account[q.who] # "absent"
      /\ Answer(r) /\ UNCHANGED <<passwords, row, clock>>
  BY DEF WriteUser, IInv, RequestsOK
<1>2. \A s \in Slots : request'[s] = request[s] \/ request'[s] = Free
  BY <1>1 DEF IInv, RequestsOK, Answer
<1>3. CASE UNCHANGED <<account, deviceVars>>
  <2>1. RequestsOK' /\ InFlight'
    BY <1>1, <1>3, AnswerRequests, AnswerInFlight DEF deviceVars
  <2> QED BY <1>1, <1>3, <2>1 DEF IInv, AccountInv, TypeOK, SettingsOK, PhoneOfItsUser, deviceVars
<1>4. CASE SignedIn(q.phone, q.who) /\ account[q.who] # "absent"
           /\ account' = [account EXCEPT ![q.who] = IF RoleFor(q.who) = "MASTER_ADMIN"
                                                    THEN "MASTER_ADMIN" ELSE @]
  <2>1. AccountsGrow /\ account'[q.who] # "absent"
    BY <1>1, <1>4 DEF AccountsGrow, RoleFor, IInv, AccountInv, TypeOK, Roles
  <2>2. RequestsOK'
    BY <1>1, <2>1, AnswerRequests DEF AccountsGrow
  <2> QED BY <1>1, <1>2, <1>4, <2>1, <2>2, SignedInKeeps
<1>5. CASE SignedIn(q.phone, q.who) /\ account[q.who] = "absent"
           /\ account' = [account EXCEPT ![q.who] = RoleFor(q.who)]
  <2>1. AccountsGrow /\ account'[q.who] # "absent"
    BY <1>1, <1>5 DEF AccountsGrow, RoleFor, IInv, AccountInv, TypeOK, Roles
  <2>2. RequestsOK'
    BY <1>1, <2>1, AnswerRequests DEF AccountsGrow
  <2> QED BY <1>1, <1>2, <1>5, <2>1, <2>2, SignedInKeeps
<1> QED BY <1>1, <1>3, <1>4, <1>5 DEF WriteUser

LEMMA PasswordLoginKeeps ==
  ASSUME IInv, NEW p \in Phones, NEW e \in Emails, PasswordLogin(p, e)
  PROVE IInv'
<1>1. AccountsGrow /\ account'[e] # "absent" /\ RequestsOK' /\ session[p] = nobody
  BY DEF PasswordLogin, AccountsGrow, IInv, AccountInv, TypeOK, RequestsOK, accountVars, requestVars
<1>2. \A s \in Slots : request'[s] = request[s]
  BY DEF PasswordLogin, requestVars
<1> QED BY <1>1, <1>2, SignedInKeeps DEF PasswordLogin, accountVars

LEMMA LogoutKeeps ==
  ASSUME IInv, NEW p \in Phones, Logout(p)
  PROVE IInv'
<1>1. session'[p] = nobody /\ (\A x \in Phones : x # p => session'[x] = session[x])
      /\ (\A x \in Phones : x # p => standing'[x] = standing[x])
  BY DEF Logout, IInv, AccountInv, TypeOK
<1>2. AccountInv' /\ SettingsOK' /\ RequestsOK'
  BY <1>1 DEF Logout, IInv, AccountInv, TypeOK, SettingsOK, RequestsOK, accountVars,
     requestVars
<1>3. PhoneOfItsUser' /\ InFlight'
  BY <1>1 DEF Logout, IInv, RequestsOK, InFlight, PhoneOfItsUser, requestVars
<1> QED BY <1>2, <1>3 DEF IInv

LEMMA SeedKeeps ==
  ASSUME IInv, NEW r \in Slots, SeedWrite(r) \/ SeedMaster(r)
  PROVE IInv'
<1> DEFINE q == request[r]
<1>1. /\ q \in RequestType /\ request \in [Slots -> RequestType]
      /\ UNCHANGED <<deviceVars, row, clock>>
  BY DEF SeedWrite, SeedMaster, IInv, RequestsOK
<1>2. AccountsGrow
  <2>1. CASE SeedWrite(r)
    <3>1. q.who \in Emails
      BY <2>1 DEF SeedWrite, IInv, RequestsOK
    <3>2. CASE UNCHANGED account
      BY <3>2 DEF AccountsGrow, IInv, AccountInv, TypeOK
    <3>3. CASE account' = [account EXCEPT ![q.who] = IF q.who = Master THEN "MASTER_ADMIN" ELSE "ADMIN"]
      BY <3>1, <3>3 DEF AccountsGrow, IInv, AccountInv, TypeOK, Roles
    <3> QED BY <2>1, <3>2, <3>3 DEF SeedWrite, accountVars
  <2>2. CASE SeedMaster(r)
    BY <2>2, AccountAssumption DEF SeedMaster, AccountsGrow, IInv, AccountInv, TypeOK, Roles
  <2> QED BY <2>1, <2>2
<1>3. passwords' \subseteq {e \in Emails : account'[e] # "absent"}
  <2>1. CASE SeedWrite(r)
    <3>1. q.who \in Emails
      BY <2>1 DEF SeedWrite, IInv, RequestsOK
    <3>2. CASE UNCHANGED accountVars
      BY <3>2 DEF IInv, AccountInv, accountVars
    <3>3. CASE /\ account' = [account EXCEPT ![q.who] =
                                IF q.who = Master THEN "MASTER_ADMIN" ELSE "ADMIN"]
               /\ \E added \in {{}, {q.who}} : passwords' = passwords \cup added
      <4>1. account'[q.who] # "absent"
        BY <3>1, <3>3 DEF IInv, AccountInv, TypeOK
      <4> QED BY <1>2, <3>1, <3>3, <4>1 DEF AccountsGrow, IInv, AccountInv
    <3> QED BY <2>1, <3>2, <3>3 DEF SeedWrite
  <2>2. CASE SeedMaster(r)
    BY <1>2, <2>2 DEF SeedMaster, AccountsGrow, IInv, AccountInv
  <2> QED BY <2>1, <2>2
<1>4. AccountInv' /\ SettingsOK' /\ PhoneOfItsUser'
  BY <1>1, <1>2, <1>3 DEF AccountsGrow, IInv, AccountInv, TypeOK, SettingsOK, PhoneOfItsUser,
     deviceVars
<1>5. CASE Answer(r)
  <2>1. RequestsOK' /\ InFlight'
    BY <1>1, <1>2, <1>5, AnswerRequests, AnswerInFlight DEF AccountsGrow, deviceVars
  <2> QED BY <1>4, <2>1 DEF IInv
<1>6. CASE request' = [request EXCEPT ![r].kind = "seed master",
                                      ![r].found = account[Master] # "absent"]
  <2>1. /\ request' \in [Slots -> RequestType]
        /\ request'[r].kind = "seed master"
        /\ \A s \in Slots : s # r => request'[s] = request[s]
    BY <1>1, <1>6 DEF RequestType, Kinds
  <2>2. RequestsOK' /\ InFlight'
    BY <1>1, <1>2, <2>1 DEF IInv, RequestsOK, InFlight, AccountsGrow, deviceVars
  <2> QED BY <1>4, <2>2 DEF IInv
<1> QED BY <1>5, <1>6 DEF SeedWrite, SeedMaster

LEMMA DeviceKeeps ==
  ASSUME IInv, NEW r \in Slots, RegisterDevice(r) \/ Unregister(r)
  PROVE IInv'
<1> DEFINE q == request[r]
<1>1. /\ q.kind \in {"register", "unregister"} /\ q.who \in Emails /\ q.phone \in Phones
      /\ Answer(r) /\ UNCHANGED <<accountVars, session, row, clock>>
  BY DEF RegisterDevice, Unregister, IInv, RequestsOK
<1>2. PICK e \in {q.who, nobody}, s \in {"registered", "new"} :
        /\ device' = [device EXCEPT ![q.phone] = e]
        /\ s = "registered" => e = q.who
        /\ standing' = IF OwnedNow(q.phone, q.who)
                       THEN [standing EXCEPT ![q.phone] = s] ELSE standing
  BY DEF RegisterDevice, Unregister, Upserted
<1>3. AccountInv' /\ SettingsOK'
  BY <1>1, <1>2 DEF IInv, AccountInv, TypeOK, SettingsOK, accountVars
<1>4. RequestsOK'
  BY <1>1, AnswerRequests DEF accountVars
<1>5. standing' \in [Phones -> {"new", "registered", "unclear"}]
      /\ \A p \in Phones : standing'[p] = "unclear" <=> standing[p] = "unclear"
  BY <1>1, <1>2 DEF OwnedNow, IInv, AccountInv, TypeOK
<1>6. InFlight'
  <2>1. \A x \in Slots : request'[x] = request[x] \/ request'[x] = Free
    BY <1>1 DEF IInv, RequestsOK, Answer
  <2> QED BY <1>1, <1>5, <2>1 DEF IInv, RequestsOK, InFlight, Free
<1>7. PhoneOfItsUser'
  <2> SUFFICES ASSUME NEW p \in Phones, session'[p] # nobody, standing'[p] = "registered"
               PROVE device'[p] = session'[p]
    BY DEF PhoneOfItsUser
  <2>1. CASE p # q.phone
    BY <1>1, <1>2, <2>1 DEF IInv, PhoneOfItsUser, AccountInv, TypeOK
  <2>2. CASE p = q.phone
    <3>1. q.who = session[p]
      BY <1>1, <1>5, <2>2 DEF IInv, InFlight
    <3>2. OwnedNow(p, q.who)
      BY <1>5, <3>1 DEF OwnedNow
    <3>3. standing'[p] = s
      BY <1>2, <2>2, <3>2 DEF IInv, AccountInv, TypeOK
    <3> QED BY <1>1, <1>2, <2>2, <3>1, <3>3 DEF IInv, AccountInv, TypeOK
  <2> QED BY <2>1, <2>2
<1> QED BY <1>3, <1>4, <1>6, <1>7 DEF IInv

LEMMA PruneKeeps ==
  ASSUME IInv, NEW p \in Phones, Prune(p)
  PROVE IInv'
<1>1. /\ standing' \in [Phones -> {"new", "registered", "unclear"}]
      /\ \A x \in Phones : standing'[x] = "unclear" <=> standing[x] = "unclear"
      /\ standing'[p] # "registered"
      /\ \A x \in Phones : x # p => standing'[x] = standing[x] /\ device'[x] = device[x]
  BY DEF Prune, IInv, AccountInv, TypeOK
<1>2. AccountInv' /\ SettingsOK' /\ RequestsOK'
  BY <1>1 DEF Prune, IInv, AccountInv, TypeOK, SettingsOK, RequestsOK, accountVars,
     requestVars
<1>3. PhoneOfItsUser' /\ InFlight'
  BY <1>1 DEF Prune, IInv, RequestsOK, InFlight, PhoneOfItsUser, requestVars
<1> QED BY <1>2, <1>3 DEF IInv

LEMMA SettingsKeep ==
  ASSUME IInv, NEW r \in Slots, CreateSettings(r) \/ ShowSettings(r) \/ UpdateSettings(r)
  PROVE IInv'
<1> DEFINE q == request[r]
<1>1. /\ q \in RequestType /\ q.kind \in {"get settings", "put settings"}
      /\ UNCHANGED <<accountVars, deviceVars, clock>>
  BY DEF CreateSettings, ShowSettings, UpdateSettings, IInv, RequestsOK
<1>2. row' \in RowType
  <2>1. 2 \in Times /\ 5 \in Times
    BY DayAssumption DEF Times
  <2>2. CASE CreateSettings(r)
    BY <2>1, <2>2 DEF CreateSettings, IInv, SettingsOK, RowType, DefaultRow, Row, Modes
  <2>3. CASE ShowSettings(r)
    BY <2>3 DEF ShowSettings, IInv, SettingsOK
  <2>4. CASE UpdateSettings(r)
    <3> DEFINE c == q.change
    <3>1. CASE ~Accepted(c)
      BY <2>4, <3>1 DEF UpdateSettings, IInv, SettingsOK
    <3>2. CASE Accepted(c)
      <4>1. row \in RowType
        BY DEF IInv, SettingsOK
      <4>2. c \in ChangesOK
        BY <1>1 DEF RequestType
      <4>3. "enabled" \in c.fields => c.row.enabled \in BOOLEAN
        BY <4>2, AccountAssumption DEF ChangesOK, Free
      <4>4. /\ "start" \in c.fields => c.row.start \in Times
            /\ "end" \in c.fields => c.row.end \in Times
        BY <3>2, <4>2, AccountAssumption, DayAssumption DEF ChangesOK, Free, Accepted, IsValidTime,
           Times
      <4>5. /\ Kept(c, "mode") \in Modes
            /\ Kept(c, "start") \in Times /\ Kept(c, "end") \in Times
        BY <3>2, <4>1, <4>4 DEF Kept, RowType, Accepted
      <4>6. Kept(c, "enabled") \in BOOLEAN
        BY <4>1, <4>3 DEF Kept, RowType
      <4>7. row' = [exists |-> TRUE, mode |-> Kept(c, "mode"), enabled |-> Kept(c, "enabled"),
                    start |-> Kept(c, "start"), end |-> Kept(c, "end")]
        BY <2>4, <3>2 DEF UpdateSettings
      <4> HIDE DEF c
      <4> QED BY <4>5, <4>6, <4>7 DEF RowType
    <3> QED BY <3>1, <3>2
  <2> QED BY <2>2, <2>3, <2>4
<1>4. AccountInv' /\ SettingsOK' /\ PhoneOfItsUser'
  BY <1>1, <1>2 DEF IInv, AccountInv, TypeOK, SettingsOK, RowType, PhoneOfItsUser, accountVars,
     deviceVars
<1>5. CASE Answer(r)
  <2>1. RequestsOK' /\ InFlight'
    BY <1>1, <1>5, AnswerRequests, AnswerInFlight DEF accountVars, deviceVars
  <2> QED BY <1>4, <2>1 DEF IInv
<1>6. CASE request' = [request EXCEPT ![r].found = TRUE]
  <2>1. /\ request' \in [Slots -> RequestType]
        /\ \A s \in Slots : s # r => request'[s] = request[s]
        /\ request'[r].kind = q.kind
    BY <1>1, <1>6 DEF IInv, RequestsOK, RequestType
  <2>2. RequestsOK' /\ InFlight'
    BY <1>1, <2>1 DEF IInv, RequestsOK, InFlight, accountVars, deviceVars
  <2> QED BY <1>4, <2>2 DEF IInv
<1> QED BY <1>5, <1>6 DEF CreateSettings, ShowSettings, UpdateSettings

\* The clock and the steps of a push other than Prune touch none of it.
LEMMA RestKeeps ==
  ASSUME IInv, UNCHANGED <<accountVars, deviceVars, requestVars, row>>, clock' \in Times
  PROVE IInv'
  BY DEF IInv, AccountInv, TypeOK, RequestsOK, InFlight, SettingsOK, PhoneOfItsUser, accountVars,
     deviceVars, requestVars

LEMMA NextIInv == IInv /\ [Next]_vars => IInv'
<1> SUFFICES ASSUME IInv, [Next]_vars PROVE IInv'
  OBVIOUS
<1>1. clock \in Times /\ (clock + 1) % DayLength \in Times
  BY DayAssumption DEF IInv, AccountInv, TypeOK, Times
<1>2. CASE \E r \in Slots, p \in Phones, e \in Emails :
             \/ FindUser(r, p, e) \/ SendRegistration(r, p) \/ FindRegistration(r, p)
             \/ GetSettings(r, p) \/ PutSettings(r, p)
  BY <1>2, StartKeeps, LoadKeeps
<1>3. CASE \E r \in Slots, e \in Emails : SeedFind(r, e)
  <2>1. PICK r \in Slots, e \in Emails : SeedFind(r, e)
    BY <1>3
  <2> DEFINE q == [Free EXCEPT !.kind = "seed", !.who = e, !.found = account[e] # "absent"]
  <2>2. q \in RequestType
    BY DEF Free, RequestType, Kinds, ChangesOK
  <2>3. q.kind = "seed" /\ q.who = e /\ q.found = (account[e] # "absent")
    BY DEF Free
  <2>4. Receive(r, q) /\ UNCHANGED <<accountVars, deviceVars, row, clock>>
    BY <2>1 DEF SeedFind
  <2> HIDE DEF q
  <2> QED BY <1>1, <2>2, <2>3, <2>4, ReceiveKeeps
<1>4. CASE \E r \in Slots :
             \/ WriteUser(r) \/ SeedWrite(r) \/ SeedMaster(r) \/ RegisterDevice(r) \/ Unregister(r)
             \/ CreateSettings(r) \/ ShowSettings(r) \/ UpdateSettings(r)
  BY <1>4, WriteUserKeeps, SeedKeeps, DeviceKeeps, SettingsKeep
<1>5. CASE \E p \in Phones : Logout(p) \/ Prune(p) \/ \E e \in Emails : PasswordLogin(p, e)
  BY <1>5, LogoutKeeps, PruneKeeps, PasswordLoginKeeps
<1>6. CASE \/ \E p \in Phones : SendOne(p) \/ SendRefused(p)
           \/ \E e \in Emails : TranscriptReady(e)
           \/ EndPush \/ UNCHANGED vars
  BY <1>1, <1>6, RestKeeps DEF SendOne, SendRefused, TranscriptReady, EndPush, vars
<1>7. CASE HourPasses
  BY <1>1, <1>7, RestKeeps DEF HourPasses
<1>8. Emails # {}
  BY AccountAssumption
<1> QED BY <1>2, <1>3, <1>4, <1>5, <1>6, <1>7, <1>8 DEF Next

-----------------------------------------------------------------------------
(* Theorems                                                                *)

THEOREM Inductive == Spec => []IInv
  BY InitIInv, NextIInv, PTL DEF Spec

(* The configured master admin and nobody else is one, every session is of *)
(* a user with a row, and the settings hold only usable values, for any    *)
(* number of requests in flight.                                           *)
THEOREM AccountsSound == Spec => []AccountInv
  BY Inductive, PTL DEF IInv

(* A registration stored in the present session stands until its user or   *)
(* FCM ends it: no request of an earlier session takes the phone away.     *)
THEOREM RegistrationStands == Spec => []PhoneOfItsUser
  BY Inductive, PTL DEF IInv

(* The worker's test of the window is the arc from start to end in every   *)
(* reachable state, for every length of the day.                           *)
THEOREM WindowIsArcAlways == Spec => []WindowIsArc
<1>1. IInv => WindowIsArc
  BY WindowArc DEF IInv, AccountInv, TypeOK, SettingsOK, RowType, WindowIsArc
<1> QED BY <1>1, Inductive, PTL
=============================================================================
