------------------------------ MODULE Accounts ------------------------------
(***************************************************************************)
(* Accounts, sessions, push registrations and the global settings row:     *)
(* api/routes/auth.py, devices.py and settings.py, core/deps.py,           *)
(* services/oauth.py, fcm.py and app_settings.py, scripts/seed_admin.py.   *)
(*                                                                         *)
(* A handler that awaits the database between a read and a write is cut    *)
(* there: two requests, and the worker's push, interleave at those points. *)
(* What a failed request leaves behind is what its steps wrote before.     *)
(***************************************************************************)
EXTENDS ProcessingWindow, FiniteSets

CONSTANTS
  Emails, Master,   \* the people; MASTER_ADMIN_EMAIL
  Phones,           \* the phones, each with the FCM token it registers
  Slots,            \* requests that can be in flight together
  Changes,          \* bound: the bodies of PUT /settings
  MaxRequests,      \* bound: requests of the run
  nobody

ASSUME AccountAssumption ==
  /\ Master \in Emails /\ nobody \notin Emails /\ MaxRequests \in Nat
  /\ \A c \in Changes : /\ c.fields \subseteq {"mode", "enabled", "start", "end"}
                        /\ c.row.mode \in Modes \cup {"invalid"}
                        /\ c.row.enabled \in BOOLEAN /\ c.row.start \in Nat /\ c.row.end \in Nat

VARIABLES
  account,   \* the users' rows: their role, or "absent"
  passwords, \* the users whose row has a password hash
  session,   \* whose token a phone holds
  device,    \* the rows of ta_device_tokens: whose each phone is
  standing,  \* history: "registered" when a phone's registration in its present session is stored
  request,   \* the requests in flight
  count,     \* bound: requests so far
  push,      \* the worker's send_to_user
  row,       \* the settings row
  clock

accountVars == <<account, passwords>>
deviceVars == <<session, device, standing>>
requestVars == <<request, count>>
vars == <<accountVars, deviceVars, requestVars, push, row, clock>>

Roles == {"USER", "ADMIN", "MASTER_ADMIN"}
RoleFor(e) == IF e = Master THEN "MASTER_ADMIN" ELSE "USER"

Free == [kind |-> "free", who |-> nobody, phone |-> nobody, found |-> FALSE,
         change |-> [fields |-> {}, row |-> NoRow]]
Quiet == [of |-> nobody, left |-> {}, refused |-> {}]

\* get_current_user: the phone's token names a user who still exists.
Caller(p) == IF session[p] \in Emails /\ account[session[p]] \in Roles THEN session[p] ELSE nobody

Receive(r, req) ==
  /\ request[r] = Free /\ count < MaxRequests
  /\ count' = count + 1
  /\ request' = [request EXCEPT ![r] = req]
Answer(r) == request' = [request EXCEPT ![r] = Free] /\ UNCHANGED count
-----------------------------------------------------------------------------
(* Signing in                                                              *)

\* The phone takes the token; its registration is yet to come.  One that an
\* earlier session has in flight may still land.
SignedIn(p, e) ==
  /\ session' = [session EXCEPT ![p] = e]
  /\ standing' = [standing EXCEPT ![p] =
       IF \E r \in Slots : request[r].phone = p /\ request[r].kind \in {"register", "unregister"}
       THEN "unclear" ELSE "new"]
  /\ UNCHANGED device

\* Google's token is verified, or Microsoft's or Yahoo's code exchanged; then
\* the email is looked up.
FindUser(r, p, e) ==
  /\ session[p] = nobody
  /\ Receive(r, [Free EXCEPT !.kind = "login", !.who = e, !.phone = p,
                             !.found = account[e] # "absent"])
  /\ UNCHANGED <<accountVars, deviceVars, push, row, clock>>

\* An update raises the master admin's role only; a create meets the unique
\* email if another sign-in came first.
WriteUser(r) ==
  LET q == request[r] IN
  /\ q.kind = "login" /\ session[q.phone] = nobody
  /\ \/ /\ q.found
        /\ account' = [account EXCEPT ![q.who] = IF RoleFor(q.who) = "MASTER_ADMIN"
                                                 THEN "MASTER_ADMIN" ELSE @]
        /\ SignedIn(q.phone, q.who)
     \/ /\ ~q.found /\ account[q.who] = "absent"
        /\ account' = [account EXCEPT ![q.who] = RoleFor(q.who)]
        /\ SignedIn(q.phone, q.who)
     \/ /\ ~q.found /\ account[q.who] # "absent"
        /\ UNCHANGED <<account, deviceVars>>
  /\ Answer(r)
  /\ UNCHANGED <<passwords, push, row, clock>>

PasswordLogin(p, e) ==
  /\ session[p] = nobody /\ e \in passwords
  /\ SignedIn(p, e)
  /\ UNCHANGED <<accountVars, requestVars, push, row, clock>>

\* The phone forgets its token; the server is not told.
Logout(p) ==
  /\ session[p] # nobody
  /\ session' = [session EXCEPT ![p] = nobody]
  /\ standing' = [standing EXCEPT ![p] = "new"]
  /\ UNCHANGED <<accountVars, device, requestVars, push, row, clock>>

\* scripts/seed_admin.py: the given user, then the master admin.
SeedFind(r, e) ==
  /\ Receive(r, [Free EXCEPT !.kind = "seed", !.who = e, !.found = account[e] # "absent"])
  /\ UNCHANGED <<accountVars, deviceVars, push, row, clock>>
SeedWrite(r) ==
  LET q == request[r] IN
  /\ q.kind = "seed"
  /\ IF ~q.found /\ account[q.who] # "absent"
     THEN Answer(r) /\ UNCHANGED accountVars
     ELSE /\ account' = [account EXCEPT ![q.who] =
                           IF q.who = Master THEN "MASTER_ADMIN" ELSE "ADMIN"]
          /\ \E added \in {{}, {q.who}} : passwords' = passwords \cup added
          /\ IF q.who = Master THEN Answer(r)
             ELSE /\ request' = [request EXCEPT ![r].kind = "seed master",
                                                ![r].found = account[Master] # "absent"]
                  /\ UNCHANGED count
  /\ UNCHANGED <<deviceVars, push, row, clock>>
SeedMaster(r) ==
  /\ request[r].kind = "seed master"
  /\ account' = IF ~request[r].found /\ account[Master] = "absent"
                THEN [account EXCEPT ![Master] = "MASTER_ADMIN"] ELSE account
  /\ Answer(r)
  /\ UNCHANGED <<passwords, deviceVars, push, row, clock>>
-----------------------------------------------------------------------------
(* Push registrations                                                      *)

OwnedNow(p, e) == session[p] = e /\ standing[p] # "unclear"

\* registerPushToken: the request carries the token of the session it leaves from.
SendRegistration(r, p) ==
  /\ Caller(p) # nobody
  /\ Receive(r, [Free EXCEPT !.kind = "register", !.who = Caller(p), !.phone = p])
  /\ UNCHANGED <<accountVars, deviceVars, push, row, clock>>
Upserted_CreateOnly(p, e) == IF device[p] = nobody THEN e ELSE device[p]  \* mutant: no update
Upserted(p, e) == e
RegisterDevice(r) ==
  LET q == request[r] IN
  /\ q.kind = "register"
  /\ device' = [device EXCEPT ![q.phone] = Upserted(q.phone, q.who)]
  /\ standing' = IF OwnedNow(q.phone, q.who)
                 THEN [standing EXCEPT ![q.phone] = "registered"] ELSE standing
  /\ Answer(r)
  /\ UNCHANGED <<accountVars, session, push, row, clock>>

\* A token the caller does not own is left alone.
FindRegistration(r, p) ==
  /\ Caller(p) # nobody /\ device[p] = Caller(p)
  /\ Receive(r, [Free EXCEPT !.kind = "unregister", !.who = Caller(p), !.phone = p])
  /\ UNCHANGED <<accountVars, deviceVars, push, row, clock>>
Unregister(r) ==
  LET q == request[r] IN
  /\ q.kind = "unregister"
  /\ device' = [device EXCEPT ![q.phone] = nobody]
  /\ standing' = IF OwnedNow(q.phone, q.who)
                 THEN [standing EXCEPT ![q.phone] = "new"] ELSE standing
  /\ Answer(r)
  /\ UNCHANGED <<accountVars, session, push, row, clock>>

\* send_to_user: the owner's devices are read once, then tried one by one.
Listed(e) == {p \in Phones : device[p] = e}
TranscriptReady(e) ==
  /\ push.of = nobody /\ account[e] # "absent"
  /\ push' = [Quiet EXCEPT !.of = e, !.left = Listed(e)]
  /\ UNCHANGED <<accountVars, deviceVars, requestVars, row, clock>>
\* Delivered, or failed with an error that is swallowed.
SendOne(p) ==
  /\ p \in push.left /\ push.refused = {}
  /\ push' = [push EXCEPT !.left = @ \ {p}]
  /\ UNCHANGED <<accountVars, deviceVars, requestVars, row, clock>>
\* 404 or 400: the row of the token is to be deleted.
SendRefused(p) ==
  /\ p \in push.left /\ push.refused = {}
  /\ push' = [push EXCEPT !.left = @ \ {p}, !.refused = {p}]
  /\ UNCHANGED <<accountVars, deviceVars, requestVars, row, clock>>
Prune(p) ==
  /\ p \in push.refused
  /\ device' = [device EXCEPT ![p] = nobody]
  /\ standing' = [standing EXCEPT ![p] = IF @ = "registered" THEN "new" ELSE @]
  /\ push' = [push EXCEPT !.refused = {}]
  /\ UNCHANGED <<accountVars, session, requestVars, row, clock>>
EndPush ==
  /\ push.of # nobody /\ push.left = {} /\ push.refused = {}
  /\ push' = Quiet
  /\ UNCHANGED <<accountVars, deviceVars, requestVars, row, clock>>
-----------------------------------------------------------------------------
(* The settings row                                                        *)

\* A failed read looks like a missing row.
LoadSettings(r, p, kind, change) ==
  /\ Caller(p) # nobody
  /\ kind = "put settings" => account[Caller(p)] = "MASTER_ADMIN"
  /\ \E failed \in BOOLEAN :
       Receive(r, [Free EXCEPT !.kind = kind, !.who = Caller(p), !.change = change,
                               !.found = row.exists /\ ~failed])
  /\ UNCHANGED <<accountVars, deviceVars, push, row, clock>>
GetSettings(r, p) == LoadSettings(r, p, "get settings", Free.change)
PutSettings(r, p) == \E c \in Changes : LoadSettings(r, p, "put settings", c)

Accepted_Anything(c) == TRUE    \* mutant: the body is not validated
Accepted(c) == /\ "mode" \in c.fields => c.row.mode \in Modes
               /\ "start" \in c.fields => IsValidTime(c.row.start)
               /\ "end" \in c.fields => IsValidTime(c.row.end)

Kept(c, f) == IF f \in c.fields THEN c.row[f] ELSE row[f]

\* Creating the row meets the unique id if it exists by now.
CreateSettings(r) ==
  LET q == request[r] IN
  /\ q.kind \in {"get settings", "put settings"} /\ ~q.found
  /\ row' = IF row.exists THEN row ELSE DefaultRow
  /\ IF row.exists \/ q.kind = "get settings" THEN Answer(r)
     ELSE request' = [request EXCEPT ![r].found = TRUE] /\ UNCHANGED count
  /\ UNCHANGED <<accountVars, deviceVars, push, clock>>
ShowSettings(r) ==
  /\ request[r].kind = "get settings" /\ request[r].found
  /\ Answer(r)
  /\ UNCHANGED <<accountVars, deviceVars, push, row, clock>>
UpdateSettings(r) ==
  LET c == request[r].change IN
  /\ request[r].kind = "put settings" /\ request[r].found
  /\ row' = IF Accepted(c)
            THEN [exists |-> TRUE, mode |-> Kept(c, "mode"), enabled |-> Kept(c, "enabled"),
                  start |-> Kept(c, "start"), end |-> Kept(c, "end")]
            ELSE row
  /\ Answer(r)
  /\ UNCHANGED <<accountVars, deviceVars, push, clock>>

HourPasses ==
  /\ clock' = (clock + 1) % DayLength
  /\ UNCHANGED <<accountVars, deviceVars, requestVars, push, row>>
-----------------------------------------------------------------------------
\* A deployment before or after its admin was seeded, with the master admin's
\* phone signed in or not.
Init ==
  /\ \/ account = [e \in Emails |-> "absent"] /\ passwords = {}
        /\ session = [p \in Phones |-> nobody]
     \/ account = [e \in Emails |-> IF e = Master THEN "MASTER_ADMIN" ELSE "absent"]
        /\ passwords = {Master}
        /\ session \in [Phones -> {nobody, Master}]
  /\ device = [p \in Phones |-> nobody] /\ standing = [p \in Phones |-> "new"]
  /\ request = [r \in Slots |-> Free] /\ count = 0 /\ push = Quiet
  /\ row = NoRow /\ clock = 0

Next ==
  \/ \E r \in Slots :
       \/ \E p \in Phones : \/ \E e \in Emails : FindUser(r, p, e)
                            \/ SendRegistration(r, p) \/ FindRegistration(r, p)
                            \/ GetSettings(r, p) \/ PutSettings(r, p)
       \/ \E e \in Emails : SeedFind(r, e)
       \/ WriteUser(r) \/ SeedWrite(r) \/ SeedMaster(r) \/ RegisterDevice(r) \/ Unregister(r)
       \/ CreateSettings(r) \/ ShowSettings(r) \/ UpdateSettings(r)
  \/ \E p \in Phones : \/ \E e \in Emails : PasswordLogin(p, e)
                       \/ Logout(p) \/ SendOne(p) \/ SendRefused(p) \/ Prune(p)
  \/ \E e \in Emails : TranscriptReady(e)
  \/ EndPush \/ HourPasses

Spec == Init /\ [][Next]_vars
FairSpec == Spec /\ WF_vars(HourPasses)     \* time passes
-----------------------------------------------------------------------------
(* Properties                                                              *)

TypeOK ==
  /\ account \in [Emails -> Roles \cup {"absent"}] /\ passwords \subseteq Emails
  /\ session \in [Phones -> Emails \cup {nobody}] /\ device \in [Phones -> Emails \cup {nobody}]
  /\ standing \in [Phones -> {"new", "registered", "unclear"}]
  /\ clock \in Times

(* Whoever signs in, by whichever provider, in whatever order with the     *)
(* seed script: the master admin is exactly the configured one, a session  *)
(* is always of a user with a row, and the settings row holds only values  *)
(* the worker can use (role_for_email, get_current_user, PUT /settings).   *)
AccountInv ==
  /\ TypeOK
  /\ \A e \in Emails : account[e] # "absent" => (account[e] = "MASTER_ADMIN" <=> e = Master)
  /\ \A p \in Phones : session[p] # nobody => account[session[p]] # "absent"
  /\ passwords \subseteq {e \in Emails : account[e] # "absent"}
  /\ row.mode \in Modes /\ row.start \in Times /\ row.end \in Times

(* A phone whose registration in its present session was stored belongs to *)
(* the user signed in on it, until that user unregisters or FCM refuses    *)
(* the token: no earlier registration or unregistration of the phone can   *)
(* take it away, unless it was still in flight at the sign-in.             *)
PhoneOfItsUser ==
  \A p \in Phones : session[p] # nobody /\ standing[p] = "registered" => device[p] = session[p]

(* The processing window is the arc of the clock from start up to end, on  *)
(* whichever side of midnight it lies (within_processing_window).          *)
WindowIsArc ==
  row.exists /\ row.enabled /\ row.start # row.end =>
    (WithinWindow(row, clock) <=> Since(row.start, clock) < Since(row.start, row.end))

(* However the admin sets the window, heavy work is allowed again and      *)
(* again once the settings are left alone: the queue may rely on it.       *)
WindowReopens == <>[][UNCHANGED row]_vars => []<>WithinWindow(row, clock)
=============================================================================
