------------------------------- MODULE Accounts -------------------------------
(***************************************************************************)
(* Sign-in, sessions and the encryption of a custodial wallet's keys       *)
(* (auth.service.ts, google.strategy.ts, session.serializer.ts,            *)
(* auth.controller.ts), with the requests that use the keys: to sign, and  *)
(* to seal and open the notes of the wallet (users.service.ts).            *)
(*                                                                         *)
(* What is encrypted is random; what matters is under which key.  A        *)
(* ciphertext is the derivation that opens it: the Google id, the e-mail   *)
(* address and the version.  Accounts of version 1 were made by an earlier *)
(* release; this one makes accounts of version 2 and migrates the others.  *)
(***************************************************************************)
EXTENDS Naturals, FiniteSets

CONSTANTS
  Emails,       \* what Google reports, one for each person
  GoogleId,     \* the Google id of the person with this address
  None,         \* a field that is not set
  Ids,          \* _id of user documents
  Slots,        \* requests under way
  Sessions,     \* cookies
  MaxNotes      \* bound: notes ever stored

\* What an instance has to assume of the constants.
AccountsAssumption == None \notin {GoogleId[e] : e \in Emails} /\ MaxNotes \in Nat

VARIABLES
  users,      \* User collection: _id -> document, or None
  sessions,   \* cookie -> the _id that is serialized in it, or None
  used,       \* the _ids that were given to a document so far
  requests,   \* slot -> a handler: what it is at and the document it loaded
  sealed      \* SpendableNote collection: the owner, and the key the note is under

vars == <<users, sessions, used, requests, sealed>>

\* deriveEncryptionKey: version 1 hashes the two, version 2 stretches them with the
\* server's secret.
Key(googleId, email, version) == [googleId |-> googleId, email |-> email, version |-> version]

\* getDecryptionKeyForUser, as all its callers use it: with the fields of the document.
KeyFor(doc) == Key(doc.googleId, doc.email, doc.version)

LegacyDocs(e) ==
  {[email |-> e, googleId |-> g, version |-> 1, secrets |-> Key(GoogleId[e], e, 1)] :
     g \in {GoogleId[e], None}}

Idle == [at |-> "idle"]
Stored(id) == users[id] # None
Account(e) == {id \in Ids : Stored(id) /\ users[id].email = e}

\* Some people have an account of the earlier release.
Init ==
  /\ users \in [Ids -> {None} \cup UNION {LegacyDocs(e) : e \in Emails}]
  /\ \A i, j \in Ids : i # j /\ Stored(i) /\ Stored(j) => users[i].email # users[j].email
  /\ used = {id \in Ids : Stored(id)}
  /\ sessions = [c \in Sessions |-> None]
  /\ requests = [s \in Slots |-> Idle]
  /\ sealed \in SUBSET {[owner |-> id, key |-> KeyFor(users[id])] :
                          id \in {i \in Ids : Stored(i) /\ users[i].googleId # None}}
  /\ Cardinality(sealed) <= MaxNotes

-----------------------------------------------------------------------------
(* Sign-in: GoogleStrategy.validate, findOrCreateFromGoogle, then logIn     *)

Finish(s) == requests' = [requests EXCEPT ![s] = Idle]

\* findOne({ email }), after which the account that was found is worked on as it was then.
FindAccount(s, e, c) ==
  /\ requests[s] = Idle
  /\ \/ \E id \in Account(e) :
          requests' = [requests EXCEPT ![s] = [at |-> "found", id |-> id, doc |-> users[id],
                                               email |-> e, cookie |-> c]]
     \/ /\ Account(e) = {}
        /\ requests' = [requests EXCEPT ![s] = [at |-> "absent", email |-> e, cookie |-> c]]
  /\ UNCHANGED <<users, sessions, used, sealed>>

\* Faulty variant: a save that puts the document back where it was deleted (upsert).
LinkGoogleIdUpsert(s) ==
  /\ requests[s].at = "found"
  /\ LET r == requests[s] IN
     IF r.doc.googleId # None
       THEN requests' = [requests EXCEPT ![s].at = "linked"] /\ UNCHANGED users
       ELSE LET linked == [r.doc EXCEPT !.googleId = GoogleId[r.email]]
            IN /\ users' = [users EXCEPT ![r.id] = linked]
               /\ requests' = [requests EXCEPT ![s] =
                    [at |-> "linked", id |-> r.id, email |-> r.email, cookie |-> r.cookie,
                     doc |-> linked]]
  /\ UNCHANGED <<sessions, used, sealed>>

\* The account is linked to the Google id if it is not linked to one.  A save of a document
\* that was deleted meanwhile throws, and the sign-in fails.
LinkGoogleId(s) ==
  /\ requests[s].at = "found"
  /\ LET r == requests[s] IN
     IF r.doc.googleId # None
       THEN requests' = [requests EXCEPT ![s].at = "linked"] /\ UNCHANGED users
       ELSE IF Stored(r.id)
         THEN /\ users' = [users EXCEPT ![r.id].googleId = GoogleId[r.email]]
              /\ requests' = [requests EXCEPT ![s] =
                   [at |-> "linked", id |-> r.id, email |-> r.email, cookie |-> r.cookie,
                    doc |-> [r.doc EXCEPT !.googleId = GoogleId[r.email]]]]
         ELSE Finish(s) /\ UNCHANGED users
  /\ UNCHANGED <<sessions, used, sealed>>

\* Faulty variant: the version is saved, the ciphertexts are not.
MigrateVersionOnly(s) ==
  /\ requests[s].at = "linked"
  /\ LET r == requests[s] IN
     IF r.doc.version >= 2
       THEN requests' = [requests EXCEPT ![s].at = "known"] /\ UNCHANGED users
       ELSE IF r.doc.secrets = Key(GoogleId[r.email], r.email, 1) /\ Stored(r.id)
         THEN /\ users' = [users EXCEPT ![r.id].version = 2]
              /\ requests' = [requests EXCEPT ![s].at = "known"]
         ELSE Finish(s) /\ UNCHANGED users
  /\ UNCHANGED <<sessions, used, sealed>>

\* migrateUserKeyEncryption: opens the three secrets with the old key, which throws if that
\* is not theirs, and saves them under the new one together with the version.
Migrate(s) ==
  /\ requests[s].at = "linked"
  /\ LET r == requests[s] IN
     IF r.doc.version >= 2
       THEN requests' = [requests EXCEPT ![s].at = "known"] /\ UNCHANGED users
       ELSE IF r.doc.secrets = Key(GoogleId[r.email], r.email, 1) /\ Stored(r.id)
         THEN /\ users' = [users EXCEPT ![r.id].version = 2,
                                        ![r.id].secrets = Key(GoogleId[r.email], r.email, 2)]
              /\ requests' = [requests EXCEPT ![s].at = "known"]
         ELSE Finish(s) /\ UNCHANGED users
  /\ UNCHANGED <<sessions, used, sealed>>

\* A new account with new keys; the unique index refuses the second for one address, and
\* the sign-in that came second fails.
CreateAccount(s) ==
  /\ requests[s].at = "absent"
  /\ LET r == requests[s] IN
     \/ /\ Account(r.email) # {}
        /\ Finish(s) /\ UNCHANGED <<users, used>>
     \/ /\ Account(r.email) = {}
        /\ \E id \in Ids \ used :
             /\ users' = [users EXCEPT ![id] =
                           [email |-> r.email, googleId |-> GoogleId[r.email], version |-> 2,
                            secrets |-> Key(GoogleId[r.email], r.email, 2)]]
             /\ used' = used \cup {id}
             /\ requests' = [requests EXCEPT ![s] = [at |-> "known", id |-> id,
                                                     email |-> r.email, cookie |-> r.cookie]]
  /\ UNCHANGED <<sessions, sealed>>

\* logIn and session.save: the _id goes into the session.
LogIn(s) ==
  /\ requests[s].at = "known"
  /\ sessions' = [sessions EXCEPT ![requests[s].cookie] = requests[s].id]
  /\ Finish(s)
  /\ UNCHANGED <<users, used, sealed>>

LogOut(c) ==
  /\ sessions[c] # None
  /\ sessions' = [sessions EXCEPT ![c] = None]
  /\ UNCHANGED <<users, used, requests, sealed>>

-----------------------------------------------------------------------------
(* Requests of a session                                                    *)

\* deserializeUser loads the user of the session and the guard wants there to be one.
Authenticated(c) == sessions[c] # None /\ Stored(sessions[c])

\* The handlers of the wallet load the user, and give up if it is not linked.
LoadUser(s, c) ==
  /\ requests[s] = Idle /\ Authenticated(c)
  /\ users[sessions[c]].googleId # None
  /\ requests' = [requests EXCEPT ![s] = [at |-> "loaded", id |-> sessions[c],
                                         doc |-> users[sessions[c]]]]
  /\ UNCHANGED <<users, sessions, used, sealed>>

\* decrypt: throws if the key does not open the secret.
Opens(doc) == doc.secrets = KeyFor(doc)

Decrypt(s) ==
  /\ requests[s].at = "loaded"
  /\ Finish(s)
  /\ UNCHANGED <<users, sessions, used, sealed>>

\* What deposit and saveNote do with the document the handler loaded.
SaveNote(s) ==
  /\ requests[s].at = "loaded" /\ Cardinality(sealed) < MaxNotes
  /\ sealed' = sealed \cup {[owner |-> requests[s].id, key |-> KeyFor(requests[s].doc)]}
  /\ Finish(s)
  /\ UNCHANGED <<users, sessions, used>>

\* delete-me: the document goes; notes, orders and swaps of the user stay, and so do the
\* user's other sessions and the handlers that loaded the user.
DeleteMe(c) ==
  /\ Authenticated(c)
  /\ users' = [users EXCEPT ![sessions[c]] = None]
  /\ sessions' = [sessions EXCEPT ![c] = None]
  /\ UNCHANGED <<used, requests, sealed>>

Next ==
  \/ \E s \in Slots :
       \/ \E e \in Emails, c \in Sessions : FindAccount(s, e, c)
       \/ LinkGoogleId(s) \/ Migrate(s) \/ CreateAccount(s) \/ LogIn(s)
       \/ \E c \in Sessions : LoadUser(s, c)
       \/ Decrypt(s) \/ SaveNote(s)
  \/ \E c \in Sessions : LogOut(c) \/ DeleteMe(c)

Spec == Init /\ [][Next]_vars

-----------------------------------------------------------------------------
(* Properties *)

\* Nobody loses the keys to the money: those of every account that is linked open with the
\* fields stored beside them, also for a handler that loaded the user before a sign-in
\* in another tab linked or migrated the account, or before the account was deleted.
KeysOpen ==
  /\ \A id \in Ids : Stored(id) /\ users[id].googleId # None => Opens(users[id])
  /\ \A s \in Slots : requests[s].at = "loaded" => Opens(requests[s].doc)

AtMostOneAccount == \A e \in Emails : Cardinality(Account(e)) <= 1

\* Sessions and notes name _ids that were given to an account.
OwnersAreKnown ==
  /\ \A c \in Sessions : sessions[c] # None => sessions[c] \in used
  /\ \A n \in sealed : n.owner \in used

\* An _id that was given to an account stays with its person or, once the account is
\* deleted, with nobody.
IdsKeepTheirPerson ==
  \A id \in used : Stored(id)' => Stored(id) /\ users'[id].email = users[id].email

\* A person who signs in twice at once has one account, and a deleted account never comes
\* back, neither by the save of a sign-in that had found it before nor for the next who
\* signs up: so what sessions and notes know by its _id is handed to nobody.
OneAccountEach == []AtMostOneAccount /\ []OwnersAreKnown /\ [][IdsKeepTheirPerson]_vars

\* A note is 'stored encrypted so the backend can use it for proof generation'
\* (spendable-note.schema.ts:6).  getSpendableNotes opens it with the key of the account as
\* it is now, and leaves out what does not open: each stored note of an account does.
NotesOpen ==
  \A n \in sealed : Stored(n.owner) => n.key = KeyFor(users[n.owner])
=============================================================================
