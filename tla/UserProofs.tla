----------------------------- MODULE UserProofs -----------------------------
(***************************************************************************)
(* Proofs about one user, on the two sides Services has of him.            *)
(*                                                                         *)
(* His account: the keys of a custodial wallet stay readable, for any      *)
(* number of people, documents, cookies and requests.  The invariant says  *)
(* what a document looks like (the secrets are under the key of its owner  *)
(* and of its version, whether it is linked or not) and what a request     *)
(* knows of the document it loaded: its address, which never changes, and  *)
(* nothing else, because the document may have been linked, migrated or    *)
(* deleted since.                                                          *)
(*                                                                         *)
(* His pages: they agree with one another and with what splitting a note   *)
(* does, for any amounts and limits.  The invariant is short (who has      *)
(* anything has XLM); the work is in what the pages compute, and most of   *)
(* it in the sums over lists of notes, which the model takes by folding.   *)
(***************************************************************************)
EXTENDS Services, SequenceTheorems, FiniteSetTheorems, TLAPS

TreeSide == INSTANCE MerkleTreeProofs WITH Leaves <- TreeLeaves

-----------------------------------------------------------------------------
(* The account.  First, what documents and handlers there are. *)
\* The documents of one address; those of version 1 may not be linked, and neither may be
\* one that was migrated by a sign-in that had seen it linked.
DocsOf(e) ==
  {[email |-> e, googleId |-> g, version |-> v, secrets |-> Auth!Key(GoogleId[e], e, v)] :
     g \in {GoogleId[e], None}, v \in {1, 2}}

Docs == UNION {DocsOf(e) : e \in Emails}

\* What a handler holds, by what it is at; its document was one of this address.
SignIns(ids) ==
  {r \in [at : {"found", "linked", "known"}, id : ids, doc : Docs, email : Emails,
          cookie : Sessions] : r.doc.email = r.email}
FirstSignIns == [at : {"absent"}, email : Emails, cookie : Sessions]
SignedUp(ids) == [at : {"known"}, id : ids, email : Emails, cookie : Sessions]
Wallets(ids) == {r \in [at : {"loaded"}, id : ids, doc : Docs] : r.doc.googleId # None}

Handlers(ids) == {Auth!Idle} \cup SignIns(ids) \cup FirstSignIns \cup SignedUp(ids) \cup Wallets(ids)

\* Accounts: every document is readable, has one address, and an _id that was handed out.
Collection ==
  /\ users \in [Ids -> {None} \cup Docs]
  /\ used \subseteq Ids
  /\ \A id \in Ids : Auth!Stored(id) => id \in used
  /\ \A i, j \in Ids : Auth!Stored(i) /\ Auth!Stored(j) /\ users[i].email = users[j].email => i = j

\* Handlers and cookies: they name an account that was there, and a sign-in one of its address.
Holders ==
  /\ requests \in [Slots -> Handlers(used)]
  /\ sessions \in [Sessions -> used \cup {None}]
  /\ \A s \in Slots : requests[s].at \in {"found", "linked"} /\ Auth!Stored(requests[s].id)
       => users[requests[s].id].email = requests[s].email

AccountsInv == Collection /\ Holders

-----------------------------------------------------------------------------
(* Documents *)

\* What is known of a document: its key is that of its owner and version.
LEMMA DocFields ==
  ASSUME NEW d \in Docs
  PROVE  /\ d.email \in Emails
         /\ d.googleId \in {GoogleId[d.email], None}
         /\ d.version \in {1, 2}
         /\ d.secrets = Auth!Key(GoogleId[d.email], d.email, d.version)
BY DEF Docs, DocsOf

\* Any of the four shapes is a document (findOrCreateFromGoogle).
LEMMA DocShape ==
  ASSUME NEW e \in Emails, NEW g \in {GoogleId[e], None}, NEW v \in {1, 2}
  PROVE  [email |-> e, googleId |-> g, version |-> v, secrets |-> Auth!Key(GoogleId[e], e, v)] \in Docs
BY DEF Docs, DocsOf

\* A document is the record of its four fields.
LEMMA DocRecord ==
  ASSUME NEW d \in Docs
  PROVE  d = [email |-> d.email, googleId |-> d.googleId, version |-> d.version,
              secrets |-> d.secrets]
BY DEF Docs, DocsOf

\* Linking keeps it one of the same address (findOrCreateFromGoogle).
LEMMA Linked ==
  ASSUME NEW d \in Docs
  PROVE  /\ [d EXCEPT !.googleId = GoogleId[d.email]] \in Docs
         /\ [d EXCEPT !.googleId = GoogleId[d.email]].email = d.email
         /\ [d EXCEPT !.googleId = GoogleId[d.email]].googleId = GoogleId[d.email]
<1>. DEFINE f == [email |-> d.email, googleId |-> GoogleId[d.email], version |-> d.version,
                  secrets |-> d.secrets]
<1>1. [d EXCEPT !.googleId = GoogleId[d.email]] = f
  BY DocRecord
<1>2. f \in Docs
  BY DocFields, DocShape
<1>. QED
  BY <1>1, <1>2

\* Migrating keeps it one of the same address (migrateUserKeyEncryption).
LEMMA Migrated ==
  ASSUME NEW d \in Docs
  PROVE  LET m == [d EXCEPT !.version = 2, !.secrets = Auth!Key(GoogleId[d.email], d.email, 2)]
         IN m \in Docs /\ m.email = d.email
<1>. DEFINE k == Auth!Key(GoogleId[d.email], d.email, 2)
<1>. DEFINE f == [email |-> d.email, googleId |-> d.googleId, version |-> 2, secrets |-> k]
<1>1. [d EXCEPT !.version = 2, !.secrets = k] = f
  <2>1. PICK e, g, v, o : d = [email |-> e, googleId |-> g, version |-> v, secrets |-> o]
    BY DocRecord
  <2>. DEFINE d2 == [d EXCEPT !.version = 2]
  <2>2. d2 = [email |-> e, googleId |-> g, version |-> 2, secrets |-> o]
    BY <2>1
  <2>3. d.email = e /\ d.googleId = g
    BY <2>1
  <2>. HIDE DEF k, d2
  <2>4. [d2 EXCEPT !.secrets = k] = f
    BY <2>2, <2>3
  <2>. QED
    BY <2>4 DEF d2
<1>2. f \in Docs
  BY DocFields, DocShape
<1>. QED
  BY <1>1, <1>2

-----------------------------------------------------------------------------
(* What the steps have in common *)

\* Writing a document of the same address, or of one nobody has, leaves the collection sound
\* and the handlers with the addresses they had.
LEMMA WriteDoc ==
  ASSUME AccountsInv, NEW id \in Ids, NEW d \in Docs,
         Auth!Stored(id) => users[id].email = d.email,
         ~ Auth!Stored(id) => Auth!Account(d.email) = {} /\ id \notin used,
         users' = [users EXCEPT ![id] = d], used' = used \cup {id}
  PROVE  /\ Collection'
         /\ \A i \in Ids : i # id => users'[i] = users[i]
         /\ \A i \in used : Auth!Stored(i)' => Auth!Stored(i) /\ users'[i].email = users[i].email
<1>1. /\ users' \in [Ids -> {None} \cup Docs]
      /\ users'[id] = d
      /\ \A i \in Ids : i # id => users'[i] = users[i]
  BY DEF AccountsInv, Collection
<1>2. \A i \in Ids : Auth!Stored(i)' => i \in used'
  BY <1>1 DEF AccountsInv, Collection, Auth!Stored
<1>3. \A i \in used : Auth!Stored(i)' => Auth!Stored(i) /\ users'[i].email = users[i].email
  BY <1>1 DEF AccountsInv, Collection, Auth!Stored
<1>4. \A i \in Ids : Auth!Stored(i)' /\ i # id => users'[i].email # d.email
  <2>. SUFFICES ASSUME NEW i \in Ids, Auth!Stored(i)', i # id, users'[i].email = d.email
       PROVE  FALSE
    OBVIOUS
  <2>1. Auth!Stored(i) /\ users[i].email = d.email
    BY <1>1 DEF Auth!Stored
  <2>2. i \in Auth!Account(d.email)
    BY <2>1 DEF Auth!Account
  <2>. QED
    BY <2>1, <2>2 DEF AccountsInv, Collection
<1>5. \A i, j \in Ids : Auth!Stored(i)' /\ Auth!Stored(j)' /\ users'[i].email = users'[j].email => i = j
  <2>. SUFFICES ASSUME NEW i \in Ids, NEW j \in Ids, Auth!Stored(i)', Auth!Stored(j)',
                       users'[i].email = users'[j].email, i # j
       PROVE  FALSE
    OBVIOUS
  <2>1. CASE i # id /\ j # id
    BY <2>1, <1>1 DEF AccountsInv, Collection, Auth!Stored
  <2>2. CASE i = id \/ j = id
    BY <2>2, <1>1, <1>4
  <2>. QED
    BY <2>1, <2>2
<1>. QED
  BY <1>1, <1>2, <1>3, <1>5 DEF AccountsInv, Collection

\* What a handler holds, told by what it is at.
LEMMA HandlerKinds ==
  ASSUME NEW ids, NEW r \in Handlers(ids)
  PROVE  /\ r.at \in {"found", "linked"} => r \in SignIns(ids) /\ r.id \in ids
         /\ r.at = "absent" => r \in FirstSignIns
         /\ r.at = "known" => r.id \in ids /\ r.cookie \in Sessions
         /\ r.at = "loaded" => r \in Wallets(ids)
BY DEF Handlers, SignIns, FirstSignIns, SignedUp, Wallets, Auth!Idle

\* The handlers, when one of them moved on and the accounts they name kept their address.
LEMMA HandlerMoves ==
  ASSUME AccountsInv, NEW s \in Slots, NEW r, used \subseteq used', Collection',
         requests' = [requests EXCEPT ![s] = r], r \in Handlers(used'),
         sessions' \in [Sessions -> used' \cup {None}],
         r.at \in {"found", "linked"} /\ Auth!Stored(r.id)' => users'[r.id].email = r.email,
         \A i \in used : Auth!Stored(i)' => Auth!Stored(i) /\ users'[i].email = users[i].email
  PROVE  AccountsInv'
<1>1. Handlers(used) \subseteq Handlers(used')
  BY DEF Handlers, SignIns, SignedUp, Wallets
<1>2. requests' \in [Slots -> Handlers(used')]
  BY <1>1 DEF AccountsInv, Holders
<1>3. ASSUME NEW t \in Slots, requests'[t].at \in {"found", "linked"}, Auth!Stored(requests[t].id)'
      PROVE  users'[requests'[t].id].email = requests'[t].email
  <2>1. CASE t = s
    BY <2>1, <1>3 DEF AccountsInv, Holders, Auth!Stored
  <2>2. CASE t # s
    <3>1. requests'[t] = requests[t] /\ requests[t] \in Handlers(used)
      BY <2>2 DEF AccountsInv, Holders
    <3>2. requests[t].id \in used
      BY <3>1, <1>3, HandlerKinds
    <3>. QED
      BY <3>1, <3>2, <1>3 DEF AccountsInv, Holders, Auth!Stored
  <2>. QED
    BY <2>1, <2>2
<1>. QED
  BY <1>2, <1>3 DEF AccountsInv, Holders, Auth!Stored

\* A step that changes no document: one handler moves on.
LEMMA OnlyHandlerMoves ==
  ASSUME AccountsInv, NEW s \in Slots, NEW r \in Handlers(used), UNCHANGED <<users, used>>,
         requests' = [requests EXCEPT ![s] = r],
         sessions' \in [Sessions -> used \cup {None}],
         r.at \in {"found", "linked"} /\ Auth!Stored(r.id) => users[r.id].email = r.email
  PROVE  AccountsInv'
<1>1. Collection'
  BY DEF AccountsInv, Collection, Auth!Stored
<1>2. r.at \in {"found", "linked"} /\ Auth!Stored(r.id)' => users'[r.id].email = r.email
  BY DEF Auth!Stored
<1>3. \A i \in used : Auth!Stored(i)' => Auth!Stored(i) /\ users'[i].email = users[i].email
  BY DEF Auth!Stored
<1>. QED
  BY <1>1, <1>2, <1>3, HandlerMoves

\* A handler ends: Idle is a handler.
LEMMA HandlerEnds ==
  ASSUME AccountsInv, NEW s \in Slots, Auth!Finish(s), UNCHANGED <<users, used>>,
         sessions' \in [Sessions -> used \cup {None}]
  PROVE  AccountsInv'
<1>1. Auth!Idle \in Handlers(used) /\ Auth!Idle.at = "idle"
  BY DEF Handlers, Auth!Idle
<1>. QED
  BY <1>1, OnlyHandlerMoves DEF Auth!Finish

-----------------------------------------------------------------------------
(* The steps *)

\* At the start there are only linked and unlinked documents of version 1.
LEMMA AccountsInitially == ASSUME Auth!AccountsAssumption PROVE Auth!Init => AccountsInv
<1>. SUFFICES ASSUME Auth!Init PROVE AccountsInv
  OBVIOUS
<1>1. \A e \in Emails : Auth!LegacyDocs(e) \subseteq Docs
  BY DEF Auth!LegacyDocs, Docs, DocsOf
<1>2. users \in [Ids -> {None} \cup Docs]
  BY <1>1 DEF Auth!Init
<1>3. Collection
  BY <1>2 DEF Auth!Init, Collection, Auth!Stored
<1>4. requests \in [Slots -> Handlers(used)] /\ \A s \in Slots : requests[s].at = "idle"
  BY DEF Auth!Init, Handlers, Auth!Idle
<1>. QED
  BY <1>3, <1>4 DEF AccountsInv, Holders, Auth!Init

\* findOne({ email }): the handler holds a document of the address it asked for.
LEMMA FindAccountKeepsAccounts ==
  ASSUME AccountsInv, NEW s \in Slots, NEW e \in Emails, NEW c \in Sessions, Auth!FindAccount(s, e, c)
  PROVE  AccountsInv'
<1>0. sessions' \in [Sessions -> used \cup {None}] /\ UNCHANGED <<users, used>>
  BY DEF Auth!FindAccount, AccountsInv, Holders
<1>1. ASSUME NEW id \in Auth!Account(e),
             requests' = [requests EXCEPT ![s] = [at |-> "found", id |-> id, doc |-> users[id],
                                                  email |-> e, cookie |-> c]]
      PROVE  AccountsInv'
  <2>. DEFINE r == [at |-> "found", id |-> id, doc |-> users[id], email |-> e, cookie |-> c]
  <2>1. id \in used /\ users[id] \in Docs /\ users[id].email = e
    BY DEF Auth!Account, Auth!Stored, AccountsInv, Collection
  <2>2. r \in Handlers(used)
    BY <2>1 DEF Handlers, SignIns
  <2>3. r.id = id /\ r.email = e
    OBVIOUS
  <2>. HIDE DEF r
  <2>. QED
    BY <1>0, <1>1, <2>1, <2>2, <2>3, OnlyHandlerMoves DEF r
<1>2. ASSUME requests' = [requests EXCEPT ![s] = [at |-> "absent", email |-> e, cookie |-> c]]
      PROVE  AccountsInv'
  <2>. DEFINE r == [at |-> "absent", email |-> e, cookie |-> c]
  <2>1. r \in Handlers(used) /\ r.at = "absent"
    BY DEF Handlers, FirstSignIns
  <2>. HIDE DEF r
  <2>. QED
    BY <1>0, <1>2, <2>1, OnlyHandlerMoves DEF r
<1>. QED
  BY <1>1, <1>2 DEF Auth!FindAccount

\* The link is written to the document as it is now, if it is still there.
LEMMA LinkGoogleIdKeepsAccounts ==
  ASSUME AccountsInv, NEW s \in Slots, Auth!LinkGoogleId(s)
  PROVE  AccountsInv'
<1>. SUFFICES ASSUME NEW r, r = requests[s] PROVE AccountsInv'
  OBVIOUS
<1>. DEFINE g == GoogleId[r.email]
<1>0. /\ r \in SignIns(used) /\ r.at = "found" /\ r.id \in used /\ r.id \in Ids
      /\ Auth!Stored(r.id) => users[r.id].email = r.email
      /\ sessions' \in [Sessions -> used \cup {None}] /\ used' = used
  BY HandlerKinds DEF Auth!LinkGoogleId, AccountsInv, Holders, Collection
<1>1. CASE r.doc.googleId # None
  <2>. DEFINE q == [r EXCEPT !.at = "linked"]
  <2>1. /\ q \in SignIns(used) /\ q.at = "linked" /\ q.id = r.id /\ q.email = r.email
    BY <1>0 DEF SignIns
  <2>2. requests' = [requests EXCEPT ![s] = q] /\ UNCHANGED <<users, used>>
    BY <1>1 DEF Auth!LinkGoogleId
  <2>. HIDE DEF q
  <2>3. q \in Handlers(used)
    BY <2>1 DEF Handlers
  <2>. QED
    BY <1>0, <2>1, <2>2, <2>3, OnlyHandlerMoves
<1>2. CASE r.doc.googleId = None /\ Auth!Stored(r.id)
  <2>. DEFINE d == [users[r.id] EXCEPT !.googleId = g]
  <2>1. users[r.id] \in Docs /\ users[r.id].email = r.email
    BY <1>0, <1>2 DEF AccountsInv, Collection, Auth!Stored
  <2>2. d \in Docs /\ d.email = r.email
    BY <2>1, Linked
  <2>3. users' = [users EXCEPT ![r.id] = d] /\ used' = used \cup {r.id}
    BY <1>0, <1>2 DEF Auth!LinkGoogleId
  <2>4. /\ Collection'
        /\ \A i \in used : Auth!Stored(i)' => Auth!Stored(i) /\ users'[i].email = users[i].email
    <3>. HIDE DEF d
    <3>. QED
      BY <1>0, <1>2, <2>1, <2>2, <2>3, WriteDoc
  <2>. DEFINE rd == [r.doc EXCEPT !.googleId = g]
  <2>5. rd \in Docs /\ rd.email = r.email
    BY <1>0, Linked DEF SignIns
  <2>. DEFINE q == [at |-> "linked", id |-> r.id, email |-> r.email, cookie |-> r.cookie,
                    doc |-> rd]
  <2>6. requests' = [requests EXCEPT ![s] = q]
    BY <1>2 DEF Auth!LinkGoogleId
  <2>. HIDE DEF rd, d
  <2>7. q \in SignIns(used) /\ q.at = "linked" /\ q.id = r.id /\ q.email = r.email
    BY <1>0, <2>5 DEF SignIns
  <2>8. Auth!Stored(r.id)' => users'[r.id].email = r.email
    BY <1>0, <1>2, <2>1, <2>3, <2>4 DEF Auth!Stored
  <2>. HIDE DEF q
  <2>9. q \in Handlers(used')
    BY <1>0, <2>7 DEF Handlers
  <2>. QED
    BY <1>0, <2>4, <2>6, <2>7, <2>8, <2>9, HandlerMoves
<1>3. CASE r.doc.googleId = None /\ ~ Auth!Stored(r.id)
  BY <1>0, <1>3, HandlerEnds DEF Auth!LinkGoogleId
<1>. QED
  BY <1>1, <1>2, <1>3

\* The secrets and the version are written together, under the key of the document's owner.
LEMMA MigrateKeepsAccounts ==
  ASSUME AccountsInv, NEW s \in Slots, Auth!Migrate(s)
  PROVE  AccountsInv'
<1>. SUFFICES ASSUME NEW r, r = requests[s] PROVE AccountsInv'
  OBVIOUS
<1>. DEFINE q == [r EXCEPT !.at = "known"]
<1>0. /\ r \in SignIns(used) /\ r.at = "linked" /\ r.id \in used /\ r.id \in Ids
      /\ Auth!Stored(r.id) => users[r.id].email = r.email
      /\ sessions' \in [Sessions -> used \cup {None}] /\ used' = used
  BY HandlerKinds DEF Auth!Migrate, AccountsInv, Holders, Collection
<1>1. q \in SignIns(used) /\ q.at = "known"
  BY <1>0 DEF SignIns
<1>2. q \in Handlers(used)
  BY <1>1 DEF Handlers
<1>3. CASE r.doc.version >= 2
  <2>1. requests' = [requests EXCEPT ![s] = q] /\ UNCHANGED <<users, used>>
    BY <1>3 DEF Auth!Migrate
  <2>. HIDE DEF q
  <2>. QED
    BY <1>0, <1>1, <1>2, <2>1, OnlyHandlerMoves
<1>4. CASE /\ ~ (r.doc.version >= 2)
           /\ r.doc.secrets = Auth!Key(GoogleId[r.email], r.email, 1) /\ Auth!Stored(r.id)
  <2>. DEFINE k == Auth!Key(GoogleId[r.email], r.email, 2)
  <2>. DEFINE d == [users[r.id] EXCEPT !.version = 2, !.secrets = k]
  <2>1. users[r.id] \in Docs /\ users[r.id].email = r.email
    BY <1>0, <1>4 DEF AccountsInv, Collection, Auth!Stored
  <2>2. d \in Docs /\ d.email = r.email
    BY <2>1, Migrated
  <2>3. users' = [users EXCEPT ![r.id] = d] /\ used' = used \cup {r.id}
    BY <1>0, <1>4 DEF Auth!Migrate
  <2>4. requests' = [requests EXCEPT ![s] = q]
    BY <1>4 DEF Auth!Migrate
  <2>. HIDE DEF d, q
  <2>5. /\ Collection'
        /\ \A i \in used : Auth!Stored(i)' => Auth!Stored(i) /\ users'[i].email = users[i].email
    BY <1>0, <1>4, <2>1, <2>2, <2>3, WriteDoc
  <2>. QED
    BY <1>0, <1>1, <1>2, <2>4, <2>5, HandlerMoves
<1>5. CASE /\ ~ (r.doc.version >= 2)
           /\ ~ (r.doc.secrets = Auth!Key(GoogleId[r.email], r.email, 1) /\ Auth!Stored(r.id))
  BY <1>0, <1>5, HandlerEnds DEF Auth!Migrate
<1>. QED
  BY <1>3, <1>4, <1>5

\* The unique index refuses a second account; a new one gets an _id nobody had.
LEMMA CreateAccountKeepsAccounts ==
  ASSUME AccountsInv, NEW s \in Slots, Auth!CreateAccount(s)
  PROVE  AccountsInv'
<1>. SUFFICES ASSUME NEW r, r = requests[s] PROVE AccountsInv'
  OBVIOUS
<1>0. r \in FirstSignIns /\ sessions' = sessions /\ sessions \in [Sessions -> used \cup {None}]
  BY HandlerKinds DEF Auth!CreateAccount, AccountsInv, Holders
<1>1. ASSUME Auth!Finish(s), UNCHANGED <<users, used>>
      PROVE  AccountsInv'
  BY <1>0, <1>1, HandlerEnds
<1>2. ASSUME Auth!Account(r.email) = {}, NEW id \in Ids \ used,
             users' = [users EXCEPT ![id] =
                        [email |-> r.email, googleId |-> GoogleId[r.email], version |-> 2,
                         secrets |-> Auth!Key(GoogleId[r.email], r.email, 2)]],
             used' = used \cup {id},
             requests' = [requests EXCEPT ![s] = [at |-> "known", id |-> id,
                                                  email |-> r.email, cookie |-> r.cookie]]
      PROVE  AccountsInv'
  <2>. DEFINE d == [email |-> r.email, googleId |-> GoogleId[r.email], version |-> 2,
                    secrets |-> Auth!Key(GoogleId[r.email], r.email, 2)]
  <2>. DEFINE q == [at |-> "known", id |-> id, email |-> r.email, cookie |-> r.cookie]
  <2>1. r.email \in Emails /\ r.cookie \in Sessions
    BY <1>0 DEF FirstSignIns
  <2>2. d \in Docs /\ d.email = r.email
    BY <2>1, DocShape
  <2>3. users' = [users EXCEPT ![id] = d] /\ requests' = [requests EXCEPT ![s] = q]
    BY <1>2
  <2>4. q \in SignedUp(used') /\ q.at = "known"
    BY <1>2, <2>1 DEF SignedUp
  <2>5. ~ Auth!Stored(id)
    BY DEF AccountsInv, Collection
  <2>. HIDE DEF d, q
  <2>6. /\ Collection'
        /\ \A i \in used : Auth!Stored(i)' => Auth!Stored(i) /\ users'[i].email = users[i].email
    BY <1>2, <2>2, <2>3, <2>5, WriteDoc
  <2>7. q \in Handlers(used') /\ sessions' \in [Sessions -> used' \cup {None}] /\ used \subseteq used'
    BY <1>0, <1>2, <2>4 DEF Handlers
  <2>. QED
    BY <2>3, <2>4, <2>6, <2>7, HandlerMoves
<1>3. \/ Auth!Finish(s) /\ UNCHANGED <<users, used>>
      \/ /\ Auth!Account(r.email) = {}
         /\ \E id \in Ids \ used :
              /\ users' = [users EXCEPT ![id] =
                            [email |-> r.email, googleId |-> GoogleId[r.email], version |-> 2,
                             secrets |-> Auth!Key(GoogleId[r.email], r.email, 2)]]
              /\ used' = used \cup {id}
              /\ requests' = [requests EXCEPT ![s] = [at |-> "known", id |-> id,
                                                      email |-> r.email, cookie |-> r.cookie]]
  BY DEF Auth!CreateAccount
<1>. QED
  BY <1>1, <1>2, <1>3

\* The other steps of a handler write no document.
LEMMA OtherHandlersKeepAccounts ==
  ASSUME AccountsInv, NEW s \in Slots,
         \/ Auth!LogIn(s)
         \/ \E c \in Sessions : Auth!LoadUser(s, c)
         \/ Auth!Decrypt(s) \/ Auth!SaveNote(s)
  PROVE  AccountsInv'
<1>1. CASE Auth!LogIn(s)
  <2>1. requests[s].id \in used /\ requests[s].cookie \in Sessions
    BY <1>1, HandlerKinds DEF Auth!LogIn, AccountsInv, Holders
  <2>2. sessions' \in [Sessions -> used \cup {None}]
    BY <1>1, <2>1 DEF Auth!LogIn, AccountsInv, Holders
  <2>. QED
    BY <1>1, <2>2, HandlerEnds DEF Auth!LogIn
<1>2. ASSUME NEW c \in Sessions, Auth!LoadUser(s, c)
      PROVE  AccountsInv'
  <2>. DEFINE r == [at |-> "loaded", id |-> sessions[c], doc |-> users[sessions[c]]]
  <2>1. sessions[c] \in used /\ users[sessions[c]] \in Docs /\ users[sessions[c]].googleId # None
    BY <1>2 DEF Auth!LoadUser, Auth!Authenticated, Auth!Stored, AccountsInv, Collection, Holders
  <2>2. r \in Wallets(used) /\ r.at = "loaded"
    BY <2>1 DEF Wallets
  <2>3. /\ requests' = [requests EXCEPT ![s] = r] /\ UNCHANGED <<users, used>>
        /\ sessions' \in [Sessions -> used \cup {None}]
    BY <1>2 DEF Auth!LoadUser, AccountsInv, Holders
  <2>. HIDE DEF r
  <2>4. r \in Handlers(used)
    BY <2>2 DEF Handlers
  <2>. QED
    BY <2>2, <2>3, <2>4, OnlyHandlerMoves
<1>3. CASE Auth!Decrypt(s) \/ Auth!SaveNote(s)
  BY <1>3, HandlerEnds DEF Auth!Decrypt, Auth!SaveNote, AccountsInv, Holders
<1>. QED
  BY <1>1, <1>2, <1>3

\* Handlers outlive the session and the document they were given.
LEMMA SessionsKeepAccounts ==
  ASSUME AccountsInv, NEW c \in Sessions, Auth!LogOut(c) \/ Auth!DeleteMe(c)
  PROVE  AccountsInv'
<1>1. /\ requests' = requests /\ used' = used
      /\ sessions' \in [Sessions -> used \cup {None}]
      /\ \A i \in Ids : Auth!Stored(i)' => Auth!Stored(i) /\ users'[i] = users[i]
      /\ users' \in [Ids -> {None} \cup Docs]
  BY DEF Auth!LogOut, Auth!DeleteMe, AccountsInv, Collection, Holders, Auth!Stored
<1>2. Collection'
  BY <1>1 DEF AccountsInv, Collection, Auth!Stored
<1>3. ASSUME NEW s \in Slots, requests[s].at \in {"found", "linked"}, Auth!Stored(requests[s].id)'
      PROVE  users'[requests[s].id].email = requests[s].email
  <2>1. requests[s].id \in Ids
    BY <1>3, HandlerKinds DEF AccountsInv, Holders, Collection
  <2>. QED
    BY <1>1, <1>3, <2>1 DEF AccountsInv, Holders, Auth!Stored
<1>. QED
  BY <1>1, <1>2, <1>3 DEF AccountsInv, Holders, Auth!Stored

LEMMA NextKeepsAccounts ==
  ASSUME Auth!AccountsAssumption, AccountsInv, [Auth!Next]_(Auth!vars) PROVE AccountsInv'
<1>1. ASSUME Auth!Next PROVE AccountsInv'
  BY <1>1, FindAccountKeepsAccounts, LinkGoogleIdKeepsAccounts, MigrateKeepsAccounts, CreateAccountKeepsAccounts,
     OtherHandlersKeepAccounts, SessionsKeepAccounts DEF Auth!Next
<1>2. ASSUME UNCHANGED Auth!vars PROVE AccountsInv'
  BY <1>2 DEF AccountsInv, Collection, Holders, Auth!Stored, Auth!vars
<1>. QED
  BY <1>1, <1>2

\* A document, stored or loaded, opens with the fields beside its secrets.
LEMMA KeysOpenInv == ASSUME AccountsInv PROVE Auth!KeysOpen
<1>1. ASSUME NEW d \in Docs, d.googleId # None
      PROVE  Auth!Opens(d)
  BY <1>1, DocFields DEF Auth!Opens, Auth!KeyFor
<1>2. ASSUME NEW id \in Ids, Auth!Stored(id) PROVE users[id] \in Docs
  BY <1>2 DEF AccountsInv, Collection, Auth!Stored
<1>3. ASSUME NEW s \in Slots, requests[s].at = "loaded"
      PROVE  requests[s].doc \in Docs /\ requests[s].doc.googleId # None
  BY <1>3, HandlerKinds DEF AccountsInv, Holders, Wallets
<1>. QED
  BY <1>1, <1>2, <1>3 DEF Auth!KeysOpen

\* The instance counts as the module of the standard library does.
LEMMA AuthCardinality == \A S : Auth!Cardinality(S) = Cardinality(S)
BY DEF Auth!Cardinality, Cardinality

\* Of two accounts with one address one would not have been let in.
LEMMA OneAccountInv == ASSUME AccountsInv PROVE Auth!AtMostOneAccount
<1>1. ASSUME NEW e \in Emails
      PROVE  Auth!Cardinality(Auth!Account(e)) <= 1
  <2>1. \A i, j \in Auth!Account(e) : i = j
    BY DEF Auth!Account, AccountsInv, Collection
  <2>2. CASE Auth!Account(e) = {}
    BY <2>2, FS_EmptySet, AuthCardinality
  <2>3. CASE Auth!Account(e) # {}
    <3>1. PICK i : Auth!Account(e) = {i}
      BY <2>1, <2>3
    <3>2. Auth!Cardinality({i}) = 1
      BY FS_Singleton, AuthCardinality
    <3>. QED
      BY <3>1, <3>2
  <2>. QED
    BY <2>2, <2>3
<1>. QED
  BY <1>1 DEF Auth!AtMostOneAccount

\* A note names an _id that was handed out: that of the account its handler had loaded.
NotesOfUsed == \A n \in sealed : n.owner \in used

LEMMA NotesInitially == ASSUME Auth!Init PROVE NotesOfUsed
BY DEF Auth!Init, NotesOfUsed

LEMMA NotesStayOfUsed ==
  ASSUME AccountsInv, NotesOfUsed, [Auth!Next]_(Auth!vars)
  PROVE  NotesOfUsed'
<1>1. ASSUME NEW s \in Slots, Auth!SaveNote(s)
      PROVE  NotesOfUsed'
  <2>. DEFINE n == [owner |-> requests[s].id, key |-> Auth!KeyFor(requests[s].doc)]
  <2>1. requests[s].id \in used
    BY <1>1, HandlerKinds DEF Auth!SaveNote, AccountsInv, Holders, Wallets
  <2>2. sealed' = sealed \cup {n} /\ used' = used /\ n.owner = requests[s].id
    BY <1>1 DEF Auth!SaveNote
  <2>. HIDE DEF n
  <2>. QED
    BY <2>1, <2>2 DEF NotesOfUsed
<1>2. ASSUME NEW s \in Slots, Auth!CreateAccount(s)
      PROVE  sealed' = sealed /\ used \subseteq used'
  BY <1>2 DEF Auth!CreateAccount
<1>3. ASSUME UNCHANGED <<sealed, used>> PROVE NotesOfUsed'
  BY <1>3 DEF NotesOfUsed
<1>4. ASSUME NEW s \in Slots, \/ \E e \in Emails, c \in Sessions : Auth!FindAccount(s, e, c)
                              \/ Auth!LinkGoogleId(s) \/ Auth!Migrate(s) \/ Auth!LogIn(s)
                              \/ \E c \in Sessions : Auth!LoadUser(s, c)
                              \/ Auth!Decrypt(s)
      PROVE  NotesOfUsed'
  BY <1>3, <1>4 DEF Auth!FindAccount, Auth!LinkGoogleId, Auth!Migrate, Auth!LogIn,
                    Auth!LoadUser, Auth!Decrypt
<1>5. ASSUME NEW c \in Sessions, Auth!LogOut(c) \/ Auth!DeleteMe(c)
      PROVE  NotesOfUsed'
  BY <1>3, <1>5 DEF Auth!LogOut, Auth!DeleteMe
<1>6. ASSUME UNCHANGED Auth!vars PROVE NotesOfUsed'
  BY <1>3, <1>6 DEF Auth!vars
<1>7. ASSUME NEW s \in Slots, Auth!CreateAccount(s) PROVE NotesOfUsed'
  BY <1>2, <1>7 DEF NotesOfUsed
<1>. QED
  BY <1>1, <1>4, <1>5, <1>6, <1>7 DEF Auth!Next

\* What sessions and notes name was handed out.
LEMMA OwnersInv == ASSUME AccountsInv, NotesOfUsed PROVE Auth!OwnersAreKnown
BY DEF AccountsInv, Holders, NotesOfUsed, Auth!OwnersAreKnown

\* A save keeps the address of a document that is there and does nothing to one that is not.
LEMMA SavesKeepThePerson ==
  ASSUME AccountsInv, NEW s \in Slots, Auth!LinkGoogleId(s) \/ Auth!Migrate(s)
  PROVE  Auth!IdsKeepTheirPerson
<1>. DEFINE r == requests[s]
            k == Auth!Key(GoogleId[r.email], r.email, 2)
<1>1. CASE UNCHANGED users
  BY <1>1 DEF Auth!IdsKeepTheirPerson, Auth!Stored
<1>2. ASSUME NEW id \in used, NEW d, Auth!Stored(id), users' = [users EXCEPT ![id] = d],
             d # None => d.email = users[id].email
      PROVE  Auth!IdsKeepTheirPerson
  BY <1>2 DEF AccountsInv, Collection, Auth!IdsKeepTheirPerson, Auth!Stored
<1>3. r.at \in {"found", "linked"} /\ r.id \in used
  BY HandlerKinds DEF Auth!LinkGoogleId, Auth!Migrate, AccountsInv, Holders
<1>4. ASSUME Auth!Stored(r.id)
      PROVE  /\ [users[r.id] EXCEPT !.googleId = GoogleId[r.email]].email = users[r.id].email
             /\ [users[r.id] EXCEPT !.version = 2, !.secrets = k].email = users[r.id].email
  <2>1. users[r.id] \in Docs
    BY <1>3, <1>4 DEF AccountsInv, Collection, Auth!Stored
  <2>2. PICK e, g, v, o : users[r.id] = [email |-> e, googleId |-> g, version |-> v, secrets |-> o]
    BY <2>1, DocRecord
  <2>. QED
    BY <2>2
<1>5. \/ UNCHANGED users
      \/ Auth!Stored(r.id) /\ users' = [users EXCEPT ![r.id].googleId = GoogleId[r.email]]
      \/ Auth!Stored(r.id) /\ users' = [users EXCEPT ![r.id].version = 2, ![r.id].secrets = k]
  BY DEF Auth!LinkGoogleId, Auth!Migrate
<1>6. CASE Auth!Stored(r.id) /\ users' = [users EXCEPT ![r.id].googleId = GoogleId[r.email]]
  <2>. DEFINE d == [users[r.id] EXCEPT !.googleId = GoogleId[r.email]]
  <2>1. users' = [users EXCEPT ![r.id] = d] /\ d.email = users[r.id].email
    BY <1>4, <1>6
  <2>. HIDE DEF d
  <2>. QED
    BY <1>2, <1>3, <1>6, <2>1
<1>7. CASE Auth!Stored(r.id) /\ users' = [users EXCEPT ![r.id].version = 2, ![r.id].secrets = k]
  <2>. DEFINE d == [users[r.id] EXCEPT !.version = 2, !.secrets = k]
  <2>1. users' = [users EXCEPT ![r.id] = d] /\ d.email = users[r.id].email
    BY <1>3, <1>4, <1>7 DEF AccountsInv, Collection
  <2>. HIDE DEF d
  <2>. QED
    BY <1>2, <1>3, <1>7, <2>1
<1>. QED
  BY <1>1, <1>5, <1>6, <1>7

\* No step gives an _id to another person or brings a deleted account back.
LEMMA PersonsStay ==
  ASSUME AccountsInv, [Auth!Next]_(Auth!vars)
  PROVE  Auth!IdsKeepTheirPerson
<1>1. ASSUME UNCHANGED users PROVE Auth!IdsKeepTheirPerson
  BY <1>1 DEF Auth!IdsKeepTheirPerson, Auth!Stored
<1>2. ASSUME NEW s \in Slots, Auth!CreateAccount(s) PROVE Auth!IdsKeepTheirPerson
  <2>1. \/ UNCHANGED users
        \/ \E d : \E id \in Ids \ used : users' = [users EXCEPT ![id] = d]
    BY <1>2 DEF Auth!CreateAccount
  <2>. QED
    BY <1>1, <2>1 DEF AccountsInv, Collection, Auth!IdsKeepTheirPerson, Auth!Stored
<1>3. ASSUME NEW c \in Sessions, Auth!DeleteMe(c) PROVE Auth!IdsKeepTheirPerson
  BY <1>3 DEF Auth!DeleteMe, AccountsInv, Collection, Auth!IdsKeepTheirPerson, Auth!Stored
<1>4. ASSUME NEW s \in Slots, \/ \E e \in Emails, c \in Sessions : Auth!FindAccount(s, e, c)
                              \/ Auth!LogIn(s) \/ \E c \in Sessions : Auth!LoadUser(s, c)
                              \/ Auth!Decrypt(s) \/ Auth!SaveNote(s)
      PROVE  UNCHANGED users
  BY <1>4 DEF Auth!FindAccount, Auth!LogIn, Auth!LoadUser, Auth!Decrypt, Auth!SaveNote
<1>5. ASSUME NEW c \in Sessions, Auth!LogOut(c) PROVE UNCHANGED users
  BY <1>5 DEF Auth!LogOut
<1>6. ASSUME UNCHANGED Auth!vars PROVE UNCHANGED users
  BY <1>6 DEF Auth!vars
<1>. QED
  BY <1>1, <1>2, <1>3, <1>4, <1>5, <1>6, SavesKeepThePerson DEF Auth!Next

-----------------------------------------------------------------------------
(* The pages of a user (Desk, DeskViews, DeskBoards, OpsBoards, FiatViews).  First the     *)
(* lists of notes, which the model folds over.                                            *)

-----------------------------------------------------------------------------
(* Folds: they exist, and a sum may be taken in any order *)

Any(s) == CHOOSE x \in s : TRUE

\* What a fold over the parts of D with the operation op is unfolded to.
Folds(it, op, base, g, D) ==
  \A s \in SUBSET D :
    it[s] = IF s = {} THEN base ELSE op[<<g[Any(s)], it[s \ {Any(s)}]>>]

\* A part without one of its elements is a smaller part.
LEMMA OneLess ==
  ASSUME NEW D, IsFiniteSet(D), NEW s \in SUBSET D, NEW x \in s
  PROVE  /\ IsFiniteSet(s) /\ Cardinality(s) \in Nat \ {0}
         /\ s \ {x} \in SUBSET D /\ IsFiniteSet(s \ {x})
         /\ Cardinality(s \ {x}) = Cardinality(s) - 1
         /\ Cardinality(s \ {x}) \in Nat
<1>1. IsFiniteSet(s)
  BY FS_Subset
<1>2. Cardinality(s) \in Nat
  BY <1>1, FS_CardinalityType
<1>3. IsFiniteSet(s \ {x}) /\ Cardinality(s \ {x}) = Cardinality(s) - 1
  BY <1>1, FS_RemoveElement
<1>4. Cardinality(s \ {x}) \in Nat
  BY <1>3, FS_CardinalityType
<1>. QED
  BY <1>1, <1>2, <1>3, <1>4

\* Any element of a set is one of it.
LEMMA AnyOf == ASSUME NEW s, s # {} PROVE Any(s) \in s
BY DEF Any

\* On the parts of at most n elements, by induction on n.
LEMMA FoldExists ==
  ASSUME NEW D, IsFiniteSet(D), NEW X, NEW T, NEW op \in [X \X T -> T], NEW base \in T,
         NEW g, \A x \in D : g[x] \in X
  PROVE  \E it \in [SUBSET D -> T] : Folds(it, op, base, g, D)
<1>. DEFINE Small(n) == {s \in SUBSET D : Cardinality(s) <= n}
            Upto(it, n) == \A s \in Small(n) :
              it[s] = IF s = {} THEN base ELSE op[<<g[Any(s)], it[s \ {Any(s)}]>>]
            I == {n \in Nat : \E it \in [Small(n) -> T] : Upto(it, n)}
<1>0. ASSUME NEW s \in SUBSET D
      PROVE  IsFiniteSet(s) /\ Cardinality(s) \in Nat /\ (Cardinality(s) = 0 <=> s = {})
  <2>1. IsFiniteSet(s)
    BY FS_Subset
  <2>. QED
    BY <2>1, FS_CardinalityType, FS_EmptySet
<1>1. 0 \in I
  <2>. DEFINE it0 == [s \in Small(0) |-> base]
  <2>1. \A s \in Small(0) : s = {}
    BY <1>0
  <2>2. it0 \in [Small(0) -> T]
    OBVIOUS
  <2>3. Upto(it0, 0)
    BY <2>1
  <2>. QED
    BY <2>2, <2>3
<1>2. ASSUME NEW n \in Nat, n \in I PROVE n + 1 \in I
  <2>1. PICK it \in [Small(n) -> T] : Upto(it, n)
    BY <1>2
  <2>. DEFINE next == [s \in Small(n + 1) |->
                        IF s = {} THEN base ELSE op[<<g[Any(s)], it[s \ {Any(s)}]>>]]
  <2>2. ASSUME NEW s \in Small(n + 1), s # {}
        PROVE  Any(s) \in D /\ s \ {Any(s)} \in Small(n)
    <3>1. Any(s) \in s
      BY <2>2, AnyOf
    <3>2. /\ s \ {Any(s)} \in SUBSET D /\ Cardinality(s \ {Any(s)}) = Cardinality(s) - 1
          /\ Cardinality(s) \in Nat
      BY <3>1, OneLess
    <3>. QED
      BY <3>1, <3>2
  <2>3. ASSUME NEW s \in Small(n + 1) PROVE next[s] \in T
    <3>1. CASE s = {}
      BY <3>1
    <3>2. CASE s # {}
      <4>1. g[Any(s)] \in X /\ it[s \ {Any(s)}] \in T
        BY <2>2, <3>2
      <4>. QED
        BY <3>2, <4>1
    <3>. QED
      BY <3>1, <3>2
  <2>4. next \in [Small(n + 1) -> T]
    BY <2>3
  <2>5. ASSUME NEW s \in Small(n) PROVE s \in Small(n + 1) /\ next[s] = it[s]
    <3>1. s \in Small(n + 1)
      BY <1>0
    <3>2. it[s] = IF s = {} THEN base ELSE op[<<g[Any(s)], it[s \ {Any(s)}]>>]
      BY <2>1
    <3>. QED
      BY <3>1, <3>2
  <2>6. ASSUME NEW s \in Small(n + 1)
        PROVE  next[s] = IF s = {} THEN base ELSE op[<<g[Any(s)], next[s \ {Any(s)}]>>]
    <3>1. CASE s = {}
      BY <3>1
    <3>2. CASE s # {}
      <4>1. next[s \ {Any(s)}] = it[s \ {Any(s)}]
        BY <2>2, <2>5, <3>2
      <4>2. next[s] = op[<<g[Any(s)], it[s \ {Any(s)}]>>]
        BY <3>2
      <4>. QED
        BY <3>2, <4>1, <4>2
    <3>. QED
      BY <3>1, <3>2
  <2>. HIDE DEF next
  <2>7. Upto(next, n + 1)
    BY <2>6
  <2>. HIDE DEF Upto, Small
  <2>8. \E f \in [Small(n + 1) -> T] : Upto(f, n + 1)
    BY <2>4, <2>7
  <2>. QED
    BY <2>8
<1>. HIDE DEF I
<1>3. Nat \subseteq I
  BY <1>1, <1>2, TreeSide!Induction
<1>4. Cardinality(D) \in Nat
  BY FS_CardinalityType
<1>5. Cardinality(D) \in I
  BY <1>3, <1>4
<1>6. Small(Cardinality(D)) = SUBSET D
  <2>1. ASSUME NEW s \in SUBSET D PROVE Cardinality(s) <= Cardinality(D)
    BY FS_Subset
  <2>. QED
    BY <2>1
<1>. USE DEF I
<1>7. PICK it \in [Small(Cardinality(D)) -> T] : Upto(it, Cardinality(D))
  BY <1>5
<1>. QED
  BY <1>6, <1>7 DEF Folds

-----------------------------------------------------------------------------
(* Sums of numbers *)

Sum(g, s) == Desk!SumFunctionOnSet(g, s)

\* The function of which a sum over D is a value.
Sums(it, g, D) ==
  it = [s \in SUBSET D |-> IF s = {} THEN 0
                           ELSE g[CHOOSE x \in s : TRUE] + it[s \ {CHOOSE x \in s : TRUE}]]

\* A sum over D is the value there of a function on the parts of D.
LEMMA SumOf ==
  ASSUME NEW g, NEW D
  PROVE  Sum(g, D) = (CHOOSE it : Sums(it, g, D))[D]
BY DEF Sum, Sums, Desk!SumFunctionOnSet, Desk!FoldFunctionOnSet, Desk!MapThenFoldSet

\* Such functions agree where the summands do.
LEMMA SumsAgree ==
  ASSUME NEW D, NEW E, E \subseteq D, IsFiniteSet(D), NEW g, NEW h, \A x \in E : g[x] = h[x],
         NEW i, Sums(i, g, D), NEW j, Sums(j, h, E)
  PROVE  \A s \in SUBSET E : i[s] = j[s]
<1>. DEFINE I == {n \in Nat : \A s \in SUBSET E : Cardinality(s) = n => i[s] = j[s]}
<1>0. IsFiniteSet(E)
  BY FS_Subset
<1>1. ASSUME NEW s \in SUBSET E
      PROVE  Cardinality(s) \in Nat /\ (Cardinality(s) = 0 <=> s = {})
  <2>1. IsFiniteSet(s)
    BY <1>0, FS_Subset
  <2>. QED
    BY <2>1, FS_CardinalityType, FS_EmptySet
<1>2. ASSUME NEW s \in SUBSET E
      PROVE  s \in SUBSET D
  OBVIOUS
<1>3. 0 \in I
  BY <1>1, <1>2 DEF Sums
<1>4. ASSUME NEW n \in Nat, n \in I PROVE n + 1 \in I
  <2> SUFFICES ASSUME NEW s \in SUBSET E, Cardinality(s) = n + 1 PROVE i[s] = j[s]
    OBVIOUS
  <2>1. s # {}
    BY <1>1
  <2>2. Any(s) \in s
    BY <2>1, AnyOf
  <2>3. s \ {Any(s)} \in SUBSET E /\ Cardinality(s \ {Any(s)}) = n
    BY <1>0, <2>2, OneLess
  <2>4. i[s \ {Any(s)}] = j[s \ {Any(s)}]
    BY <1>4, <2>3
  <2>5. i[s] = g[Any(s)] + i[s \ {Any(s)}]
    BY <2>1, <1>2 DEF Sums, Any
  <2>6. j[s] = h[Any(s)] + j[s \ {Any(s)}]
    BY <2>1 DEF Sums, Any
  <2>7. g[Any(s)] = h[Any(s)]
    BY <2>2
  <2>. QED
    BY <2>4, <2>5, <2>6, <2>7
<1>. HIDE DEF I
<1>5. Nat \subseteq I
  BY <1>3, <1>4, TreeSide!Induction
<1>. QED
  BY <1>1, <1>5 DEF I

\* There is such a function, and the sums are numbers.
LEMMA SumsExist ==
  ASSUME NEW D, IsFiniteSet(D), NEW g, \A x \in D : g[x] \in Nat
  PROVE  LET it == CHOOSE i : Sums(i, g, D) IN it \in [SUBSET D -> Nat] /\ Sums(it, g, D)
<1>. DEFINE op == [p \in Nat \X Nat |-> p[1] + p[2]]
<1>1. op \in [Nat \X Nat -> Nat] /\ \A m, n \in Nat : op[<<m, n>>] = m + n
  OBVIOUS
<1>. HIDE DEF op
<1>2. PICK it \in [SUBSET D -> Nat] : Folds(it, op, 0, g, D)
  BY <1>1, FoldExists
<1>3. ASSUME NEW s \in SUBSET D
      PROVE  it[s] = IF s = {} THEN 0
                     ELSE g[CHOOSE x \in s : TRUE] + it[s \ {CHOOSE x \in s : TRUE}]
  <2>1. CASE s = {}
    BY <1>2, <2>1 DEF Folds
  <2>2. CASE s # {}
    <3>1. Any(s) \in D
      BY <2>2, AnyOf
    <3>2. g[Any(s)] \in Nat /\ it[s \ {Any(s)}] \in Nat
      BY <3>1
    <3>3. it[s] = op[<<g[Any(s)], it[s \ {Any(s)}]>>]
      BY <1>2, <2>2 DEF Folds
    <3>. QED
      BY <1>1, <2>2, <3>2, <3>3 DEF Any
  <2>. QED
    BY <2>1, <2>2
<1>4. Sums(it, g, D)
  <2>1. it = [s \in SUBSET D |-> it[s]]
    OBVIOUS
  <2>. QED
    BY <1>3, <2>1 DEF Sums
<1>. DEFINE it0 == CHOOSE i : Sums(i, g, D)
<1>5. Sums(it0, g, D)
  BY <1>4
<1>. HIDE DEF it0
<1>6. it0 = it
  <2>1. \A s \in SUBSET D : it0[s] = it[s]
    BY <1>4, <1>5, SumsAgree
  <2>2. it0 = [s \in SUBSET D |-> it0[s]] /\ it = [s \in SUBSET D |-> it[s]]
    BY <1>4, <1>5 DEF Sums
  <2>. QED
    BY <2>1, <2>2
<1>. QED
  BY <1>5, <1>6 DEF it0

\* Nothing adds up to zero.
LEMMA SumEmpty == ASSUME NEW g PROVE Sum(g, {}) = 0
<1>1. IsFiniteSet({}) /\ \A x \in {} : g[x] \in Nat
  BY FS_EmptySet
<1>. DEFINE it == CHOOSE i : Sums(i, g, {})
<1>2. Sums(it, g, {})
  BY <1>1, SumsExist
<1>. HIDE DEF it
<1>3. it[{}] = 0
  BY <1>2 DEF Sums
<1>. QED
  BY <1>3, SumOf DEF it

\* A sum depends on what is summed only.
LEMMA SumSame ==
  ASSUME NEW D, IsFiniteSet(D), NEW g, NEW h, \A x \in D : g[x] \in Nat /\ h[x] = g[x]
  PROVE  Sum(g, D) = Sum(h, D)
<1>. DEFINE i == CHOOSE f : Sums(f, g, D)
            j == CHOOSE f : Sums(f, h, D)
<1>1. Sums(i, g, D)
  BY SumsExist
<1>2. Sums(j, h, D)
  <2>1. \A x \in D : h[x] \in Nat
    OBVIOUS
  <2>. QED
    BY <2>1, SumsExist
<1>. HIDE DEF i, j
<1>3. i[D] = j[D]
  <2>1. D \subseteq D
    OBVIOUS
  <2>3. \A x \in D : g[x] = h[x]
    OBVIOUS
  <2>4. IsFiniteSet(D)
    OBVIOUS
  <2>2. \A s \in SUBSET D : i[s] = j[s]
    BY ONLY <1>1, <1>2, <2>1, <2>3, <2>4, SumsAgree
  <2>. QED
    BY <2>2
<1>. QED
  BY <1>3, SumOf DEF i, j

\* Whichever element is taken first, the sum is the same.
LEMMA SumFirst ==
  ASSUME NEW D, IsFiniteSet(D), NEW g, \A x \in D : g[x] \in Nat, NEW x \in D
  PROVE  /\ Sum(g, D) \in Nat /\ Sum(g, D \ {x}) \in Nat
         /\ Sum(g, D) = g[x] + Sum(g, D \ {x})
<1>. DEFINE it == CHOOSE i : Sums(i, g, D)
            I == {n \in Nat : \A s \in SUBSET D : Cardinality(s) = n =>
                    \A y \in s : it[s] = g[y] + it[s \ {y}]}
<1>1. it \in [SUBSET D -> Nat] /\ Sums(it, g, D)
  BY SumsExist
<1>2. Sum(g, D) = it[D]
  BY SumOf
<1>3. Sum(g, D \ {x}) = it[D \ {x}]
  <2>. DEFINE E == D \ {x}
              j == CHOOSE i : Sums(i, g, E)
  <2>1. E \subseteq D /\ IsFiniteSet(E)
    BY FS_RemoveElement
  <2>. HIDE DEF E
  <2>2. Sums(j, g, E)
    BY <2>1, SumsExist
  <2>3. Sum(g, E) = j[E]
    BY SumOf
  <2>. HIDE DEF j, it
  <2>4. it[E] = j[E]
    BY <1>1, <2>1, <2>2, SumsAgree
  <2>. QED
    BY <2>3, <2>4 DEF E
<1>. HIDE DEF it
<1>4. 0 \in I
  <2>1. \A s \in SUBSET D : Cardinality(s) = 0 => s = {}
    BY FS_Subset, FS_EmptySet
  <2>. QED
    BY <2>1
<1>5. ASSUME NEW n \in Nat, n \in I PROVE n + 1 \in I
  <2> SUFFICES ASSUME NEW s \in SUBSET D, Cardinality(s) = n + 1, NEW y \in s
               PROVE  it[s] = g[y] + it[s \ {y}]
    OBVIOUS
  <2>. DEFINE c == Any(s)
  <2>1. c \in s
    BY AnyOf
  <2>2. it[s] = g[c] + it[s \ {c}]
    BY <1>1 DEF Sums, Any
  <2>. HIDE DEF c
  <2>3. CASE c = y
    BY <2>2, <2>3
  <2>4. CASE c # y
    <3>1. /\ s \ {c} \in SUBSET D /\ Cardinality(s \ {c}) = n
          /\ s \ {y} \in SUBSET D /\ Cardinality(s \ {y}) = n
      <4>1. s \ {c} \in SUBSET D /\ Cardinality(s \ {c}) = Cardinality(s) - 1
        BY <2>1, OneLess
      <4>2. s \ {y} \in SUBSET D /\ Cardinality(s \ {y}) = Cardinality(s) - 1
        BY OneLess
      <4>. QED
        BY <4>1, <4>2
    <3>2. it[s \ {c}] = g[y] + it[(s \ {c}) \ {y}]
      BY <1>5, <2>4, <3>1
    <3>3. it[s \ {y}] = g[c] + it[(s \ {y}) \ {c}]
      BY <1>5, <2>1, <2>4, <3>1
    <3>4. (s \ {c}) \ {y} = (s \ {y}) \ {c} /\ (s \ {c}) \ {y} \in SUBSET D
      OBVIOUS
    <3>5. g[y] \in Nat /\ g[c] \in Nat /\ it[(s \ {c}) \ {y}] \in Nat
      BY <1>1, <2>1, <3>4
    <3>. QED
      BY <2>2, <3>2, <3>3, <3>4, <3>5
  <2>. QED
    BY <2>3, <2>4
<1>. HIDE DEF I
<1>6. Nat \subseteq I
  BY <1>4, <1>5, TreeSide!Induction
<1>7. Cardinality(D) \in I
  BY <1>6, FS_CardinalityType
<1>8. it[D] = g[x] + it[D \ {x}]
  BY <1>7 DEF I
<1>. QED
  BY <1>1, <1>2, <1>3, <1>8

-----------------------------------------------------------------------------
(* Lists of notes *)

Total(ns) == Desk!Total(ns)

\* What notes are worth (the reduce over note values), as a sum over their places.
LEMMA TotalIsSum == ASSUME NEW ns \in Seq(Nat) PROVE Total(ns) = Sum(ns, 1 .. Len(ns))
<1>1. DOMAIN ns = 1 .. Len(ns)
  OBVIOUS
<1>. QED
  BY <1>1 DEF Total, Sum, Desk!Total, Desk!SumFunction

\* No notes are worth nothing.
LEMMA TotalOfNone == Total(<<>>) = 0
<1>1. 1 .. Len(<<>>) = {} /\ <<>> \in Seq(Nat)
  OBVIOUS
<1>. QED
  BY <1>1, TotalIsSum, SumEmpty

\* What notes are worth is a number.
LEMMA TotalIsNumber == ASSUME NEW ns \in Seq(Nat) PROVE Total(ns) \in Nat
<1>1. CASE Len(ns) = 0
  <2>1. ns = <<>>
    BY <1>1, EmptySeq
  <2>. QED
    BY <2>1, TotalOfNone
<1>2. CASE Len(ns) # 0
  <2>1. 1 \in 1 .. Len(ns) /\ \A i \in 1 .. Len(ns) : ns[i] \in Nat
    BY <1>2
  <2>2. IsFiniteSet(1 .. Len(ns))
    BY FS_Interval
  <2>3. Sum(ns, 1 .. Len(ns)) \in Nat
    BY <2>1, <2>2, SumFirst
  <2>. QED
    BY <2>3, TotalIsSum
<1>. QED
  BY <1>1, <1>2

\* A note more is worth what it is.
LEMMA TotalOfOneMore ==
  ASSUME NEW ns \in Seq(Nat), NEW v \in Nat
  PROVE  Total(Append(ns, v)) = Total(ns) + v
<1>. DEFINE n == Len(ns)
            ms == Append(ns, v)
<1>1. /\ n \in Nat /\ ms \in Seq(Nat) /\ Len(ms) = n + 1 /\ ms[n + 1] = v
      /\ \A i \in 1 .. n : ms[i] = ns[i] /\ ns[i] \in Nat
      /\ \A i \in 1 .. n + 1 : ms[i] \in Nat
  OBVIOUS
<1>. HIDE DEF n, ms
<1>2. n + 1 \in 1 .. n + 1 /\ (1 .. n + 1) \ {n + 1} = 1 .. n
  BY <1>1
<1>3. IsFiniteSet(1 .. n + 1) /\ IsFiniteSet(1 .. n)
  BY <1>1, FS_Interval
<1>4. Sum(ms, 1 .. n + 1) = ms[n + 1] + Sum(ms, (1 .. n + 1) \ {n + 1})
  BY <1>1, <1>2, <1>3, SumFirst
<1>5. Sum(ms, 1 .. n) = Sum(ns, 1 .. n)
  BY <1>1, <1>3, SumSame
<1>6. Total(ms) = Sum(ms, 1 .. n + 1) /\ Total(ns) = Sum(ns, 1 .. n)
  BY <1>1, TotalIsSum DEF n
<1>7. Total(ns) \in Nat
  BY TotalIsNumber
<1>8. Total(ms) = v + Total(ns)
  BY <1>1, <1>2, <1>4, <1>5, <1>6
<1>9. Total(ms) = Total(ns) + v
  BY <1>7, <1>8
<1>. QED
  BY <1>9 DEF ms

\* One note.
LEMMA TotalOfOne == ASSUME NEW v \in Nat PROVE Total(<<v>>) = v
<1>1. <<v>> = Append(<<>>, v) /\ <<>> \in Seq(Nat)
  OBVIOUS
<1>2. Total(Append(<<>>, v)) = Total(<<>>) + v
  BY <1>1, TotalOfOneMore
<1>3. Total(Append(<<>>, v)) = v
  BY <1>2, TotalOfNone
<1>. QED
  BY <1>1, <1>3

\* Two lists, one after the other.
LEMMA TotalOfBoth ==
  ASSUME NEW a \in Seq(Nat), NEW b \in Seq(Nat)
  PROVE  Total(a \o b) = Total(a) + Total(b)
<1>. DEFINE I == {n \in Nat : \A c \in Seq(Nat) :
                    Len(c) = n => Total(a \o c) = Total(a) + Total(c)}
<1>1. 0 \in I
  <2> SUFFICES ASSUME NEW c \in Seq(Nat), Len(c) = 0 PROVE Total(a \o c) = Total(a) + Total(c)
    OBVIOUS
  <2>1. c = <<>> /\ a \o c = a
    BY EmptySeq, ConcatEmptySeq
  <2>. QED
    BY <2>1, TotalOfNone, TotalIsNumber
<1>2. ASSUME NEW n \in Nat, n \in I PROVE n + 1 \in I
  <2> SUFFICES ASSUME NEW c \in Seq(Nat), Len(c) = n + 1
               PROVE  Total(a \o c) = Total(a) + Total(c)
    OBVIOUS
  <2>. DEFINE f == SubSeq(c, 1, n)
              x == c[n + 1]
  <2>1. /\ f \in Seq(Nat) /\ Len(f) = n /\ x \in Nat
        /\ \A i \in 1 .. n : f[i] = c[i]
    OBVIOUS
  <2>2. c = Append(f, x)
    OBVIOUS
  <2>. HIDE DEF f, x
  <2>3. a \o c = Append(a \o f, x) /\ a \o f \in Seq(Nat)
    BY <2>1, <2>2
  <2>4. Total(a \o f) = Total(a) + Total(f)
    BY <1>2, <2>1
  <2>5. Total(a \o c) = Total(a \o f) + x
    BY <2>1, <2>3, TotalOfOneMore
  <2>6. Total(c) = Total(f) + x
    BY <2>1, <2>2, TotalOfOneMore
  <2>7. Total(a) \in Nat /\ Total(f) \in Nat
    BY <2>1, TotalIsNumber
  <2>. QED
    BY <2>1, <2>4, <2>5, <2>6, <2>7
<1>. HIDE DEF I
<1>3. Nat \subseteq I
  BY <1>1, <1>2, TreeSide!Induction
<1>4. Len(b) \in I
  BY <1>3
<1>. QED
  BY <1>4 DEF I

\* A set of numbers has a smallest.
LEMMA MinOf ==
  ASSUME NEW S \in SUBSET Nat, S # {}
  PROVE  Desk!Min(S) \in S /\ \A y \in S : Desk!Min(S) <= y
<1>. DEFINE I == {n \in Nat : \A m \in 0 .. n : m \notin S}
            P(x) == x \in S /\ \A y \in S : x <= y
<1>1. \E x : P(x)
  <2> SUFFICES ASSUME ~ \E x : P(x) PROVE FALSE
    OBVIOUS
  <2>1. 0 \in I
    OBVIOUS
  <2>2. ASSUME NEW n \in Nat, n \in I PROVE n + 1 \in I
    <3>1. n + 1 \notin S
      <4> SUFFICES ASSUME n + 1 \in S PROVE FALSE
        OBVIOUS
      <4>1. \A y \in S : n + 1 <= y
        BY <2>2
      <4>. QED
        BY <4>1
    <3>2. \A m \in 0 .. n + 1 : m = n + 1 \/ m \in 0 .. n
      OBVIOUS
    <3>. QED
      BY <2>2, <3>1, <3>2
  <2>. HIDE DEF I
  <2>3. Nat \subseteq I
    BY <2>1, <2>2, TreeSide!Induction
  <2>. QED
    BY <2>3 DEF I
<1>2. P(CHOOSE x : P(x))
  BY <1>1
<1>. QED
  BY <1>2 DEF Desk!Min

\* A note that is not in the list cannot be taken out.
LEMMA NothingToRemove ==
  ASSUME NEW q \in Seq(Nat), NEW v, \A i \in 1 .. Len(q) : q[i] # v
  PROVE  Desk!RemoveFirst(q, v) = q
BY DEF Desk!RemoveFirst

\* One note is taken out of the list, and those behind it move up.
LEMMA RemoveFirstTakesOne ==
  ASSUME NEW q \in Seq(Nat), NEW v \in Nat, \E i \in 1 .. Len(q) : q[i] = v
  PROVE  LET r == Desk!RemoveFirst(q, v) IN
         /\ r \in Seq(Nat) /\ Len(r) = Len(q) - 1
         /\ \E p \in 1 .. Len(q) :
              /\ q[p] = v
              /\ \A i \in 1 .. p - 1 : r[i] = q[i]
              /\ \A i \in p .. Len(q) - 1 : r[i] = q[i + 1]
         /\ Total(r) + v = Total(q)
<1>. DEFINE S == {i \in 1 .. Len(q) : q[i] = v}
            p == Desk!Min(S)
            a == SubSeq(q, 1, p - 1)
            b == SubSeq(q, p + 1, Len(q))
            r == a \o b
<1>1. p \in S
  <2>1. S \in SUBSET Nat /\ S # {}
    OBVIOUS
  <2>. HIDE DEF S
  <2>. QED
    BY <2>1, MinOf
<1>2. Desk!RemoveFirst(q, v) = r
  <2>1. Desk!SelectInSeq(q, LAMBDA u : u = v) = p
    BY <1>1 DEF Desk!SelectInSeq
  <2>. HIDE DEF p, S
  <2>. QED
    BY <2>1 DEF Desk!RemoveFirst, Desk!RemoveAt
<1>3. p \in 1 .. Len(q) /\ q[p] = v
  BY <1>1
<1>. HIDE DEF S, p
<1>4. /\ a \in Seq(Nat) /\ Len(a) = p - 1 /\ \A i \in 1 .. p - 1 : a[i] = q[i]
      /\ b \in Seq(Nat) /\ Len(b) = Len(q) - p /\ \A i \in 1 .. Len(q) - p : b[i] = q[p + i]
  BY <1>3
<1>5. q = Append(a, v) \o b
  <2>1. Append(a, v) \in Seq(Nat) /\ Len(Append(a, v)) = p /\ \A i \in 1 .. p : Append(a, v)[i] = q[i]
    BY <1>3, <1>4
  <2>. DEFINE c == Append(a, v)
  <2>. HIDE DEF c, a, b
  <2>5. c \in Seq(Nat) /\ Len(c) = p /\ \A i \in 1 .. p : c[i] = q[i]
    BY <2>1 DEF c
  <2>6. /\ c \o b \in Seq(Nat) /\ Len(c \o b) = p + (Len(q) - p)
        /\ \A i \in 1 .. p + (Len(q) - p) : (c \o b)[i] = IF i <= p THEN c[i] ELSE b[i - p]
    <3>1. c \in Seq(Nat) /\ b \in Seq(Nat)
      BY <1>4, <2>5
    <3>2. /\ c \o b \in Seq(Nat) /\ Len(c \o b) = Len(c) + Len(b)
          /\ \A i \in 1 .. Len(c) + Len(b) :
               (c \o b)[i] = IF i <= Len(c) THEN c[i] ELSE b[i - Len(c)]
      BY ONLY <3>1, ConcatProperties
    <3>3. Len(c) = p /\ Len(b) = Len(q) - p
      BY <1>4, <2>5
    <3>. QED
      BY ONLY <3>2, <3>3
  <2>7. p \in Int /\ Len(q) \in Nat /\ 1 <= p /\ p <= Len(q) /\ p + (Len(q) - p) = Len(q)
    BY <1>3
  <2>2. c \o b \in Seq(Nat) /\ Len(c \o b) = Len(q)
    BY <2>6, <2>7
  <2>3. ASSUME NEW i \in 1 .. Len(q) PROVE (c \o b)[i] = q[i]
    <3>0. i \in Int /\ 1 <= i /\ i <= Len(q) /\ (c \o b)[i] = IF i <= p THEN c[i] ELSE b[i - p]
      BY <2>6, <2>7
    <3>1. CASE i <= p
      <4>1. i \in 1 .. p
        BY <2>7, <3>0, <3>1
      <4>. QED
        BY <2>5, <3>0, <3>1, <4>1
    <3>2. CASE ~ (i <= p)
      <4>1. i - p \in 1 .. Len(q) - p /\ p + (i - p) = i
        BY <2>7, <3>0, <3>2
      <4>. QED
        BY <1>4, <3>0, <3>2, <4>1
    <3>. QED
      BY <3>1, <3>2
  <2>4. c \o b = q
    BY <2>2, <2>3, SeqEqual
  <2>. QED
    BY <2>4 DEF c
<1>. HIDE DEF a, b
<1>6. Total(q) = Total(Append(a, v)) + Total(b) /\ Total(Append(a, v)) = Total(a) + v
  <2>1. Append(a, v) \in Seq(Nat)
    BY <1>4
  <2>2. Total(Append(a, v) \o b) = Total(Append(a, v)) + Total(b)
    BY <1>4, <2>1, TotalOfBoth
  <2>. QED
    BY <1>4, <1>5, <2>2, TotalOfOneMore
<1>7. Total(r) = Total(a) + Total(b) /\ Total(a) \in Nat /\ Total(b) \in Nat
  BY <1>4, TotalOfBoth, TotalIsNumber
<1>8. Total(r) + v = Total(q)
  BY <1>6, <1>7
<1>11. /\ r \in Seq(Nat) /\ Len(r) = (p - 1) + (Len(q) - p)
       /\ \A i \in 1 .. (p - 1) + (Len(q) - p) :
            r[i] = IF i <= p - 1 THEN a[i] ELSE b[i - (p - 1)]
  <2>1. a \in Seq(Nat) /\ b \in Seq(Nat)
    BY <1>4
  <2>2. /\ a \o b \in Seq(Nat) /\ Len(a \o b) = Len(a) + Len(b)
        /\ \A i \in 1 .. Len(a) + Len(b) :
             (a \o b)[i] = IF i <= Len(a) THEN a[i] ELSE b[i - Len(a)]
    BY ONLY <2>1, ConcatProperties
  <2>3. Len(a) = p - 1 /\ Len(b) = Len(q) - p
    BY <1>4
  <2>. QED
    BY ONLY <2>2, <2>3
<1>12. /\ p \in Int /\ Len(q) \in Nat /\ 1 <= p /\ p <= Len(q)
       /\ (p - 1) + (Len(q) - p) = Len(q) - 1
  BY <1>3
<1>9. r \in Seq(Nat) /\ Len(r) = Len(q) - 1
  BY <1>11, <1>12
<1>10. /\ \A i \in 1 .. p - 1 : r[i] = q[i]
       /\ \A i \in p .. Len(q) - 1 : r[i] = q[i + 1]
  <2>0. \A i \in 1 .. Len(q) - 1 : r[i] = IF i <= p - 1 THEN a[i] ELSE b[i - (p - 1)]
    BY <1>11, <1>12
  <2>1. ASSUME NEW i \in 1 .. p - 1 PROVE r[i] = q[i]
    <3>1. i \in 1 .. Len(q) - 1 /\ i <= p - 1
      BY <1>12
    <3>. QED
      BY <1>4, <2>0, <3>1
  <2>2. ASSUME NEW i \in p .. Len(q) - 1 PROVE r[i] = q[i + 1]
    <3>1. i - (p - 1) \in 1 .. Len(q) - p /\ p + (i - (p - 1)) = i + 1
      BY <1>12
    <3>3. i \in 1 .. Len(q) - 1 /\ ~ (i <= p - 1)
      BY <1>12
    <3>2. r[i] = b[i - (p - 1)]
      BY <2>0, <3>3
    <3>. QED
      BY <1>4, <3>1, <3>2
  <2>. QED
    BY <2>1, <2>2
<1>. HIDE DEF r
<1>. QED
  BY <1>2, <1>3, <1>8, <1>9, <1>10

\* The notes of the plan that are left to withdraw, R, are all in q, each at a place of its own.
Fits(q, R, plan) ==
  \E h \in [R -> 1 .. Len(q)] :
    /\ \A i, j \in R : h[i] = h[j] => i = j
    /\ \A i \in R : q[h[i]] = plan[i]

\* When one of the notes of the plan is withdrawn, the others are still in what is left.
LEMMA FitsOneLess ==
  ASSUME NEW q \in Seq(Nat), NEW R, NEW plan, NEW x \in R, plan[x] \in Nat, Fits(q, R, plan)
  PROVE  /\ \E i \in 1 .. Len(q) : q[i] = plan[x]
         /\ Fits(Desk!RemoveFirst(q, plan[x]), R \ {x}, plan)
<1>. DEFINE v == plan[x]
            r == Desk!RemoveFirst(q, v)
            T == R \ {x}
<1>1. PICK h \in [R -> 1 .. Len(q)] :
        /\ \A i, j \in R : h[i] = h[j] => i = j
        /\ \A i \in R : q[h[i]] = plan[i]
  BY DEF Fits
<1>2. \E i \in 1 .. Len(q) : q[i] = v
  BY <1>1
<1>3. /\ r \in Seq(Nat) /\ Len(r) = Len(q) - 1
      /\ \E p \in 1 .. Len(q) :
           /\ q[p] = v
           /\ \A i \in 1 .. p - 1 : r[i] = q[i]
           /\ \A i \in p .. Len(q) - 1 : r[i] = q[i + 1]
  BY <1>2, RemoveFirstTakesOne
<1>4. PICK p \in 1 .. Len(q) :
           /\ q[p] = v
           /\ \A i \in 1 .. p - 1 : r[i] = q[i]
           /\ \A i \in p .. Len(q) - 1 : r[i] = q[i + 1]
  BY <1>3
<1>. HIDE DEF r
<1>. DEFINE h2 == [i \in T |-> IF h[i] = p THEN h[x] ELSE h[i]]
            h3 == [i \in T |-> IF h2[i] > p THEN h2[i] - 1 ELSE h2[i]]
<1>5. ASSUME NEW i \in T
      PROVE  h2[i] \in 1 .. Len(q) /\ h2[i] # p /\ q[h2[i]] = plan[i]
  <2>1. h[i] # h[x]
    BY <1>1
  <2>. QED
    BY <1>1, <1>4, <2>1
<1>6. ASSUME NEW i \in T, NEW j \in T, h2[i] = h2[j] PROVE i = j
  BY <1>1, <1>6
<1>. HIDE DEF h2
<1>7. ASSUME NEW i \in T PROVE h3[i] \in 1 .. Len(r) /\ r[h3[i]] = plan[i]
  <2>. DEFINE k == h2[i]
  <2>0. /\ k \in Int /\ 1 <= k /\ k <= Len(q) /\ k # p /\ q[k] = plan[i]
        /\ p \in Int /\ 1 <= p /\ p <= Len(q) /\ Len(q) \in Nat /\ Len(r) = Len(q) - 1
        /\ h3[i] = IF k > p THEN k - 1 ELSE k
    BY <1>3, <1>4, <1>5
  <2>. HIDE DEF k, h3
  <2>1. CASE k > p
    <3>1. h3[i] = k - 1 /\ k - 1 \in p .. Len(q) - 1 /\ (k - 1) + 1 = k /\ k - 1 \in 1 .. Len(r)
      BY <2>0, <2>1
    <3>2. r[k - 1] = q[(k - 1) + 1]
      BY <1>4, <3>1
    <3>3. r[k - 1] = q[k]
      BY <3>1, <3>2
    <3>. QED
      BY <2>0, <3>1, <3>3
  <2>2. CASE ~ (k > p)
    <3>1. h3[i] = k /\ k \in 1 .. p - 1 /\ k \in 1 .. Len(r)
      BY <2>0, <2>2
    <3>2. r[k] = q[k]
      BY <1>4, <3>1
    <3>. QED
      BY <2>0, <3>1, <3>2
  <2>. QED
    BY <2>1, <2>2
<1>8. ASSUME NEW i \in T, NEW j \in T, h3[i] = h3[j] PROVE i = j
  <2>2. /\ h2[i] \in Int /\ h2[i] # p /\ h2[j] \in Int /\ h2[j] # p /\ p \in Int
        /\ h3[i] = IF h2[i] > p THEN h2[i] - 1 ELSE h2[i]
        /\ h3[j] = IF h2[j] > p THEN h2[j] - 1 ELSE h2[j]
    BY <1>5
  <2>. HIDE DEF h3
  <2>3. h3[i] = h3[j]
    BY <1>8
  <2>. DEFINE k == h2[i]
              m == h2[j]
  <2>4. /\ k \in Int /\ k # p /\ m \in Int /\ m # p /\ p \in Int
        /\ (IF k > p THEN k - 1 ELSE k) = (IF m > p THEN m - 1 ELSE m)
    BY <2>2, <2>3
  <2>. HIDE DEF k, m
  <2>5. k = m
    BY ONLY <2>4
  <2>1. h2[i] = h2[j]
    BY <2>5 DEF k, m
  <2>. QED
    BY <1>6, <2>1
<1>9. h3 \in [T -> 1 .. Len(r)]
  BY <1>7
<1>. HIDE DEF h3
<1>10. Fits(r, T, plan)
  <2>1. /\ \A i, j \in T : h3[i] = h3[j] => i = j
        /\ \A i \in T : r[h3[i]] = plan[i]
    BY <1>7, <1>8
  <2>. HIDE DEF T
  <2>. QED
    BY <1>9, <2>1 DEF Fits
<1>. QED
  BY <1>2, <1>10 DEF r

\* The function of which what is left without a plan is a value.
Takes(it, ns, plan) ==
  it = [s \in SUBSET DOMAIN plan |->
         IF s = {} THEN ns
         ELSE Desk!RemoveFirst(it[s \ {CHOOSE x \in s : TRUE}], plan[CHOOSE x \in s : TRUE])]

\* What is left without a plan is the value of such a function at the whole plan.
LEMMA WithoutOf ==
  ASSUME NEW ns, NEW plan
  PROVE  Desk!Without(ns, plan) = (CHOOSE it : Takes(it, ns, plan))[DOMAIN plan]
BY DEF Takes, Desk!Without, Desk!FoldSeq, Desk!FoldFunction, Desk!FoldFunctionOnSet,
       Desk!MapThenFoldSet

\* What is left without a note is a list of notes.
LEMMA RemoveFirstIsAList ==
  ASSUME NEW q \in Seq(Nat), NEW v \in Nat
  PROVE  Desk!RemoveFirst(q, v) \in Seq(Nat)
<1>1. CASE \E i \in 1 .. Len(q) : q[i] = v
  BY <1>1, RemoveFirstTakesOne
<1>2. CASE \A i \in 1 .. Len(q) : q[i] # v
  BY <1>2, NothingToRemove
<1>. QED
  BY <1>1, <1>2

\* There is such a function.
LEMMA TakesExist ==
  ASSUME NEW ns \in Seq(Nat), NEW plan \in Seq(Nat)
  PROVE  Takes(CHOOSE it : Takes(it, ns, plan), ns, plan)
<1>. DEFINE op == [p \in Nat \X Seq(Nat) |-> Desk!RemoveFirst(p[2], p[1])]
            D == DOMAIN plan
<1>1. /\ op \in [Nat \X Seq(Nat) -> Seq(Nat)]
      /\ \A v \in Nat, q \in Seq(Nat) : op[<<v, q>>] = Desk!RemoveFirst(q, v)
  BY RemoveFirstIsAList
<1>2. IsFiniteSet(D) /\ \A x \in D : plan[x] \in Nat
  <2>1. D = 1 .. Len(plan) /\ 1 \in Int /\ Len(plan) \in Int
    OBVIOUS
  <2>2. IsFiniteSet(1 .. Len(plan))
    BY <2>1, FS_Interval
  <2>3. \A x \in D : plan[x] \in Nat
    OBVIOUS
  <2>. QED
    BY <2>1, <2>2, <2>3
<1>. HIDE DEF op, D
<1>3. PICK it \in [SUBSET D -> Seq(Nat)] : Folds(it, op, ns, plan, D)
  <2>1. \E it \in [SUBSET D -> Seq(Nat)] : Folds(it, op, ns, plan, D)
    BY <1>1, <1>2, FoldExists
  <2>. QED
    BY <2>1
<1>4. ASSUME NEW s \in SUBSET D
      PROVE  it[s] = IF s = {} THEN ns
                     ELSE Desk!RemoveFirst(it[s \ {Any(s)}], plan[Any(s)])
  <2>1. CASE s = {}
    BY <1>3, <2>1 DEF Folds
  <2>2. CASE s # {}
    <3>1. Any(s) \in D
      BY <2>2, AnyOf
    <3>2. plan[Any(s)] \in Nat /\ it[s \ {Any(s)}] \in Seq(Nat)
      BY <1>2, <3>1
    <3>3. it[s] = op[<<plan[Any(s)], it[s \ {Any(s)}]>>]
      BY <1>3, <2>2 DEF Folds
    <3>. QED
      BY <1>1, <2>2, <3>2, <3>3
  <2>. QED
    BY <2>1, <2>2
<1>5. Takes(it, ns, plan)
  <2>1. it = [s \in SUBSET D |-> it[s]]
    BY <1>3
  <2>. QED
    BY <1>4, <2>1 DEF Takes, Any, D
<1>. QED
  BY <1>5

\* Withdrawing the notes of a plan leaves what they do not add up to.
LEMMA WithoutThePlan ==
  ASSUME NEW ns \in Seq(Nat), NEW plan \in Seq(Nat), Fits(ns, DOMAIN plan, plan)
  PROVE  /\ Desk!Without(ns, plan) \in Seq(Nat)
         /\ Total(Desk!Without(ns, plan)) + Total(plan) = Total(ns)
<1>. DEFINE D == DOMAIN plan
            it == CHOOSE i : Takes(i, ns, plan)
            Good(s) == /\ it[s] \in Seq(Nat) /\ Fits(it[s], D \ s, plan)
                       /\ Total(it[s]) + Sum(plan, s) = Total(ns)
            I == {n \in Nat : \A s \in SUBSET D : Cardinality(s) = n => Good(s)}
<1>1. Takes(it, ns, plan) /\ Desk!Without(ns, plan) = it[D]
  BY TakesExist, WithoutOf
<1>2. IsFiniteSet(D) /\ \A x \in D : plan[x] \in Nat
  <2>1. D = 1 .. Len(plan) /\ 1 \in Int /\ Len(plan) \in Int
    OBVIOUS
  <2>2. IsFiniteSet(1 .. Len(plan))
    BY <2>1, FS_Interval
  <2>3. \A x \in D : plan[x] \in Nat
    OBVIOUS
  <2>. QED
    BY <2>1, <2>2, <2>3
<1>. HIDE DEF it
<1>3. it[{}] = ns /\ \A s \in SUBSET D :
        s # {} => it[s] = Desk!RemoveFirst(it[s \ {Any(s)}], plan[Any(s)])
  BY <1>1 DEF Takes, Any
<1>. HIDE DEF D
<1>4. Good({})
  <2>1. D \ {} = D
    OBVIOUS
  <2>2. Total(ns) \in Nat /\ Sum(plan, {}) = 0
    BY TotalIsNumber, SumEmpty
  <2>3. it[{}] \in Seq(Nat)
    BY <1>3
  <2>4. Fits(it[{}], D \ {}, plan)
    BY <1>3, <2>1 DEF D
  <2>5. Total(it[{}]) = Total(ns)
    BY <1>3
  <2>6. Total(it[{}]) + Sum(plan, {}) = Total(ns)
    BY ONLY <2>2, <2>5
  <2>. QED
    BY ONLY <2>3, <2>4, <2>6
<1>5. ASSUME NEW s \in SUBSET D
      PROVE  IsFiniteSet(s) /\ Cardinality(s) \in Nat /\ (Cardinality(s) = 0 <=> s = {})
  <2>1. IsFiniteSet(s)
    BY <1>2, FS_Subset
  <2>. QED
    BY <2>1, FS_CardinalityType, FS_EmptySet
<1>6. ASSUME NEW s \in SUBSET D, s # {}, Good(s \ {Any(s)}) PROVE Good(s)
  <2>. DEFINE x == Any(s)
              t == s \ {x}
              q == it[t]
              R == D \ t
  <2>1. x \in s /\ x \in D /\ plan[x] \in Nat
    BY <1>2, <1>6, AnyOf
  <2>2. it[s] = Desk!RemoveFirst(q, plan[x])
    BY <1>3, <1>6
  <2>3. x \in R /\ R \ {x} = D \ s
    BY <2>1
  <2>4. q \in Seq(Nat) /\ Fits(q, R, plan) /\ Total(q) + Sum(plan, t) = Total(ns)
    BY <1>6
  <2>5. /\ Sum(plan, s) \in Nat /\ Sum(plan, t) \in Nat
        /\ Sum(plan, s) = plan[x] + Sum(plan, t)
    <3>1. IsFiniteSet(s) /\ \A y \in s : plan[y] \in Nat
      BY <1>2, <1>5
    <3>. HIDE DEF x
    <3>. QED
      BY <2>1, <3>1, SumFirst
  <2>. HIDE DEF x, t, q, R
  <2>6. /\ \E i \in 1 .. Len(q) : q[i] = plan[x]
        /\ Fits(Desk!RemoveFirst(q, plan[x]), R \ {x}, plan)
    BY <2>1, <2>3, <2>4, FitsOneLess
  <2>7. /\ Desk!RemoveFirst(q, plan[x]) \in Seq(Nat)
        /\ Total(Desk!RemoveFirst(q, plan[x])) + plan[x] = Total(q)
    BY <2>1, <2>4, <2>6, RemoveFirstTakesOne
  <2>8. Total(Desk!RemoveFirst(q, plan[x])) \in Nat /\ Total(q) \in Nat
    BY <2>4, <2>7, TotalIsNumber
  <2>9. Total(it[s]) + Sum(plan, s) = Total(ns)
    BY <2>1, <2>2, <2>4, <2>5, <2>7, <2>8
  <2>. QED
    BY <2>2, <2>3, <2>6, <2>7, <2>9
<1>. HIDE DEF Good
<1>7. 0 \in I
  BY <1>4, <1>5
<1>8. ASSUME NEW n \in Nat, n \in I PROVE n + 1 \in I
  <2> SUFFICES ASSUME NEW s \in SUBSET D, Cardinality(s) = n + 1 PROVE Good(s)
    OBVIOUS
  <2>1. s # {}
    BY <1>5
  <2>2. Any(s) \in s
    BY <2>1, AnyOf
  <2>4. IsFiniteSet(s) /\ Cardinality(s) = n + 1 /\ n \in Nat
    BY <1>5, <1>8
  <2>6. Cardinality(s \ {Any(s)}) = Cardinality(s) - 1
    BY ONLY <2>2, <2>4, FS_RemoveElement
  <2>5. Cardinality(s \ {Any(s)}) = n
    BY ONLY <2>4, <2>6
  <2>3. s \ {Any(s)} \in SUBSET D /\ Cardinality(s \ {Any(s)}) = n
    BY <2>5
  <2>. QED
    BY <1>6, <1>8, <2>1, <2>3
<1>. HIDE DEF I
<1>9. Nat \subseteq I
  BY <1>7, <1>8, TreeSide!Induction
<1>10. Good(D)
  BY <1>5, <1>9 DEF I
<1>11. Total(plan) = Sum(plan, D)
  <2>1. D = 1 .. Len(plan)
    BY DEF D
  <2>. QED
    BY <2>1, TotalIsSum
<1>. QED
  BY <1>1, <1>10, <1>11 DEF Good

-----------------------------------------------------------------------------
(* Splitting a note *)

\* The plan of splitNote takes notes that are there and are enough; one note if and only if
\* there is one that is large enough.
LEMMA PlanIsEnough ==
  ASSUME NEW ns \in Seq(Nat), NEW v \in Nat \ {0}, Total(ns) >= v
  PROVE  LET plan == Desk!ToWithdraw(ns, v) IN
         /\ plan \in Seq(Nat) /\ Fits(ns, DOMAIN plan, plan) /\ Total(plan) >= v
         /\ Desk!Larger(ns, v) # {} => Len(plan) = 1
         /\ Desk!Larger(ns, v) = {} /\ (\A i \in 1 .. Len(ns) : ns[i] # v) => Len(plan) # 1
<1>. DEFINE plan == Desk!ToWithdraw(ns, v)
            L == Desk!Larger(ns, v)
            K == {k \in 0 .. Len(ns) : Total(SubSeq(ns, 1, k)) >= v}
            k == Desk!Min(K)
<1>1. CASE L # {}
  <2>. DEFINE m == Desk!Min(L)
  <2>1. L = {i \in 1 .. Len(ns) : ns[i] > v}
    BY DEF Desk!Larger
  <2>2. m \in L
    <3>1. L \in SUBSET Nat
      BY <2>1
    <3>. HIDE DEF L
    <3>. QED
      BY <1>1, <3>1, MinOf
  <2>3. plan = <<ns[m]>>
    BY <1>1 DEF Desk!ToWithdraw
  <2>. HIDE DEF m
  <2>4. m \in 1 .. Len(ns) /\ ns[m] > v /\ ns[m] \in Nat
    BY <2>1, <2>2
  <2>5. plan \in Seq(Nat) /\ Len(plan) = 1 /\ DOMAIN plan = {1} /\ plan[1] = ns[m]
    BY <2>3, <2>4
  <2>6. Total(plan) = ns[m]
    BY <2>3, <2>4, TotalOfOne
  <2>. HIDE DEF plan, L
  <2>7. Fits(ns, DOMAIN plan, plan)
    <3>. DEFINE h == [i \in {1} |-> m]
    <3>1. h \in [{1} -> 1 .. Len(ns)] /\ h[1] = m
      BY <2>4
    <3>. HIDE DEF h
    <3>. QED
      BY <2>5, <3>1 DEF Fits
  <2>. QED
    BY <1>1, <2>4, <2>5, <2>6, <2>7 DEF plan, L
<1>2. CASE L = {}
  <2>1. SubSeq(ns, 1, Len(ns)) = ns
    BY SubSeqFull
  <2>11. Len(ns) \in 0 .. Len(ns)
    OBVIOUS
  <2>12. Total(SubSeq(ns, 1, Len(ns))) = Total(ns)
    BY <2>1
  <2>9. Len(ns) \in 0 .. Len(ns) /\ Total(SubSeq(ns, 1, Len(ns))) >= v
    BY ONLY <2>11, <2>12, Total(ns) >= v
  <2>10. K \in SUBSET Nat
    OBVIOUS
  <2>2. Len(ns) \in K /\ K # {}
    BY <2>9
  <2>3. k \in K
    <3>. HIDE DEF K
    <3>. QED
      BY <2>2, <2>10, MinOf
  <2>4. plan = SubSeq(ns, 1, k)
    BY <1>2 DEF Desk!ToWithdraw, Total
  <2>. HIDE DEF k
  <2>5. k \in 0 .. Len(ns) /\ Total(SubSeq(ns, 1, k)) >= v
    BY <2>3
  <2>6. /\ plan \in Seq(Nat) /\ Len(plan) = k /\ DOMAIN plan = 1 .. k
        /\ \A i \in 1 .. k : plan[i] = ns[i]
    BY <2>4, <2>5
  <2>. HIDE DEF plan, L, K
  <2>7. Fits(ns, DOMAIN plan, plan)
    <3>. DEFINE h == [i \in 1 .. k |-> i]
    <3>1. /\ h \in [1 .. k -> 1 .. Len(ns)]
          /\ \A i, j \in 1 .. k : h[i] = h[j] => i = j
          /\ \A i \in 1 .. k : ns[h[i]] = plan[i]
      BY <2>5, <2>6
    <3>. HIDE DEF h
    <3>2. Fits(ns, 1 .. k, plan)
      BY <3>1 DEF Fits
    <3>. QED
      BY <2>6, <3>2
  <2>8. ASSUME \A i \in 1 .. Len(ns) : ns[i] # v, Len(plan) = 1 PROVE FALSE
    <3>1. k = 1 /\ 1 \in 1 .. Len(ns) /\ ns[1] \in Nat
      BY <2>5, <2>6, <2>8
    <3>2. plan = <<ns[1]>>
      <4>1. /\ <<ns[1]>> \in Seq(Nat) /\ Len(<<ns[1]>>) = 1 /\ <<ns[1]>>[1] = ns[1]
            /\ plan \in Seq(Nat) /\ Len(plan) = 1 /\ plan[1] = ns[1]
        BY <2>6, <3>1
      <4>2. \A i \in 1 .. Len(plan) : plan[i] = <<ns[1]>>[i]
        BY <4>1
      <4>. QED
        BY <4>1, <4>2, SeqEqual
    <3>3. Total(plan) = ns[1]
      BY <3>1, <3>2, TotalOfOne
    <3>4. ns[1] > v
      BY <2>4, <2>5, <2>8, <3>1, <3>3
    <3>. QED
      BY <1>2, <3>1, <3>4 DEF L, Desk!Larger
  <2>. QED
    BY <1>2, <2>4, <2>5, <2>6, <2>7, <2>8 DEF plan, L
<1>. HIDE DEF plan, L
<1>. QED
  BY <1>1, <1>2 DEF plan, L

\* Whatever step it stops after, splitNote leaves no more in the notes than there was.
LEMMA SplitLosesNothing ==
  ASSUME NEW ns \in Seq(Nat), NEW v \in Nat \ {0}, Total(ns) >= v,
         NEW done \in 1 .. Len(Desk!ToWithdraw(ns, v)) + 1
  PROVE  /\ Desk!AfterSplit(ns, v, done) \in Seq(Nat)
         /\ Total(Desk!AfterSplit(ns, v, done)) <= Total(ns)
<1>. DEFINE plan == Desk!ToWithdraw(ns, v)
<1>1. plan \in Seq(Nat) /\ Fits(ns, DOMAIN plan, plan) /\ Total(plan) >= v
  BY PlanIsEnough
<1>. HIDE DEF plan
<1>2. Total(ns) \in Nat
  BY TotalIsNumber
<1>3. CASE done > Len(plan)
  <2>. DEFINE rest == Desk!Without(ns, plan)
  <2>1. rest \in Seq(Nat) /\ Total(rest) + Total(plan) = Total(ns)
    BY <1>1, WithoutThePlan
  <2>2. Desk!AfterSplit(ns, v, done) = Append(rest, v)
    BY <1>3 DEF Desk!AfterSplit, plan
  <2>. HIDE DEF rest
  <2>3. Append(rest, v) \in Seq(Nat) /\ Total(Append(rest, v)) = Total(rest) + v
    BY <2>1, TotalOfOneMore
  <2>4. Total(rest) \in Nat /\ Total(plan) \in Nat
    BY <1>1, <2>1, TotalIsNumber
  <2>. QED
    BY <1>1, <1>2, <2>1, <2>2, <2>3, <2>4
<1>4. CASE ~ (done > Len(plan))
  <2>. DEFINE piece == SubSeq(plan, 1, done)
              rest == Desk!Without(ns, piece)
  <2>1. done \in 1 .. Len(plan)
    BY <1>1, <1>4 DEF plan
  <2>2. /\ piece \in Seq(Nat) /\ DOMAIN piece = 1 .. done
        /\ \A i \in 1 .. done : piece[i] = plan[i] /\ i \in DOMAIN plan
    BY <1>1, <2>1
  <2>. HIDE DEF piece
  <2>3. Fits(ns, DOMAIN piece, piece)
    <3>1. PICK h \in [DOMAIN plan -> 1 .. Len(ns)] :
            /\ \A i, j \in DOMAIN plan : h[i] = h[j] => i = j
            /\ \A i \in DOMAIN plan : ns[h[i]] = plan[i]
      BY <1>1 DEF Fits
    <3>. DEFINE f == [i \in 1 .. done |-> h[i]]
    <3>2. /\ f \in [1 .. done -> 1 .. Len(ns)]
          /\ \A i, j \in 1 .. done : f[i] = f[j] => i = j
          /\ \A i \in 1 .. done : ns[f[i]] = piece[i]
      BY <2>2, <3>1
    <3>. HIDE DEF f
    <3>3. Fits(ns, 1 .. done, piece)
      BY <3>2 DEF Fits
    <3>. QED
      BY <2>2, <3>3
  <2>4. rest \in Seq(Nat) /\ Total(rest) + Total(piece) = Total(ns)
    BY <2>2, <2>3, WithoutThePlan
  <2>5. Desk!AfterSplit(ns, v, done) = rest
    BY <1>4 DEF Desk!AfterSplit, plan, piece
  <2>. HIDE DEF rest
  <2>6. Total(rest) \in Nat /\ Total(piece) \in Nat
    BY <2>2, <2>4, TotalIsNumber
  <2>. QED
    BY <1>2, <2>4, <2>5, <2>6
<1>. QED
  BY <1>3, <1>4

-----------------------------------------------------------------------------
(* The user before the pages (Desk): his state *)

\* What a user has: an account without XLM holds nothing else, for whatever gives it
\* something needs the reserve to be there.
Holdings ==
  /\ pub \in [Desk!Assets -> Nat] /\ notes \in [Desk!Assets -> Seq(Nat)]
  /\ pub["XLM"] = 0 => pub["USDC"] = 0 /\ notes["XLM"] = <<>> /\ notes["USDC"] = <<>>

Entries == [asset : Desk!Assets, processed : BOOLEAN]
Kinds == {"credit", "pending"}

DeskInv ==
  /\ Holdings
  /\ queue \in Seq(Entries)
  /\ \E S : audits \in Seq(S)
  /\ encrypted \in Seq(Kinds) /\ lag \in Nat /\ horizon \in BOOLEAN

\* The balance and the notes of one asset change while there is XLM, and leave some.
LEMMA HoldingsMove ==
  ASSUME Holdings, pub["XLM"] # 0, NEW a \in Desk!Assets,
         NEW n \in Nat, a = "XLM" => n # 0, pub' = [pub EXCEPT ![a] = n],
         NEW l \in Seq(Nat), notes' = [notes EXCEPT ![a] = l]
  PROVE  Holdings'
<1>1. pub' \in [Desk!Assets -> Nat] /\ notes' \in [Desk!Assets -> Seq(Nat)]
  BY DEF Holdings
<1>2. pub'["XLM"] # 0
  BY DEF Holdings, Desk!Assets
<1>. QED
  BY <1>1, <1>2 DEF Holdings

\* The balance alone changes.
LEMMA BalanceMoves ==
  ASSUME Holdings, pub["XLM"] # 0, NEW a \in Desk!Assets,
         NEW n \in Nat, a = "XLM" => n # 0, pub' = [pub EXCEPT ![a] = n], notes' = notes
  PROVE  Holdings'
<1>1. pub' \in [Desk!Assets -> Nat] /\ notes' \in [Desk!Assets -> Seq(Nat)]
  BY DEF Holdings
<1>2. pub'["XLM"] # 0
  BY DEF Holdings, Desk!Assets
<1>. QED
  BY <1>1, <1>2 DEF Holdings

\* Where there is something, there is XLM.
LEMMA HasReserve ==
  ASSUME Holdings, NEW a \in Desk!Assets, pub[a] # 0 \/ notes[a] # <<>>
  PROVE  pub["XLM"] # 0
BY DEF Holdings, Desk!Assets

\* A user who can deposit v of an asset keeps the reserve.
LEMMA ReserveStays ==
  ASSUME Holdings, NEW a \in Desk!Assets, NEW v \in Nat, Desk!CanDeposit(a, v)
  PROVE  /\ pub["XLM"] # 0 /\ pub[a] - v \in Nat /\ (a = "XLM" => pub[a] - v # 0)
<1>1. pub[a] \in Nat /\ pub["XLM"] \in Nat
  BY DEF Holdings, Desk!Assets
<1>2. CASE a = "XLM"
  BY <1>1, <1>2 DEF Desk!CanDeposit, Desk!Reserve
<1>3. CASE a # "XLM"
  BY <1>1, <1>3 DEF Desk!CanDeposit, Desk!Reserve
<1>. QED
  BY <1>2, <1>3

\* An encrypted note is stored.
LEMMA StoredIsAList ==
  ASSUME Desk!DeskAssumption, encrypted \in Seq(Kinds), NEW kind \in Kinds
  PROVE  Desk!Stored(kind) \in Seq(Kinds)
<1>1. CASE Len(encrypted) < HistoryLimit
  BY <1>1 DEF Desk!Stored
<1>2. CASE ~ (Len(encrypted) < HistoryLimit)
  <2>1. encrypted # <<>>
    BY <1>2 DEF Desk!DeskAssumption
  <2>2. Tail(encrypted) \in Seq(Kinds)
    BY <2>1
  <2>3. Desk!Stored(kind) = Append(Tail(encrypted), kind)
    BY <1>2 DEF Desk!Stored
  <2>. QED
    BY <2>2, <2>3
<1>. QED
  BY <1>1, <1>2

\* deposit
LEMMA DepositKeepsDesk ==
  ASSUME Desk!DeskAssumption, DeskInv, NEW a \in Desk!Assets, NEW v \in Nat, Desk!Deposit(a, v)
  PROVE  DeskInv'
<1>. USE DEF DeskInv, Desk!Deposit
<1>1. pub["XLM"] # 0 /\ pub[a] - v \in Nat /\ (a = "XLM" => pub[a] - v # 0)
  BY ReserveStays
<1>2. Append(notes[a], v) \in Seq(Nat)
  BY DEF Holdings
<1>3. pub' = [pub EXCEPT ![a] = pub[a] - v] /\ notes' = [notes EXCEPT ![a] = Append(notes[a], v)]
  OBVIOUS
<1>4. Holdings'
  BY <1>1, <1>2, <1>3, HoldingsMove
<1>5. encrypted' \in Seq(Kinds)
  BY StoredIsAList DEF Kinds
<1>. QED
  BY <1>4, <1>5

\* sendPublic
LEMMA SendKeepsDesk ==
  ASSUME DeskInv, NEW a \in Desk!Assets, NEW v \in Nat, Desk!SendPublic(a, v)
  PROVE  DeskInv'
<1>. USE DEF DeskInv, Desk!SendPublic
<1>1. pub["XLM"] # 0 /\ pub[a] - v \in Nat /\ (a = "XLM" => pub[a] - v # 0)
  BY ReserveStays
<1>2. pub' = [pub EXCEPT ![a] = pub[a] - v] /\ notes' = notes
  OBVIOUS
<1>3. Holdings'
  BY <1>1, <1>2, BalanceMoves
<1>. QED
  BY <1>3

\* A note that is in the list can be taken out; who holds one has XLM.
LEMMA NoteTaken ==
  ASSUME Holdings, NEW a \in Desk!Assets, NEW v \in Nat, Desk!Contains(notes[a], v)
  PROVE  /\ pub["XLM"] # 0 /\ pub[a] \in Nat /\ notes[a] \in Seq(Nat)
         /\ Desk!RemoveFirst(notes[a], v) \in Seq(Nat)
<1>1. pub[a] \in Nat /\ notes[a] \in Seq(Nat)
  BY DEF Holdings
<1>2. notes[a] # <<>>
  BY DEF Desk!Contains
<1>. QED
  BY <1>1, <1>2, HasReserve, RemoveFirstIsAList

\* withdrawSelf
LEMMA WithdrawKeepsDesk ==
  ASSUME DeskInv, NEW a \in Desk!Assets, NEW v \in Nat, Desk!WithdrawSelf(a, v)
  PROVE  DeskInv'
<1>. USE DEF DeskInv, Desk!WithdrawSelf
<1>1. /\ pub["XLM"] # 0 /\ pub[a] \in Nat /\ notes[a] \in Seq(Nat)
      /\ Desk!RemoveFirst(notes[a], v) \in Seq(Nat)
  BY NoteTaken
<1>2. pub[a] + v \in Nat /\ (a = "XLM" => pub[a] + v # 0)
  BY <1>1
<1>3. /\ pub' = [pub EXCEPT ![a] = pub[a] + v]
      /\ notes' = [notes EXCEPT ![a] = Desk!RemoveFirst(notes[a], v)]
  OBVIOUS
<1>4. Holdings'
  BY <1>1, <1>2, <1>3, HoldingsMove
<1>. QED
  BY <1>4

\* sendPrivate
LEMMA SendPrivateKeepsDesk ==
  ASSUME DeskInv, NEW a \in Desk!Assets, NEW v \in Nat, Desk!SendPrivate(a, v)
  PROVE  DeskInv'
<1>. USE DEF DeskInv, Desk!SendPrivate
<1>1. /\ pub["XLM"] # 0 /\ pub[a] \in Nat /\ notes[a] \in Seq(Nat)
      /\ Desk!RemoveFirst(notes[a], v) \in Seq(Nat)
  BY NoteTaken
<1>2. a = "XLM" => pub[a] # 0
  BY <1>1
<1>3. /\ pub' = [pub EXCEPT ![a] = pub[a]]
      /\ notes' = [notes EXCEPT ![a] = Desk!RemoveFirst(notes[a], v)]
  BY DEF Holdings
<1>4. Holdings'
  BY <1>1, <1>2, <1>3, HoldingsMove
<1>. QED
  BY <1>4

\* splitNote
LEMMA SplitKeepsDesk ==
  ASSUME Desk!DeskAssumption, DeskInv, NEW a \in Desk!Assets, NEW v \in Nat \ {0},
         NEW done, Desk!SplitNote(a, v, done)
  PROVE  DeskInv'
<1>. DEFINE ns == notes[a]
            left == Desk!AfterSplit(ns, v, done)
<1>1. ns \in Seq(Nat) /\ pub[a] \in Nat
  BY DEF DeskInv, Holdings
<1>2. /\ Total(ns) >= v /\ done \in 1 .. Len(Desk!ToWithdraw(ns, v)) + 1
      /\ notes' = [notes EXCEPT ![a] = left]
      /\ pub' = [pub EXCEPT ![a] = pub[a] + Total(ns) - Total(left)]
      /\ encrypted' \in {encrypted, Desk!Stored("credit")}
      /\ UNCHANGED <<trust, queue, audits, swaps, lag, horizon>>
  BY DEF Desk!SplitNote, Total
<1>3. left \in Seq(Nat) /\ Total(left) <= Total(ns)
  <2>. HIDE DEF ns, left
  <2>. QED
    BY <1>1, <1>2, SplitLosesNothing DEF left
<1>4. Total(ns) \in Nat /\ Total(left) \in Nat
  BY <1>1, <1>3, TotalIsNumber
<1>5. ns # <<>>
  BY <1>2, TotalOfNone
<1>6. pub["XLM"] # 0
  BY <1>5, HasReserve DEF DeskInv
<1>. HIDE DEF ns, left
<1>. DEFINE n == pub[a] + Total(ns) - Total(left)
<1>7. n \in Nat /\ (a = "XLM" => n # 0)
  <2>1. n \in Nat /\ n >= pub[a]
    BY <1>1, <1>3, <1>4
  <2>2. a = "XLM" => pub[a] # 0
    BY <1>6
  <2>. HIDE DEF n
  <2>. QED
    BY <1>1, <2>1, <2>2
<1>8. Holdings'
  <2>1. pub' = [pub EXCEPT ![a] = n] /\ Holdings
    BY <1>2 DEF DeskInv
  <2>. HIDE DEF n
  <2>. QED
    BY <1>2, <1>3, <1>6, <1>7, <2>1, HoldingsMove
<1>9. encrypted' \in Seq(Kinds)
  BY <1>2, StoredIsAList DEF DeskInv, Kinds
<1>. QED
  BY <1>2, <1>8, <1>9 DEF DeskInv

\* A list of audit records is a list whatever is added or changed.
LEMMA AuditsStayAList ==
  ASSUME \E S : audits \in Seq(S), NEW r
  PROVE  /\ audits' = Append(audits, r) => \E S : audits' \in Seq(S)
         /\ \A i \in DOMAIN audits :
              audits' = [audits EXCEPT ![i] = r] => \E S : audits' \in Seq(S)
<1>1. PICK S : audits \in Seq(S)
  OBVIOUS
<1>2. audits \in Seq(S \cup {r}) /\ r \in S \cup {r}
  BY <1>1
<1>3. Append(audits, r) \in Seq(S \cup {r})
  BY <1>2
<1>4. ASSUME NEW i \in DOMAIN audits
      PROVE  [audits EXCEPT ![i] = r] \in Seq(S \cup {r})
  BY <1>2, ExceptSeq
<1>. QED
  BY <1>3, <1>4

\* What Friendbot answers a request.
LEMMA FriendbotKeepsDesk ==
  ASSUME Desk!DeskAssumption, DeskInv, NEW i \in DOMAIN audits,
         Desk!FriendbotPays(i) \/ Desk!FriendbotRefuses(i)
  PROVE  DeskInv'
<1>1. ASSUME NEW s, audits' = [audits EXCEPT ![i].state = s]
      PROVE  \E S : audits' \in Seq(S)
  <2>. DEFINE r == [audits[i] EXCEPT !.state = s]
  <2>1. audits' = [audits EXCEPT ![i] = r]
    BY <1>1
  <2>. HIDE DEF r
  <2>2. \E S : audits \in Seq(S)
    BY DEF DeskInv
  <2>. QED
    BY <2>1, <2>2, AuditsStayAList
<1>2. \E S : audits' \in Seq(S)
  BY <1>1 DEF Desk!FriendbotPays, Desk!FriendbotRefuses
<1>3. Holdings'
  <2>1. CASE Desk!FriendbotPays(i)
    <3>1. /\ pub' = [pub EXCEPT !["XLM"] = Grant] /\ notes' = notes
          /\ Grant \in Nat /\ Grant # 0 /\ "XLM" \in Desk!Assets
      BY <2>1 DEF Desk!FriendbotPays, Desk!DeskAssumption, Desk!Assets
    <3>2. pub' \in [Desk!Assets -> Nat] /\ pub'["XLM"] # 0
      BY <3>1 DEF DeskInv, Holdings
    <3>. QED
      BY <3>1, <3>2 DEF DeskInv, Holdings
  <2>2. CASE Desk!FriendbotRefuses(i)
    BY <2>2 DEF Desk!FriendbotRefuses, DeskInv, Holdings
  <2>. QED
    BY <2>1, <2>2
<1>. QED
  BY <1>2, <1>3 DEF Desk!FriendbotPays, Desk!FriendbotRefuses, DeskInv

\* processPendingWithdrawals, one entry.
LEMMA ProcessKeepsDesk ==
  ASSUME DeskInv, NEW i \in DOMAIN queue, Desk!Process(i)
  PROVE  DeskInv'
<1>1. queue \in Seq(Entries) /\ queue[i] \in Entries /\ queue[i].asset \in Desk!Assets
  <2>1. queue \in Seq(Entries)
    BY DEF DeskInv
  <2>2. queue[i] \in Entries
    BY <2>1
  <2>. QED
    BY <2>1, <2>2 DEF Entries
<1>2. queue' \in Seq(Entries)
  <2>. DEFINE e == [queue[i] EXCEPT !.processed = TRUE]
  <2>1. e \in Entries
    BY <1>1 DEF Entries
  <2>2. queue' = [queue EXCEPT ![i] = e]
    BY DEF Desk!Process
  <2>. HIDE DEF e
  <2>3. queue \in Seq(Entries) /\ i \in DOMAIN queue
    BY <1>1
  <2>. HIDE DEF Entries
  <2>4. [queue EXCEPT ![i] = e] \in Seq(Entries)
    BY ONLY <2>1, <2>3, ExceptSeq
  <2>. QED
    BY <2>2, <2>4
<1>3. Holdings'
  <2>. DEFINE a == queue[i].asset
  <2>1. pub["XLM"] # 0 /\ pub' = [pub EXCEPT ![a] = pub[a] + 1] /\ notes' = notes
    <3>1. pub["XLM"] > 0 /\ pub["XLM"] \in Nat
      BY DEF Desk!Process, DeskInv, Holdings, Desk!Assets
    <3>. QED
      BY <3>1 DEF Desk!Process
  <2>2. a \in Desk!Assets
    BY <1>1
  <2>. HIDE DEF a
  <2>3. pub[a] \in Nat /\ Holdings
    BY <2>2 DEF DeskInv, Holdings
  <2>4. pub[a] + 1 \in Nat /\ pub[a] + 1 # 0
    BY <2>3
  <2>. QED
    BY <2>1, <2>2, <2>3, <2>4, BalanceMoves
<1>. QED
  BY <1>2, <1>3 DEF Desk!Process, DeskInv

\* A payment received, publicly or privately.
LEMMA ReceiveKeepsDesk ==
  ASSUME Desk!DeskAssumption, DeskInv, NEW a \in Desk!Assets,
         Desk!ReceivePublic(a) \/ Desk!ReceivePrivate(a)
  PROVE  DeskInv'
<1>1. CASE Desk!ReceivePublic(a)
  <2>1. /\ pub["XLM"] # 0 /\ pub[a] + 1 \in Nat /\ pub[a] + 1 # 0
        /\ pub' = [pub EXCEPT ![a] = pub[a] + 1] /\ notes' = notes
    <3>1. pub["XLM"] > 0 /\ pub["XLM"] \in Nat /\ pub[a] \in Nat
      BY <1>1 DEF Desk!ReceivePublic, DeskInv, Holdings, Desk!Assets
    <3>. QED
      BY <1>1, <3>1 DEF Desk!ReceivePublic
  <2>2. Holdings'
    BY <2>1, BalanceMoves DEF DeskInv
  <2>. QED
    BY <1>1, <2>2 DEF Desk!ReceivePublic, DeskInv
<1>2. CASE Desk!ReceivePrivate(a)
  <2>1. [asset |-> a, processed |-> FALSE] \in Entries
    BY DEF Entries
  <2>2. queue' \in Seq(Entries)
    BY <1>2, <2>1 DEF Desk!ReceivePrivate, DeskInv
  <2>3. encrypted' \in Seq(Kinds)
    BY <1>2, StoredIsAList DEF Desk!ReceivePrivate, DeskInv, Kinds
  <2>. QED
    BY <1>2, <2>2, <2>3 DEF Desk!ReceivePrivate, DeskInv, Holdings
<1>. QED
  BY <1>1, <1>2

\* Swaps begin and move.
LEMMA SwapsKeepDesk ==
  ASSUME DeskInv,
         \/ \E k, r : Desk!SwapBegins(k, r)
         \/ \E k, s, p, b : Desk!SwapMoves(k, s, p, b)
  PROVE  DeskInv'
<1>1. UNCHANGED <<pub, notes, queue, encrypted, lag, horizon>>
  BY DEF Desk!SwapBegins, Desk!SwapMoves
<1>2. audits' = audits \/ \E r : audits' = Append(audits, r)
  BY DEF Desk!SwapBegins, Desk!SwapMoves
<1>3. \E S : audits' \in Seq(S)
  BY <1>2, AuditsStayAList DEF DeskInv
<1>. QED
  BY <1>1, <1>3 DEF DeskInv, Holdings

\* What concerns neither balances nor notes.
LEMMA OthersKeepDesk ==
  ASSUME Desk!DeskAssumption, DeskInv,
         \/ Desk!RequestXlm \/ Desk!AddTrustline \/ Desk!HorizonChanges
         \/ \E n \in 0 .. MaxLag : Desk!LagChanges(n)
         \/ UNCHANGED Desk!vars
  PROVE  DeskInv'
<1>1. CASE Desk!RequestXlm
  <2>1. \E S : audits' \in Seq(S)
    BY <1>1, AuditsStayAList DEF DeskInv, Desk!RequestXlm
  <2>. QED
    BY <1>1, <2>1 DEF Desk!RequestXlm, DeskInv, Holdings
<1>2. CASE Desk!AddTrustline
  BY <1>2 DEF Desk!AddTrustline, DeskInv, Holdings
<1>3. CASE Desk!HorizonChanges
  BY <1>3 DEF Desk!HorizonChanges, DeskInv, Holdings
<1>4. CASE \E n \in 0 .. MaxLag : Desk!LagChanges(n)
  BY <1>4 DEF Desk!LagChanges, DeskInv, Holdings, Desk!DeskAssumption
<1>5. CASE UNCHANGED Desk!vars
  BY <1>5 DEF Desk!vars, DeskInv, Holdings
<1>. QED
  BY <1>1, <1>2, <1>3, <1>4, <1>5

\* A new user has nothing.
LEMMA DeskInitially == ASSUME Desk!AdviceInit PROVE DeskInv
<1>1. /\ pub = [a \in Desk!Assets |-> 0] /\ notes = [a \in Desk!Assets |-> <<>>]
      /\ queue = <<>> /\ encrypted = <<>> /\ audits = <<>> /\ lag = 0 /\ horizon = TRUE
  BY DEF Desk!AdviceInit, Desk!Init
<1>2. Holdings
  BY <1>1 DEF Holdings, Desk!Assets
<1>3. audits \in Seq({})
  BY <1>1
<1>. QED
  BY <1>1, <1>2, <1>3 DEF DeskInv

\* Whatever task a user does.
LEMMA DoKeepsDesk ==
  ASSUME Desk!DeskAssumption, DeskInv, NEW task, Desk!Do(task)
  PROVE  DeskInv'
<1>1. \A v \in Desk!Amounts : v \in Nat
  BY DEF Desk!Amounts
<1>. QED
  BY <1>1, DepositKeepsDesk, ProcessKeepsDesk, OthersKeepDesk DEF Desk!Do

\* Every step keeps the invariant.
LEMMA DeskStep ==
  ASSUME Desk!DeskAssumption, DeskInv, [Desk!Next]_<<Desk!vars, Desk!advised>>
  PROVE  DeskInv'
<1>1. \A v \in Desk!Amounts : v \in Nat /\ v \in Nat \ {0}
  BY DEF Desk!Amounts
<1>2. CASE Desk!Roam
  BY <1>1, <1>2, DoKeepsDesk, WithdrawKeepsDesk, SendKeepsDesk, SendPrivateKeepsDesk,
     SplitKeepsDesk DEF Desk!Roam
<1>3. CASE Desk!Others
  BY <1>3, ReceiveKeepsDesk, SwapsKeepDesk DEF Desk!Others
<1>4. CASE Desk!Services
  BY <1>4, FriendbotKeepsDesk, OthersKeepDesk DEF Desk!Services
<1>5. CASE \E a \in Desk!Assets : Desk!ReceivePrivate(a)
  BY <1>5, ReceiveKeepsDesk
<1>6. CASE Desk!Load
  <2>1. UNCHANGED Desk!vars
    BY <1>6 DEF Desk!Load
  <2>. QED
    BY <2>1, OthersKeepDesk
<1>7. CASE \E task \in Desk!Tasks : Desk!Follow(task)
  BY <1>7, DoKeepsDesk DEF Desk!Follow
<1>8. CASE UNCHANGED <<Desk!vars, Desk!advised>>
  <2>1. UNCHANGED Desk!vars
    BY <1>8
  <2>. QED
    BY <2>1, OthersKeepDesk
<1>. QED
  BY <1>2, <1>3, <1>4, <1>5, <1>6, <1>7, <1>8 DEF Desk!Next

-----------------------------------------------------------------------------
(* What is held and what waits *)

\* The instance counts as the module of the standard library does.
LEMMA DeskCardinality == \A S : Desk!Cardinality(S) = Cardinality(S)
BY DEF Desk!Cardinality, Cardinality

\* A finite set is counted, and has something in it when the count is not zero.
LEMMA SomeOf ==
  ASSUME NEW S, IsFiniteSet(S)
  PROVE  Desk!Cardinality(S) \in Nat /\ (S # {} <=> Desk!Cardinality(S) > 0)
<1>1. Cardinality(S) \in Nat /\ (Cardinality(S) = 0 <=> S = {})
  BY FS_CardinalityType, FS_EmptySet
<1>. QED
  BY <1>1, DeskCardinality

\* Places of a list are finitely many.
LEMMA ListsAreFinite ==
  ASSUME NEW S, NEW q \in Seq(S), NEW P \in SUBSET DOMAIN q
  PROVE  IsFiniteSet(P)
<1>1. DOMAIN q = 1 .. Len(q) /\ 1 \in Int /\ Len(q) \in Int
  OBVIOUS
<1>2. IsFiniteSet(1 .. Len(q))
  BY <1>1, FS_Interval
<1>. QED
  BY <1>1, <1>2, FS_Subset

\* What is still to be claimed of an asset.
Claims(a) == {i \in DOMAIN queue : queue[i].asset = a /\ ~ queue[i].processed}

\* Balances are numbers; what is private beyond the notes waits to be claimed.
LEMMA BalancesAreNumbers ==
  ASSUME DeskInv, NEW a \in Desk!Assets
  PROVE  /\ Desk!Public(a) \in Nat /\ pub[a] \in Nat /\ Desk!Private(a) \in Nat
         /\ notes[a] \in Seq(Nat) /\ Total(notes[a]) \in Nat
         /\ Desk!Private(a) >= Total(notes[a])
         /\ Desk!Private(a) > Total(notes[a]) => Claims(a) # {}
<1>1. pub[a] \in Nat /\ notes[a] \in Seq(Nat)
  BY DEF DeskInv, Holdings
<1>2. Desk!Public(a) \in Nat
  BY <1>1 DEF Desk!Public
<1>3. Total(notes[a]) \in Nat
  BY <1>1, TotalIsNumber
<1>4. Desk!Cardinality(Claims(a)) \in Nat /\ (Claims(a) # {} <=> Desk!Cardinality(Claims(a)) > 0)
  <2>1. Claims(a) \in SUBSET DOMAIN queue /\ queue \in Seq(Entries)
    BY DEF Claims, DeskInv
  <2>2. IsFiniteSet(Claims(a))
    BY <2>1, ListsAreFinite
  <2>. QED
    BY <2>2, SomeOf
<1>5. Desk!Private(a) = Total(notes[a]) + Desk!Cardinality(Claims(a))
  BY DEF Desk!Private, Total, Claims, Desk!Quantify
<1>. QED
  BY <1>1, <1>2, <1>3, <1>4, <1>5

\* The queue, as the wallet page counts it.
LEMMA PendingIsCounted ==
  ASSUME DeskInv, WalletLimit \in Nat \ {0}
  PROVE  /\ Desk!Queued \in Nat /\ Desk!PendingCount \in Nat
         /\ Desk!Queued > 0 <=> Desk!Pending # {}
         /\ Desk!PendingCount > 0 <=> Desk!Pending # {}
<1>1. Desk!Queued \in Nat /\ (Desk!Pending # {} <=> Desk!Queued > 0)
  <2>1. Desk!Pending \in SUBSET DOMAIN queue /\ queue \in Seq(Entries)
    BY DEF Desk!Pending, DeskInv
  <2>2. IsFiniteSet(Desk!Pending)
    BY <2>1, ListsAreFinite
  <2>. QED
    BY <2>2, SomeOf DEF Desk!Queued
<1>. DEFINE S == {WalletLimit, Desk!Queued}
<1>2. Desk!PendingCount = Desk!Min(S)
  BY DEF Desk!PendingCount, Desk!Queued
<1>3. S \in SUBSET Nat /\ S # {}
  BY <1>1
<1>4. Desk!Min(S) \in S /\ \A y \in S : Desk!Min(S) <= y
  <2>. HIDE DEF S
  <2>. QED
    BY <1>3, MinOf
<1>. QED
  BY <1>1, <1>2, <1>4

\* The larger of zero and a number.
LEMMA MaxOfZero ==
  ASSUME NEW x \in Int
  PROVE  Desk!Max({0, x}) = IF x > 0 THEN x ELSE 0
<1>. DEFINE m == IF x > 0 THEN x ELSE 0
<1>1. m \in {0, x} /\ \A y \in {0, x} : m >= y
  OBVIOUS
<1>2. \A n \in {0, x} : (\A y \in {0, x} : n >= y) => n = m
  OBVIOUS
<1>. QED
  BY <1>1, <1>2 DEF Desk!Max

\* Who holds a note of v has v in notes.
LEMMA HeldNote ==
  ASSUME DeskInv, NEW a \in Desk!Assets, NEW v \in Nat, Desk!Contains(notes[a], v)
  PROVE  Total(notes[a]) >= v
<1>1. notes[a] \in Seq(Nat)
  BY BalancesAreNumbers
<1>2. \E i \in 1 .. Len(notes[a]) : notes[a][i] = v
  BY <1>1 DEF Desk!Contains
<1>. DEFINE r == Desk!RemoveFirst(notes[a], v)
<1>3. r \in Seq(Nat) /\ Total(r) + v = Total(notes[a])
  BY <1>1, <1>2, RemoveFirstTakesOne
<1>4. Total(r) \in Nat
  BY <1>3, TotalIsNumber
<1>. QED
  BY <1>3, <1>4

-----------------------------------------------------------------------------
(* The planners *)

GoodBank == [accountNo |-> TRUE, ifsc |-> TRUE]

\* One pair of verdicts makes the details of a bank account valid (validateBankAccountDetails).
LEMMA OneGoodBank ==
  /\ (CHOOSE b \in Desk!BankDetails : Desk!ValidBank(b)) = GoodBank
  /\ Desk!ValidBank(GoodBank)
  /\ \A b \in Desk!BankDetails \ {GoodBank} : ~ Desk!ValidBank(b)
<1>1. GoodBank \in Desk!BankDetails
  BY DEF GoodBank, Desk!BankDetails
<1>2. Desk!ValidBank(GoodBank)
  BY DEF GoodBank, Desk!ValidBank
<1>3. ASSUME NEW b \in Desk!BankDetails, Desk!ValidBank(b) PROVE b = GoodBank
  <2>1. b = [accountNo |-> b.accountNo, ifsc |-> b.ifsc]
    BY DEF Desk!BankDetails
  <2>2. b.accountNo \in BOOLEAN /\ b.ifsc \in BOOLEAN
    BY DEF Desk!BankDetails
  <2>3. b.accountNo = TRUE /\ b.ifsc = TRUE
    BY <1>3, <2>2 DEF Desk!ValidBank
  <2>. QED
    BY <2>1, <2>3 DEF GoodBank
<1>. QED
  BY <1>1, <1>2, <1>3

\* What a plan of a sale says, in terms of the two balances.
LEMMA SaleReads ==
  ASSUME DeskInv, NEW v \in Nat
  PROVE  LET x == Desk!Public("XLM")
             p == Desk!Private("XLM")
             reads == IF x >= v THEN "ready" ELSE IF x + p >= v THEN "attention" ELSE "blocked"
         IN /\ Desk!PlanSell(v, GoodBank).tone = reads
            /\ Desk!PlanSell(v, GoodBank).stages.inventory = reads
            /\ \A b \in Desk!BankDetails \ {GoodBank} : Desk!PlanSell(v, b).tone = "blocked"
<1>. DEFINE x == Desk!Public("XLM")
            p == Desk!Private("XLM")
            reads == IF x >= v THEN "ready" ELSE IF x + p >= v THEN "attention" ELSE "blocked"
            short == Desk!Max({0, v - (x + p)})
            waits == x < v /\ x + p >= v
            inventory == IF short > 0 THEN "blocked" ELSE Desk!Flag(waits)
<1>1. "XLM" \in Desk!Assets
  BY DEF Desk!Assets
<1>2. x \in Nat /\ p \in Nat
  BY <1>1, BalancesAreNumbers
<1>3. \A b : /\ Desk!PlanSell(v, b).tone = IF Desk!ValidBank(b) THEN inventory ELSE "blocked"
             /\ Desk!PlanSell(v, b).stages.inventory = inventory
  <2>1. /\ Desk!PreviewSell(v).shortfall = short
        /\ Desk!PreviewSell(v).withdrawal = waits
    BY DEF Desk!PreviewSell
  <2>. HIDE DEF short, waits
  <2>. QED
    BY <2>1 DEF Desk!PlanSell
<1>4. inventory = reads
  <2>. HIDE DEF x, p
  <2>1. v - (x + p) \in Int
    BY <1>2
  <2>2. short = IF v - (x + p) > 0 THEN v - (x + p) ELSE 0
    BY <2>1, MaxOfZero
  <2>. HIDE DEF short
  <2>3. short > 0 <=> ~ (x + p >= v)
    BY <1>2, <2>2
  <2>4. CASE x >= v
    BY <1>2, <2>3, <2>4 DEF Desk!Flag
  <2>5. CASE ~ (x >= v)
    BY <1>2, <2>3, <2>5 DEF Desk!Flag
  <2>. QED
    BY <2>4, <2>5
<1>. HIDE DEF inventory, reads
<1>. QED
  BY <1>3, <1>4, OneGoodBank DEF reads

\* A sale and the wallet page, the funding plan and the send planner.
LEMMA SalesAgree ==
  ASSUME DeskInv, WalletLimit \in Nat \ {0}, NEW v \in Nat \ {0}
  PROVE  LET sell == Desk!PlanSell(v, GoodBank)
             send == Desk!PreviewSend("XLM", v)
         IN /\ sell.tone = "ready" <=> send.public.ready
            /\ sell.tone = "ready" => Desk!PlanFunding("XLM", "fiat_sell").route = "ready"
            /\ sell.tone = "blocked" => ~ send.public.available /\ ~ send.private.available
            /\ sell.tone = "attention" =>
                 /\ Desk!FiatReadiness.inventory # "blocked"
                 /\ "withdraw_xlm" \in Desk!WalletWorkspace.actions
                 /\ Desk!Total(notes["XLM"]) = 0 => "process" \in Desk!WalletWorkspace.actions
            /\ horizon /\ Desk!CanDeposit("XLM", v) => sell.stages.inventory = "ready"
<1>. DEFINE x == Desk!Public("XLM")
            p == Desk!Private("XLM")
            sell == Desk!PlanSell(v, GoodBank)
            send == Desk!PreviewSend("XLM", v)
            reads == IF x >= v THEN "ready" ELSE IF x + p >= v THEN "attention" ELSE "blocked"
<1>1. "XLM" \in Desk!Assets
  BY DEF Desk!Assets
<1>2. /\ x \in Nat /\ p \in Nat /\ pub["XLM"] \in Nat /\ Total(notes["XLM"]) \in Nat
      /\ p >= Total(notes["XLM"]) /\ (p > Total(notes["XLM"]) => Claims("XLM") # {})
  BY <1>1, BalancesAreNumbers
<1>3. sell.tone = reads /\ sell.stages.inventory = reads
  BY SaleReads
<1>4. /\ send.public.ready <=> x >= v
      /\ send.public.available <=> x >= v
      /\ send.private.available <=> p >= v
  BY DEF Desk!PreviewSend, Desk!Preview
<1>5. Desk!PlanFunding("XLM", "fiat_sell").route = Desk!Tone(x > 0, p > 0)
  BY DEF Desk!PlanFunding
<1>6. Desk!FiatReadiness.inventory = Desk!Tone(x > 0, x + p > 0)
  BY DEF Desk!FiatReadiness, Desk!FiatWorkspace
<1>7. /\ "withdraw_xlm" \in Desk!WalletWorkspace.actions <=> p > 0
      /\ "process" \in Desk!WalletWorkspace.actions <=> Desk!PendingCount > 0
  BY DEF Desk!WalletWorkspace, Desk!Suggested
<1>8. Claims("XLM") # {} => Desk!PendingCount > 0
  <2>1. Claims("XLM") \subseteq Desk!Pending
    BY DEF Claims, Desk!Pending
  <2>. QED
    BY <2>1, PendingIsCounted
<1>9. horizon /\ Desk!CanDeposit("XLM", v) => x >= v
  <2>1. Desk!CanDeposit("XLM", v) => pub["XLM"] - v >= 1
    BY DEF Desk!CanDeposit, Desk!Reserve
  <2>. QED
    BY <1>2, <2>1 DEF Desk!Public
<1>10. Desk!Total(notes["XLM"]) = Total(notes["XLM"])
  BY DEF Total
<1>. HIDE DEF x, p, sell, send
<1>11. reads = "ready" <=> x >= v
  OBVIOUS
<1>12. reads = "blocked" => ~ (x >= v) /\ ~ (p >= v)
  BY <1>2
<1>13. reads = "attention" => p > 0 /\ x + p > 0
  BY <1>2
<1>14. x >= v => x > 0
  BY <1>2
<1>. HIDE DEF reads
<1>15. reads = "attention" =>
         /\ Desk!FiatReadiness.inventory # "blocked"
         /\ "withdraw_xlm" \in Desk!WalletWorkspace.actions
         /\ Desk!Total(notes["XLM"]) = 0 => "process" \in Desk!WalletWorkspace.actions
  <2>1. Desk!FiatReadiness.inventory # "blocked" <=> (x > 0 \/ x + p > 0)
    BY <1>6 DEF Desk!Tone
  <2>2. p > 0 /\ Total(notes["XLM"]) = 0 => Claims("XLM") # {}
    BY <1>2
  <2>. QED
    BY <1>7, <1>8, <1>10, <1>13, <2>1, <2>2
<1>16. reads = "ready" => Desk!PlanFunding("XLM", "fiat_sell").route = "ready"
  BY <1>5, <1>11, <1>14 DEF Desk!Tone
<1>17. /\ reads = "ready" <=> send.public.ready
       /\ reads = "blocked" => ~ send.public.available /\ ~ send.private.available
       /\ horizon /\ Desk!CanDeposit("XLM", v) => reads = "ready"
  BY <1>4, <1>9, <1>11, <1>12
<1>. QED
  BY <1>3, <1>15, <1>16, <1>17 DEF sell, send

\* What the send planner says of notes.
LEMMA NotesAreAsTold ==
  ASSUME DeskInv, NEW v \in Nat \ {0}, NEW a \in Desk!Assets
  PROVE  LET preview == Desk!PreviewSend(a, v) IN
         /\ preview.private.next \in {"split", "reshape"} =>
              ((preview.private.next = "split") <=> (Len(Desk!ToWithdraw(notes[a], v)) = 1))
         /\ Desk!Contains(notes[a], v) =>
              /\ preview.recommended = "private"
              /\ Desk!PlanFunding(a, "private_flow").route = "ready"
              /\ Desk!CapitalLanes[IF a = "XLM" THEN "private_xlm" ELSE "private_usdc"] = "ready"
<1>. DEFINE ns == notes[a]
            preview == Desk!PreviewSend(a, v)
            next == IF Desk!Contains(ns, v) THEN "send"
                    ELSE IF Desk!Larger(ns, v) # {} THEN "split"
                    ELSE IF Total(ns) >= v THEN "reshape" ELSE "deposit"
<1>1. /\ ns \in Seq(Nat) /\ Total(ns) \in Nat /\ Desk!Private(a) \in Nat
      /\ Desk!Private(a) >= Total(ns)
  BY BalancesAreNumbers
<1>2. /\ preview.private.next = next
      /\ Desk!Contains(ns, v) => preview.recommended = "private"
  BY DEF Desk!PreviewSend, Desk!Preview, Total
<1>3. Desk!Contains(ns, v) => Desk!Private(a) > 0
  BY <1>1, HeldNote
<1>. HIDE DEF preview, ns
<1>4. next \in {"split", "reshape"} =>
        ((next = "split") <=> (Len(Desk!ToWithdraw(ns, v)) = 1))
  <2> SUFFICES ASSUME next \in {"split", "reshape"}
               PROVE  (next = "split") <=> (Len(Desk!ToWithdraw(ns, v)) = 1)
    OBVIOUS
  <2>1. ~ Desk!Contains(ns, v)
    OBVIOUS
  <2>2. \A i \in 1 .. Len(ns) : ns[i] # v
    BY <1>1, <2>1 DEF Desk!Contains
  <2>3. Total(ns) >= v
    <3>1. CASE Desk!Larger(ns, v) = {}
      BY <2>1, <3>1
    <3>2. CASE Desk!Larger(ns, v) # {}
      <4>1. PICK i \in 1 .. Len(ns) : ns[i] > v
        BY <1>1, <3>2 DEF Desk!Larger
      <4>2. Total(ns) >= ns[i]
        <5>. DEFINE r == Desk!RemoveFirst(ns, ns[i])
        <5>1. ns[i] \in Nat
          BY <1>1
        <5>2. r \in Seq(Nat) /\ Total(r) + ns[i] = Total(ns)
          BY <1>1, <5>1, RemoveFirstTakesOne
        <5>3. Total(r) \in Nat
          BY <5>2, TotalIsNumber
        <5>. QED
          BY <1>1, <5>1, <5>2, <5>3
      <4>3. ns[i] \in Nat
        BY <1>1
      <4>. QED
        BY <1>1, <4>1, <4>2, <4>3
    <3>. QED
      BY <3>1, <3>2
  <2>4. /\ Desk!Larger(ns, v) # {} => Len(Desk!ToWithdraw(ns, v)) = 1
        /\ Desk!Larger(ns, v) = {} => Len(Desk!ToWithdraw(ns, v)) # 1
    BY <1>1, <2>2, <2>3, PlanIsEnough
  <2>. QED
    BY <2>1, <2>3, <2>4
<1>5. Desk!PlanFunding(a, "private_flow").route = Desk!Tone(Desk!Private(a) > 0, Desk!Public(a) > 0)
  BY DEF Desk!PlanFunding
<1>6. Desk!Private(a) > 0 =>
        Desk!CapitalLanes[IF a = "XLM" THEN "private_xlm" ELSE "private_usdc"] = "ready"
  BY DEF Desk!CapitalLanes, Desk!Assets
<1>. HIDE DEF next
<1>7. Desk!Contains(ns, v) =>
        /\ Desk!PlanFunding(a, "private_flow").route = "ready"
        /\ Desk!CapitalLanes[IF a = "XLM" THEN "private_xlm" ELSE "private_usdc"] = "ready"
  BY <1>3, <1>5, <1>6 DEF Desk!Tone
<1>. QED
  BY <1>2, <1>4, <1>7 DEF ns, preview

\* In every situation the planners agree.
LEMMA PlannersAgreeNow ==
  ASSUME Desk!BoardsAssumption, DeskInv
  PROVE  Desk!PlannersAgree
<1>1. WalletLimit \in Nat \ {0} /\ Grant \in Nat
  BY DEF Desk!BoardsAssumption, Desk!ViewsAssumption, Desk!DeskAssumption
<1>. DEFINE bank == CHOOSE b \in Desk!BankDetails : Desk!ValidBank(b)
<1>2. bank = GoodBank
  BY OneGoodBank
<1>. HIDE DEF bank
<1>3. ASSUME NEW v \in 1 .. Grant + 1
      PROVE  LET sell == Desk!PlanSell(v, bank)
                 send == Desk!PreviewSend("XLM", v)
             IN /\ sell.tone = "ready" <=> send.public.ready
                /\ sell.tone = "ready" => Desk!PlanFunding("XLM", "fiat_sell").route = "ready"
                /\ sell.tone = "blocked" => ~ send.public.available /\ ~ send.private.available
                /\ sell.tone = "attention" =>
                     /\ Desk!FiatReadiness.inventory # "blocked"
                     /\ "withdraw_xlm" \in Desk!WalletWorkspace.actions
                     /\ Desk!Total(notes["XLM"]) = 0 => "process" \in Desk!WalletWorkspace.actions
                /\ horizon /\ Desk!CanDeposit("XLM", v) => sell.stages.inventory = "ready"
                /\ \A b \in Desk!BankDetails \ {bank} : Desk!PlanSell(v, b).tone = "blocked"
  <2>1. v \in Nat /\ v \in Nat \ {0}
    BY <1>1
  <2>2. \A b \in Desk!BankDetails \ {GoodBank} : Desk!PlanSell(v, b).tone = "blocked"
    BY <2>1, SaleReads
  <2>. QED
    BY <1>1, <1>2, <2>1, <2>2, SalesAgree
<1>4. ASSUME NEW v \in 1 .. Grant + 1, NEW a \in Desk!Assets
      PROVE  LET preview == Desk!PreviewSend(a, v) IN
             /\ preview.private.next \in {"split", "reshape"} =>
                  ((preview.private.next = "split") <=> (Len(Desk!ToWithdraw(notes[a], v)) = 1))
             /\ Desk!Contains(notes[a], v) =>
                  /\ preview.recommended = "private"
                  /\ Desk!PlanFunding(a, "private_flow").route = "ready"
                  /\ Desk!CapitalLanes[IF a = "XLM" THEN "private_xlm" ELSE "private_usdc"] = "ready"
  <2>1. v \in Nat \ {0}
    BY <1>1
  <2>. QED
    BY <2>1, NotesAreAsTold
<1>. QED
  BY <1>3, <1>4 DEF Desk!PlannersAgree, bank

-----------------------------------------------------------------------------
(* Remedies *)

\* The remedies of the operators' board.
LEMMA RemediesOffered ==
  LET remedies == DOMAIN Desk!RemediationBoard IN
  /\ lag # 0 => "indexer" \in remedies
  /\ Desk!Queued # 0 => "withdrawals" \in remedies
  /\ Desk!Activity.failures # 0 => "failures" \in remedies
  /\ Desk!SilentMarket => "market" \in remedies
BY DEF Desk!RemediationBoard, Desk!NotNone, Desk!Level, Desk!BacklogRemedy

\* Trouble that the boards of the status page show has its remedy there.
LEMMA OperatorsAreTold ==
  ASSUME Desk!BoardsAssumption
  PROVE  LET remedies == DOMAIN Desk!RemediationBoard IN
         /\ Desk!DependencyBoard.indexer # "healthy" => "indexer" \in remedies
         /\ \/ Desk!DependencyBoard.wallet # "healthy" \/ Desk!RouteHealth.wallet # "healthy"
            \/ "backlog" \in DOMAIN Desk!Alerts
            => {"withdrawals", "failures"} \cap remedies # {}
         /\ Desk!RouteHealth.market = "warning" => {"market", "failures"} \cap remedies # {}
<1>. DEFINE failures == Desk!Activity.failures
            remedies == DOMAIN Desk!RemediationBoard
<1>1. /\ BacklogWarns \in Nat \ {0} /\ BacklogBlocks \in Nat \ {0} /\ BacklogCritical \in Nat \ {0}
      /\ SomeFailures \in Nat \ {0} /\ ManyFailures \in Nat \ {0}
  BY DEF Desk!BoardsAssumption
<1>2. /\ \A m \in {BacklogWarns, BacklogBlocks, BacklogCritical} : Desk!Queued = 0 => ~ (Desk!Queued >= m)
      /\ \A m \in {SomeFailures, ManyFailures} : failures = 0 => ~ (failures >= m)
  BY <1>1
<1>3. Desk!DependencyBoard.indexer # "healthy" => lag # 0
  BY DEF Desk!DependencyBoard
<1>4. Desk!DependencyBoard.wallet # "healthy" => Desk!Queued # 0 \/ failures # 0
  <2>. HIDE DEF failures
  <2>1. Desk!DependencyBoard.wallet =
          IF Desk!Queued >= BacklogCritical THEN "critical"
          ELSE IF Desk!Queued >= BacklogWarns \/ failures >= ManyFailures
            THEN "degraded" ELSE "healthy"
    BY DEF Desk!DependencyBoard, failures
  <2>. QED
    BY <1>2, <2>1
<1>5. Desk!RouteHealth.wallet # "healthy" => Desk!Queued # 0 \/ failures # 0
  <2>. HIDE DEF failures
  <2>1. Desk!RouteHealth.wallet =
          IF Desk!Queued >= BacklogBlocks THEN "critical"
          ELSE IF Desk!Activity.walletAudits > 0 /\ failures >= SomeFailures
            THEN "warning" ELSE "healthy"
    BY DEF Desk!RouteHealth, failures
  <2>. QED
    BY <1>2, <2>1
<1>6. "backlog" \in DOMAIN Desk!Alerts => Desk!Queued # 0
  <2>1. "backlog" \in DOMAIN Desk!Alerts => ~ (Desk!Queued < BacklogWarns)
    BY DEF Desk!Alerts, Desk!NotNone
  <2>2. Desk!Queued = 0 => Desk!Queued < BacklogWarns
    BY <1>1
  <2>. QED
    BY <2>1, <2>2
<1>7. Desk!RouteHealth.market = "warning" => Desk!SilentMarket \/ failures # 0
  <2>. HIDE DEF failures
  <2>1. Desk!BusyAndFailing => failures >= SomeFailures
    BY DEF Desk!BusyAndFailing, failures
  <2>2. Desk!RouteHealth.market = "warning" => Desk!SilentMarket \/ Desk!BusyAndFailing
    BY DEF Desk!RouteHealth
  <2>. QED
    BY <1>2, <2>1, <2>2
<1>8. /\ lag # 0 => "indexer" \in remedies
      /\ Desk!Queued # 0 => "withdrawals" \in remedies
      /\ failures # 0 => "failures" \in remedies
      /\ Desk!SilentMarket => "market" \in remedies
  BY RemediesOffered
<1>. HIDE DEF failures, remedies
<1>. QED
  BY <1>3, <1>4, <1>5, <1>6, <1>7, <1>8 DEF remedies

-----------------------------------------------------------------------------
(* The history has an entry that waits as long as the queue has one. *)

\* The larger of two numbers.
LEMMA MaxOfTwo ==
  ASSUME NEW x \in Int, NEW y \in Int
  PROVE  Desk!Max({x, y}) = IF x > y THEN x ELSE y
<1>. DEFINE m == IF x > y THEN x ELSE y
<1>1. m \in {x, y} /\ \A z \in {x, y} : m >= z
  OBVIOUS
<1>2. \A n \in {x, y} : (\A z \in {x, y} : n >= z) => n = m
  OBVIOUS
<1>. QED
  BY <1>1, <1>2 DEF Desk!Max

\* The newest entries that the history reads.
LEMMA RecentOnes ==
  ASSUME NEW n \in Nat, NEW limit \in Nat
  PROVE  IsFiniteSet(Desk!Recent(n, limit))
<1>. DEFINE m == Desk!Max({1, n - limit + 1})
<1>1. m = IF 1 > n - limit + 1 THEN 1 ELSE n - limit + 1
  BY MaxOfTwo
<1>2. Desk!Recent(n, limit) = m .. n
  BY DEF Desk!Recent
<1>. HIDE DEF m
<1>3. m \in Int /\ n \in Int
  BY <1>1
<1>4. IsFiniteSet(m .. n)
  BY <1>3, FS_Interval
<1>. QED
  BY <1>2, <1>4

\* A function has finitely many values on a finite set.
LEMMA ImageIsFinite ==
  ASSUME NEW S, IsFiniteSet(S), NEW f
  PROVE  IsFiniteSet({f[x] : x \in S})
<1>. DEFINE T == {f[x] : x \in S}
            g == [x \in S |-> f[x]]
<1>1. g \in Surjection(S, T)
  BY DEF Surjection
<1>. HIDE DEF g, T
<1>2. IsFiniteSet(T)
  BY <1>1, FS_Surjection
<1>. QED
  BY <1>2 DEF T

\* The entries there are to show are finitely many.
LEMMA EntriesAreFinite ==
  ASSUME Desk!ViewsAssumption, DeskInv, NEW K \in SUBSET Desk!Known
  PROVE  IsFiniteSet(Desk!Entries(K))
<1>. DEFINE read == Desk!Recent(Len(audits), AuditLimit)
            waits == Desk!Recent(Len(queue), HistoryLimit)
            rest == {k \in K : \A i \in read : audits[i].swap # k}
            A == {Desk!AuditEntry(i, K) : i \in read}
            N == {Desk!NoteEntry(i) : i \in DOMAIN encrypted}
            W == {Desk!WithdrawalEntry(i) : i \in waits}
            S == {Desk!SwapEntry(k) : k \in rest}
<1>1. IsFiniteSet(read)
  <2>1. PICK R : audits \in Seq(R)
    BY DEF DeskInv
  <2>2. Len(audits) \in Nat /\ AuditLimit \in Nat
    BY <2>1 DEF Desk!ViewsAssumption
  <2>. QED
    BY <2>2, RecentOnes
<1>2. IsFiniteSet(waits)
  <2>1. Len(queue) \in Nat /\ HistoryLimit \in Nat
    BY DEF DeskInv, Desk!ViewsAssumption, Desk!DeskAssumption
  <2>. QED
    BY <2>1, RecentOnes
<1>3. IsFiniteSet(rest)
  <2>1. IsFiniteSet(SwapIds)
    BY DEF Desk!ViewsAssumption, Desk!DeskAssumption, Desk!IsFiniteSet, IsFiniteSet
  <2>2. rest \in SUBSET SwapIds
    BY DEF Desk!Known
  <2>. HIDE DEF rest
  <2>. QED
    BY <2>1, <2>2, FS_Subset
<1>4. IsFiniteSet(DOMAIN encrypted)
  <2>1. encrypted \in Seq(Kinds)
    BY DEF DeskInv
  <2>. QED
    BY <2>1, ListsAreFinite
<1>5. Desk!Entries(K) = A \cup N \cup W \cup S
  BY DEF Desk!Entries
<1>. HIDE DEF read, waits, rest
<1>6. IsFiniteSet(A)
  <2>. DEFINE f == [i \in read |-> Desk!AuditEntry(i, K)]
  <2>1. IsFiniteSet({f[x] : x \in read})
    BY <1>1, ImageIsFinite
  <2>2. {f[x] : x \in read} = A
    OBVIOUS
  <2>. HIDE DEF f, A
  <2>. QED
    BY <2>1, <2>2
<1>7. IsFiniteSet(N)
  <2>. DEFINE f == [i \in DOMAIN encrypted |-> Desk!NoteEntry(i)]
  <2>1. IsFiniteSet({f[x] : x \in DOMAIN encrypted})
    BY <1>4, ImageIsFinite
  <2>2. {f[x] : x \in DOMAIN encrypted} = N
    OBVIOUS
  <2>. HIDE DEF f, N
  <2>. QED
    BY <2>1, <2>2
<1>8. IsFiniteSet(W)
  <2>. DEFINE f == [i \in waits |-> Desk!WithdrawalEntry(i)]
  <2>1. IsFiniteSet({f[x] : x \in waits})
    BY <1>2, ImageIsFinite
  <2>2. {f[x] : x \in waits} = W
    OBVIOUS
  <2>. HIDE DEF f, W
  <2>. QED
    BY <2>1, <2>2
<1>9. IsFiniteSet(S)
  <2>. DEFINE f == [k \in rest |-> Desk!SwapEntry(k)]
  <2>1. IsFiniteSet({f[x] : x \in rest})
    BY <1>3, ImageIsFinite
  <2>2. {f[x] : x \in rest} = S
    OBVIOUS
  <2>. HIDE DEF f, S
  <2>. QED
    BY <2>1, <2>2
<1>. HIDE DEF A, N, W, S
<1>10. IsFiniteSet(A \cup N)
  BY <1>6, <1>7, FS_Union
<1>11. IsFiniteSet((A \cup N) \cup W)
  BY <1>8, <1>10, FS_Union
<1>12. IsFiniteSet(((A \cup N) \cup W) \cup S)
  BY <1>9, <1>11, FS_Union
<1>. QED
  BY <1>5, <1>12

\* A choice among the things of a set is a part of it.
LEMMA AnyOfIsAPart ==
  ASSUME NEW S, NEW limit, NEW T \in Desk!AnyOf(S, limit)
  PROVE  T \subseteq S
BY DEF Desk!AnyOf

\* However the history is cut, it is finite.
LEMMA TimelineIsFinite ==
  ASSUME Desk!ViewsAssumption, DeskInv, NEW T \in Desk!Timelines
  PROVE  IsFiniteSet(T)
<1>1. PICK K \in Desk!AnyOf(Desk!Known, SwapLimit) :
        T \in Desk!AnyOf(Desk!Entries(K), TimelineLimit)
  BY DEF Desk!Timelines
<1>2. K \in SUBSET Desk!Known /\ T \in SUBSET Desk!Entries(K)
  BY <1>1, AnyOfIsAPart
<1>. QED
  BY <1>2, EntriesAreFinite, FS_Subset

\* An unclaimed payment that the history lists is pending there.
LEMMA QueueWaitsInHistory ==
  ASSUME Desk!ViewsAssumption, DeskInv, NEW T \in Desk!Timelines,
         NEW i \in Desk!Pending, Desk!WithdrawalEntry(i) \in T
  PROVE  Desk!HistoryOn(T).pending > 0
<1>. DEFINE P == {e \in T : Desk!IsPending(e)}
            entry == Desk!WithdrawalEntry(i)
<1>1. Desk!IsPending(entry)
  BY DEF Desk!IsPending, Desk!WithdrawalEntry, Desk!Pending
<1>2. IsFiniteSet(P)
  BY TimelineIsFinite, FS_Subset
<1>. HIDE DEF entry
<1>3. P # {}
  BY <1>1 DEF entry
<1>. HIDE DEF P
<1>4. Desk!Cardinality(P) > 0
  BY <1>2, <1>3, SomeOf
<1>5. Desk!HistoryOn(T).pending = Desk!Cardinality(P)
  BY DEF Desk!HistoryOn, Desk!HistoryOf, P
<1>. QED
  BY <1>4, <1>5

\* Two of the five items of the checklist are always complete; funding and the first private
\* note are therefore among the first three that are not.
LEMMA FirstOpenOnesAreNext ==
  ASSUME NEW list, list["wallet"] = "complete", list["trustline"] = "complete"
  PROVE  /\ list["funding"] # "complete" => "funding" \in Desk!NextActions(list)
         /\ list["private"] # "complete" => "private" \in Desk!NextActions(list)
<1>. DEFINE Order == Desk!ChecklistOrder
            open == {i \in DOMAIN Order : list[Order[i]] # "complete"}
            Before(i) == {k \in open : k < i}
<1>1. /\ DOMAIN Order = 1 .. 5
      /\ Order[1] = "wallet" /\ Order[2] = "funding" /\ Order[3] = "trustline"
      /\ Order[4] = "private" /\ Order[5] = "ops"
  BY DEF Desk!ChecklistOrder
<1>. HIDE DEF Order
<1>2. 1 \notin open /\ 3 \notin open /\ open \subseteq 1 .. 5
  BY <1>1
<1>3. /\ list["funding"] # "complete" => 2 \in open
      /\ list["private"] # "complete" => 4 \in open
  BY <1>1
<1>4. Desk!NextActions(list) = {Order[i] : i \in {j \in open : Desk!Cardinality(Before(j)) < 3}}
  BY DEF Desk!NextActions, Desk!Quantify, Order
<1>. HIDE DEF open
<1>5. Desk!Cardinality(Before(2)) < 3
  <2>0. ASSUME NEW k \in open PROVE ~ (k < 2)
    <3>1. k \in 1 .. 5 /\ k # 1
      BY <1>2
    <3>. QED
      BY <3>1
  <2>1. Before(2) = {}
    BY <2>0
  <2>2. Cardinality({}) = 0
    BY FS_EmptySet
  <2>. QED
    BY <2>1, <2>2, DeskCardinality
<1>6. Desk!Cardinality(Before(4)) < 3
  <2>0. ASSUME NEW k \in open, k < 4 PROVE k = 2
    <3>1. k \in 1 .. 5 /\ k # 1 /\ k # 3
      BY <1>2
    <3>. QED
      BY <2>0, <3>1
  <2>1. Before(4) \subseteq {2}
    BY <2>0
  <2>2. IsFiniteSet({2}) /\ Cardinality({2}) = 1
    BY FS_Singleton
  <2>. HIDE DEF Before
  <2>3. Cardinality(Before(4)) <= 1 /\ Cardinality(Before(4)) \in Nat
    BY <2>1, <2>2, FS_Subset, FS_CardinalityType
  <2>. QED
    BY <2>3, DeskCardinality
<1>. HIDE DEF Before
<1>. QED
  BY <1>1, <1>3, <1>4, <1>5, <1>6

\* The priorities of the action center.
LEMMA PrioritiesNamed ==
  ASSUME NEW h
  PROVE  LET p == DOMAIN Desk!Priorities(h) IN
         /\ ~ Desk!HasXlm => "fund" \in p
         /\ ~ Desk!Seeded => "seed" \in p
         /\ Desk!PendingCount # 0 => "process" \in p
         /\ ~ Desk!OpsReady => "ops" \in p
<1>. DEFINE top == h.topBucket
      all == [fund |-> IF Desk!HasXlm THEN "none" ELSE "critical",
              trustline |-> IF Desk!HasUsdcTrustline THEN "none" ELSE IF Desk!HasXlm THEN "caution" ELSE "info",
              seed |-> IF Desk!Seeded THEN "none"
                       ELSE IF Desk!HasXlm \/ Desk!HasUsdcTrustline THEN "caution" ELSE "info",
              process |-> Desk!QueueSeverity,
              ops |-> IF Desk!OpsReady THEN "none" ELSE IF lag > 1 THEN "critical" ELSE "caution",
              failures |-> IF top = 0 THEN "none" ELSE IF top >= 3 THEN "critical" ELSE "caution"]
      open == {p \in DOMAIN all : all[p] # "none"}
<1>1. DOMAIN Desk!Priorities(h) = open \cup Desk!UrgentSwaps
  BY DEF Desk!Priorities
<1>2. /\ ~ Desk!HasXlm => "fund" \in open
      /\ ~ Desk!Seeded => "seed" \in open
      /\ Desk!PendingCount # 0 => "process" \in open
      /\ ~ Desk!OpsReady => "ops" \in open
  BY DEF Desk!QueueSeverity
<1>. HIDE DEF open
<1>. QED
  BY <1>1, <1>2

-----------------------------------------------------------------------------
(* The advice of each page *)

\* An empty account is noticed on every page that lists tasks of setting up.
LEMMA EmptyAccountIsTold ==
  ASSUME DeskInv, ~ Desk!HasXlm, NEW T, NEW h
  PROVE  \A p \in {"auth", "funding", "actions", "contacts", "portfolio", "settlement", "liquidity"} :
           "fund" \in Desk!AdviceOf(p, T, h, Desk!Contacts(h), Desk!ActionCenter(h))
<1>. DEFINE c == Desk!Contacts(h)
            ac == Desk!ActionCenter(h)
            A(p) == Desk!AdviceOf(p, T, h, c, ac)
<1>0. "fund" \in Desk!Tasks
  BY DEF Desk!Tasks
<1>1. ~ Desk!Visible
  <2>1. pub["XLM"] \in Nat /\ pub["USDC"] \in Nat /\ horizon \in BOOLEAN
    BY DEF DeskInv, Holdings, Desk!Assets
  <2>2. Desk!Public("XLM") = 0
    BY <2>1 DEF Desk!HasXlm, Desk!Public
  <2>3. Desk!Public("USDC") = 0
    BY <2>1, <2>2 DEF Desk!Public, DeskInv, Holdings
  <2>. QED
    BY <2>2, <2>3 DEF Desk!Visible, Desk!PublicTotal
<1>2. "fund" \in A("auth")
  <2>1. /\ Desk!Checklist["wallet"] = "complete" /\ Desk!Checklist["trustline"] = "complete"
        /\ Desk!Checklist["funding"] # "complete"
    BY DEF Desk!Checklist, Desk!Status, Desk!HasUsdcTrustline, Desk!MightHaveTrustline
  <2>2. "funding" \in Desk!AuthWorkspace.nextActions
    BY <2>1, FirstOpenOnesAreNext DEF Desk!AuthWorkspace
  <2>. QED
    BY <1>0, <2>2 DEF Desk!AdviceOf, Desk!Suggested
<1>3. "fund" \in A("funding")
  <2>1. Desk!Open(Desk!FundingWorkspace.checklist, "xlm_public")
    BY DEF Desk!Open, Desk!FundingWorkspace, Desk!Status
  <2>. QED
    BY <1>0, <2>1 DEF Desk!AdviceOf, Desk!Suggested
<1>4. "fund" \in A("actions")
  <2>1. "fund" \in DOMAIN ac.priorities
    BY PrioritiesNamed DEF Desk!ActionCenter
  <2>. HIDE DEF ac
  <2>. QED
    BY <1>0, <2>1 DEF Desk!AdviceOf
<1>5. "fund" \in A("contacts")
  <2>1. "fund" \in c.actions
    BY DEF Desk!Contacts, Desk!ContactsOf, Desk!Suggested
  <2>. HIDE DEF c, ac
  <2>. QED
    BY <1>0, <2>1 DEF Desk!AdviceOf
<1>6. "fund" \in A("portfolio")
  <2>1. "fund" \in Desk!Rebalance(h, c)
    BY <1>1 DEF Desk!Rebalance, Desk!Suggested
  <2>. HIDE DEF c, ac
  <2>. QED
    BY <1>0, <2>1 DEF Desk!AdviceOf
<1>7. "fund" \in A("settlement")
  <2>1. Desk!TransitionBoard(h).public_to_private = "blocked"
    BY <1>1 DEF Desk!TransitionBoard
  <2>. HIDE DEF c, ac
  <2>. QED
    BY <1>0, <2>1 DEF Desk!AdviceOf
<1>8. "fund" \in A("liquidity")
  <2>1. "fund" \in Desk!LiquidityActions
    BY DEF Desk!LiquidityActions, Desk!Suggested
  <2>. HIDE DEF c, ac
  <2>. QED
    BY <1>0, <2>1 DEF Desk!AdviceOf
<1>. HIDE DEF A
<1>9. \A p \in {"auth", "funding", "actions", "contacts", "portfolio", "settlement", "liquidity"} :
        "fund" \in A(p)
  BY <1>2, <1>3, <1>4, <1>5, <1>6, <1>7, <1>8
<1>. QED
  BY <1>9 DEF A

\* A payment that waits to be claimed.
LEMMA QueueIsTold ==
  ASSUME Desk!BoardsAssumption, DeskInv, Desk!Queued > 0, NEW L, NEW h
  PROVE  \A p \in {"funding", "actions", "portfolio", "liquidity"} :
           "process" \in Desk!AdviceOf(p, L, h, Desk!Contacts(h), Desk!ActionCenter(h))
<1>. DEFINE c == Desk!Contacts(h)
            ac == Desk!ActionCenter(h)
            A(p) == Desk!AdviceOf(p, L, h, c, ac)
<1>0. "process" \in Desk!Tasks
  BY DEF Desk!Tasks
<1>1. Desk!PendingCount > 0 /\ Desk!PendingCount # 0
  <2>1. WalletLimit \in Nat \ {0}
    BY DEF Desk!BoardsAssumption, Desk!ViewsAssumption
  <2>. QED
    BY <2>1, PendingIsCounted
<1>3. "process" \in A("funding")
  <2>1. Desk!Open(Desk!FundingWorkspace.checklist, "withdrawal_queue")
    BY <1>1 DEF Desk!Open, Desk!FundingWorkspace, Desk!Status
  <2>. QED
    BY <1>0, <2>1 DEF Desk!AdviceOf, Desk!Suggested
<1>4. "process" \in A("actions")
  <2>1. "process" \in DOMAIN ac.priorities
    BY <1>1, PrioritiesNamed DEF Desk!ActionCenter
  <2>. HIDE DEF ac
  <2>. QED
    BY <1>0, <2>1 DEF Desk!AdviceOf
<1>5. "process" \in A("portfolio")
  <2>1. "process" \in Desk!Rebalance(h, c)
    BY <1>1 DEF Desk!Rebalance, Desk!Suggested
  <2>. HIDE DEF c, ac
  <2>. QED
    BY <1>0, <2>1 DEF Desk!AdviceOf
<1>6. "process" \in A("liquidity")
  <2>1. "process" \in Desk!LiquidityActions
    BY DEF Desk!LiquidityActions, Desk!Suggested
  <2>. HIDE DEF c, ac
  <2>. QED
    BY <1>0, <2>1 DEF Desk!AdviceOf
<1>. HIDE DEF A
<1>7. \A p \in {"funding", "actions", "portfolio", "liquidity"} : "process" \in A(p)
  BY <1>3, <1>4, <1>5, <1>6
<1>. QED
  BY <1>7 DEF A

\* The playbook, which goes by the history h.
LEMMA PlaybookTells ==
  ASSUME NEW h, h.pending > 0, NEW L, NEW c, NEW ac
  PROVE  "process" \in Desk!AdviceOf("playbook", L, h, c, ac)
<1>1. "process" \in Desk!Tasks
  BY DEF Desk!Tasks
<1>2. "cleanup" \in Desk!RunningScenarios(h, c).clear.blockers
  BY DEF Desk!RunningScenarios, Desk!Suggested
<1>. QED
  BY <1>1, <1>2 DEF Desk!AdviceOf, Desk!Suggested

\* Nothing private yet.
LEMMA SeedIsTold ==
  ASSUME DeskInv, ~ Desk!Seeded, Desk!Visible, NEW T, NEW h
  PROVE  \A p \in {"auth", "funding", "actions", "contacts", "playbook", "settlement", "liquidity"} :
           "seed" \in Desk!AdviceOf(p, T, h, Desk!Contacts(h), Desk!ActionCenter(h))
<1>. DEFINE c == Desk!Contacts(h)
            ac == Desk!ActionCenter(h)
            A(p) == Desk!AdviceOf(p, T, h, c, ac)
<1>0. "seed" \in Desk!Tasks
  BY DEF Desk!Tasks
<1>1. Desk!PrivateTotal = 0
  <2>1. "XLM" \in Desk!Assets /\ "USDC" \in Desk!Assets
    BY DEF Desk!Assets
  <2>2. Desk!Private("XLM") = 0 /\ Desk!Private("USDC") = 0
    BY <2>1, BalancesAreNumbers DEF Desk!Seeded
  <2>. QED
    BY <2>2 DEF Desk!PrivateTotal
<1>2. "seed" \in A("auth")
  <2>1. /\ Desk!Checklist["wallet"] = "complete" /\ Desk!Checklist["trustline"] = "complete"
        /\ Desk!Checklist["private"] # "complete"
    BY DEF Desk!Checklist, Desk!Status, Desk!HasUsdcTrustline, Desk!MightHaveTrustline
  <2>2. "private" \in Desk!AuthWorkspace.nextActions
    BY <2>1, FirstOpenOnesAreNext DEF Desk!AuthWorkspace
  <2>. QED
    BY <1>0, <2>2 DEF Desk!AdviceOf, Desk!Suggested
<1>3. "seed" \in A("funding")
  <2>1. Desk!Open(Desk!FundingWorkspace.checklist, "private_seed")
    BY DEF Desk!Open, Desk!FundingWorkspace, Desk!Status
  <2>. QED
    BY <1>0, <2>1 DEF Desk!AdviceOf, Desk!Suggested
<1>4. "seed" \in A("actions")
  <2>1. "seed" \in DOMAIN ac.priorities
    BY PrioritiesNamed DEF Desk!ActionCenter
  <2>. HIDE DEF ac
  <2>. QED
    BY <1>0, <2>1 DEF Desk!AdviceOf
<1>5. "seed" \in A("contacts")
  <2>1. "seed" \in c.actions
    BY DEF Desk!Contacts, Desk!ContactsOf, Desk!Suggested
  <2>. HIDE DEF c, ac
  <2>. QED
    BY <1>0, <2>1 DEF Desk!AdviceOf
<1>6. "seed" \in A("playbook")
  <2>1. Desk!SetupScenarios(h).seed.tone # "ready"
    BY DEF Desk!SetupScenarios, Desk!Tone
  <2>. HIDE DEF c, ac
  <2>. QED
    BY <1>0, <2>1 DEF Desk!AdviceOf, Desk!Suggested
<1>7. "seed" \in A("settlement")
  <2>1. "seed" \in Desk!SettlementActions(T)
    BY DEF Desk!SettlementActions, Desk!Suggested
  <2>. HIDE DEF c, ac
  <2>. QED
    BY <1>0, <2>1 DEF Desk!AdviceOf
<1>8. "seed" \in A("liquidity")
  <2>1. "seed" \in Desk!LiquidityActions
    BY <1>1 DEF Desk!LiquidityActions, Desk!Suggested
  <2>. HIDE DEF c, ac
  <2>. QED
    BY <1>0, <2>1 DEF Desk!AdviceOf
<1>. HIDE DEF A
<1>9. \A p \in {"auth", "funding", "actions", "contacts", "playbook", "settlement", "liquidity"} :
        "seed" \in A(p)
  BY <1>2, <1>3, <1>4, <1>5, <1>6, <1>7, <1>8
<1>. QED
  BY <1>9 DEF A

\* What the operators' page calls a warning is what the user's pages call it.
LEMMA LagIsTold ==
  ASSUME DeskInv, NEW T, NEW h
  PROVE  LET ac == Desk!ActionCenter(h) IN
         /\ Desk!RouteHealth.private = "warning" <=>
              /\ "ops" \in DOMAIN ac.priorities /\ ac.routes.status = "critical"
              /\ "status" \in Desk!SettlementActions(T) /\ "status" \in Desk!AccountWorkspace(h).recovery
         /\ ac.routes.funding = "critical" => ~ Desk!HasXlm
<1>. DEFINE ac == Desk!ActionCenter(h)
<1>1. Desk!RouteHealth.private = "warning" <=> lag > 0
  BY DEF Desk!RouteHealth
<1>2. lag > 0 <=> ~ Desk!OpsReady
  BY DEF DeskInv, Desk!OpsReady
<1>3. ~ Desk!OpsReady => "ops" \in DOMAIN ac.priorities
  BY PrioritiesNamed DEF Desk!ActionCenter
<1>4. /\ ac.routes.status = "critical" <=> ~ Desk!OpsReady
      /\ ac.routes.funding = "critical" => ~ Desk!HasXlm
  BY DEF Desk!ActionCenter
<1>. HIDE DEF ac
<1>5. "status" \in Desk!SettlementActions(T) <=> ~ Desk!OpsReady
  BY DEF Desk!SettlementActions, Desk!Suggested
<1>6. ~ Desk!OpsReady => "status" \in Desk!AccountWorkspace(h).recovery
  BY DEF Desk!AccountWorkspace
<1>. QED
  BY <1>1, <1>2, <1>3, <1>4, <1>5, <1>6 DEF ac

\* In every situation trouble has a remedy, whatever the history shows.
LEMMA UserIsToldNow ==
  ASSUME Desk!BoardsAssumption, DeskInv, NEW T \in Desk!Timelines, NEW L
  PROVE  LET h == Desk!HistoryOn(T) IN
         Desk!UserIsTold(T, L, h, Desk!Contacts(h), Desk!ActionCenter(h))
<1>. DEFINE h == Desk!HistoryOn(T)
            c == Desk!Contacts(h)
            ac == Desk!ActionCenter(h)
<1>1. ac.routes.funding = "critical" =>
        \A p \in {"auth", "funding", "actions", "contacts", "portfolio", "settlement", "liquidity"} :
          "fund" \in Desk!AdviceOf(p, L, h, c, ac)
  BY EmptyAccountIsTold, LagIsTold
<1>2. Desk!LaneCards(L).queue = "attention" =>
        \A p \in {"funding", "actions", "portfolio", "liquidity"} :
          "process" \in Desk!AdviceOf(p, L, h, c, ac)
  <2>1. Desk!LaneCards(L).queue = Desk!Flag(Desk!Queued > 0)
    BY DEF Desk!LaneCards
  <2>2. Desk!LaneCards(L).queue = "attention" => Desk!Queued > 0
    BY <2>1 DEF Desk!Flag
  <2>. QED
    BY <2>2, QueueIsTold
<1>3. (\E i \in Desk!Pending : Desk!WithdrawalEntry(i) \in T) =>
        \A p \in {"playbook"} : "process" \in Desk!AdviceOf(p, L, h, c, ac)
  <2>1. SUFFICES ASSUME NEW i \in Desk!Pending, Desk!WithdrawalEntry(i) \in T
                 PROVE  "process" \in Desk!AdviceOf("playbook", L, h, c, ac)
    OBVIOUS
  <2>2. h.pending > 0
    BY <2>1, QueueWaitsInHistory DEF Desk!BoardsAssumption
  <2>. HIDE DEF h, c, ac
  <2>. QED
    BY <2>2, PlaybookTells
<1>4. Desk!RouteRisk.private_send = "attention" =>
        \A p \in {"auth", "funding", "actions", "contacts", "playbook", "settlement", "liquidity"} :
          "seed" \in Desk!AdviceOf(p, L, h, c, ac)
  <2>1. Desk!RouteRisk.private_send = Desk!Shielded(Desk!Seeded, Desk!Visible)
    BY DEF Desk!RouteRisk
  <2>2. Desk!RouteRisk.private_send = "attention" => ~ Desk!Seeded /\ Desk!Visible
    BY <2>1 DEF Desk!Shielded
  <2>. QED
    BY <2>2, SeedIsTold
<1>5. Desk!RouteHealth.private = "warning" <=>
        /\ "ops" \in DOMAIN ac.priorities /\ ac.routes.status = "critical"
        /\ "status" \in Desk!SettlementActions(L) /\ "status" \in Desk!AccountWorkspace(h).recovery
  BY LagIsTold
<1>. HIDE DEF c, ac, h
<1>6. Desk!UserIsTold(T, L, h, c, ac)
  BY <1>1, <1>2, <1>3, <1>4, <1>5 DEF Desk!UserIsTold
<1>. QED
  BY <1>6 DEF h, c, ac

LEMMA RemediesNow ==
  ASSUME Desk!BoardsAssumption, DeskInv
  PROVE  Desk!TroubleHasARemedy
<1>1. Desk!OperatorsAreTold(DOMAIN Desk!RemediationBoard)
  BY OperatorsAreTold DEF Desk!OperatorsAreTold
<1>. QED
  BY <1>1, UserIsToldNow DEF Desk!TroubleHasARemedy

-----------------------------------------------------------------------------
(* The whole *)

\* A step of Services is one of the account, one of the user at his pages, or neither.
LEMMA EachTakesItsStep ==
  ASSUME [Next]_vars
  PROVE  /\ [Auth!Next]_(Auth!vars)
         /\ [Desk!Next]_<<Desk!vars, Desk!advised>>
BY DEF Next, vars, accountVars, deskVars, Auth!vars, Desk!vars, Desk!advised

\* Nobody loses the keys to the money, whatever sign-ins and requests interleave: a linked
\* document opens with the fields beside its secrets, and so does the copy of a handler that
\* loaded it before (getDecryptionKeyForUser).
THEOREM KeysAlwaysOpen == Spec => []KeysOpen
<1>1. Init => AccountsInv
  BY ServicesAssumption, AccountsInitially DEF Init
<1>2. AccountsInv /\ [Next]_vars => AccountsInv'
  BY ServicesAssumption, EachTakesItsStep, NextKeepsAccounts
<1>3. AccountsInv => KeysOpen
  BY KeysOpenInv DEF KeysOpen
<1>. QED
  BY <1>1, <1>2, <1>3, PTL DEF Spec

\* One person, one account, although two first sign-ins may pass findOne before either creates
\* (the unique index of the user schema); and an _id that was handed out, and with it the
\* sessions and the notes that name it, stays with its person or, once the account is deleted,
\* with nobody, whatever sign-in had found the account before (findOrCreateFromGoogle, delete-me).
THEOREM OneAccountForEach == Spec => OneAccountEach
<1>1. Init => AccountsInv /\ NotesOfUsed
  BY ServicesAssumption, AccountsInitially, NotesInitially DEF Init
<1>2. AccountsInv /\ NotesOfUsed /\ [Next]_vars => (AccountsInv /\ NotesOfUsed)'
  BY ServicesAssumption, EachTakesItsStep, NextKeepsAccounts, NotesStayOfUsed
<1>3. AccountsInv /\ NotesOfUsed => Auth!AtMostOneAccount /\ Auth!OwnersAreKnown
  BY OneAccountInv, OwnersInv
<1>4. AccountsInv /\ [Next]_vars => [Auth!IdsKeepTheirPerson]_(Auth!vars)
  BY EachTakesItsStep, PersonsStay
<1>5. OneAccountEach <=> /\ []Auth!AtMostOneAccount /\ []Auth!OwnersAreKnown
                         /\ [][Auth!IdsKeepTheirPerson]_(Auth!vars)
  BY DEF OneAccountEach, Auth!OneAccountEach
<1>. QED
  BY <1>1, <1>2, <1>3, <1>4, <1>5, PTL DEF Spec

\* The planners of different services are of one opinion, whatever the user has and whatever
\* amount is asked about: the plan of a sale, the send planner, the funding plan and the wallet
\* page; and what the planner says of notes is what splitNote does (planTrade, previewSend,
\* planFunding, getWalletWorkspace, splitNote).
THEOREM PlannersAlwaysAgree == Spec => []PlannersAgree
<1>1. Init => DeskInv
  BY DeskInitially DEF Init
<1>2. Desk!BoardsAssumption /\ Desk!DeskAssumption
  BY ServicesAssumption DEF Desk!BoardsAssumption, Desk!ViewsAssumption
<1>3. DeskInv /\ [Next]_vars => DeskInv'
  BY <1>2, EachTakesItsStep, DeskStep
<1>4. DeskInv => PlannersAgree
  BY <1>2, PlannersAgreeNow DEF PlannersAgree
<1>. QED
  BY <1>1, <1>3, <1>4, PTL DEF Spec

\* Trouble that one page shows is a task or a remedy on the others, whatever the numbers are at
\* which the boards change colour (getStatusWorkspace and the workspaces of the user's pages).
THEOREM TroubleAlwaysHasARemedy == Spec => []TroubleHasARemedy
<1>1. Init => DeskInv
  BY DeskInitially DEF Init
<1>2. Desk!BoardsAssumption /\ Desk!DeskAssumption
  BY ServicesAssumption DEF Desk!BoardsAssumption, Desk!ViewsAssumption
<1>3. DeskInv /\ [Next]_vars => DeskInv'
  BY <1>2, EachTakesItsStep, DeskStep
<1>4. DeskInv => TroubleHasARemedy
  BY <1>2, RemediesNow DEF TroubleHasARemedy
<1>. QED
  BY <1>1, <1>3, <1>4, PTL DEF Spec
=============================================================================
