------------------------------ MODULE Accounts ------------------------------
(***************************************************************************)
(* Accounts and what they may do (auth.go, admin.go, middleware.go,        *)
(* permission_cache.go, store.go, queel/rbac).  An account is a row of the *)
(* users table; its rights are an entry of the rbac directory, which the   *)
(* row points at.  The two are written one after the other, by sign-ups,   *)
(* by the backoffice and by their rollbacks, with nothing that ties them   *)
(* together; every request reads both and falls back on a cache, and then  *)
(* on its token, when it cannot.                                           *)
(*                                                                         *)
(* The directory is the one of a cluster (store_kv.go), where an update is *)
(* a Get and then a Put; with SQLite (store_sqlite.go) the two are one     *)
(* statement, which is the case where nothing comes between them.          *)
(* Account ids and directory ids are random in the code and fresh here.    *)
(***************************************************************************)
EXTENDS Integers, Sequences, FiniteSets

CONSTANTS
  Proc,       \* goroutines that serve requests
  Email,
  Assigned,   \* the rights an administrator may give
  MaxCached,  \* maxCachedPermissions
  None,
  Bound       \* Bound[kind]: how many calls of a kind, faults, disconnections
              \* and crashes there are, and of all of them together ("event")

Kinds == {"register", "google", "login", "confirm", "vote", "assign", "delete",
          "fault", "disconnect", "crash", "event"}

Action == {"vote", "createText", "closeText", "editText", "subscribe"}
Rights == [root : BOOLEAN, perms : SUBSET Action]

ASSUME ProcAssumption == IsFiniteSet(Proc)
ASSUME AssignedAssumption == Assigned \subseteq Rights
ASSUME NoneAssumption == None \notin Nat
ASSUME MaxCachedAssumption == MaxCached \in Nat \ {0}
ASSUME BoundAssumption == Bound \in [Kinds -> Nat]

VARIABLES
  users,    \* the users table: users[i] for the accounts i there are
  dir,      \* the rbac directory: the rights of each entry
  content,  \* accounts with votes, texts or fragments in the repository
  fresh,    \* the next identifier
  tokens,   \* signed tokens; that they expire only takes requests away
  cache,    \* the permission cache, the entry refreshed longest ago first
  mailed,   \* accounts whose validation code was sent
  call,     \* call[p]: the request p serves, and how far it is
  used,     \* how many calls and faults of each kind there have been
  past,     \* what happened, for the properties
  overlaps  \* accounts some of whose calls have overlapped

data == <<users, dir, content, fresh, tokens, cache, mailed>>
vars == <<data, call, used, past, overlaps>>

-----------------------------------------------------------------------------
(* Rights and masks (rbac/model.go, rbac/jwt.go).                           *)

NoRights == [root |-> FALSE, perms |-> {}]
DefaultPermissions == [root |-> FALSE, perms |-> {"vote", "subscribe"}]

\* Bits 4 and 5 are retired.
PermBit == [vote |-> 1, createText |-> 2, closeText |-> 4, editText |-> 8, subscribe |-> 64]

BitIf(perms, a) == IF a \in perms THEN PermBit[a] ELSE 0
Bits(perms) ==
  BitIf(perms, "vote") + BitIf(perms, "createText") + BitIf(perms, "closeText")
    + BitIf(perms, "editText") + BitIf(perms, "subscribe")

HasBit(mask, a) == (mask \div PermBit[a]) % 2 = 1

\* Mutant of PermissionsFromBits: the positions are counted again after a removal.
PermissionsFromBitsCounted(mask) ==
  LET position == [vote |-> 1, createText |-> 2, closeText |-> 4, editText |-> 8, subscribe |-> 16]
  IN  {a \in Action : (mask \div position[a]) % 2 = 1}

PermissionsFromBits(mask) == {a \in Action : HasBit(mask, a)}

\* Claims of account i: what a token carries, and what a request is decided by.
Claims(i, r) == [sub |-> i, root |-> r.root, mask |-> Bits(r.perms)]
Allows(claims, a) == claims.root \/ HasBit(claims.mask, a)
RightsOf(claims) == [root |-> claims.root, perms |-> PermissionsFromBits(claims.mask)]

-----------------------------------------------------------------------------
(* Tables and calls.                                                        *)

With(f, k, v) == [x \in DOMAIN f \cup {k} |-> IF x = k THEN v ELSE f[x]]
Without(f, k) == [x \in DOMAIN f \ {k} |-> f[x]]

NoCall == [op |-> "none", at |-> "idle", id |-> None, email |-> None, uuid |-> None,
           rights |-> NoRights, seen |-> NoRights,
           claims |-> [sub |-> None, root |-> FALSE, mask |-> 0], gone |-> FALSE, clean |-> TRUE]

RowsOf(e) == {i \in DOMAIN users : users[i].email = e}

Root == 1
RootUUID == 2

\* QUEEL_ROOT_UUID has made the first entry, an operator has tied it to an
\* account, and that administrator has signed in.
Init ==
  /\ users = [i \in {Root} |-> [email |-> None, pending |-> FALSE, uuid |-> RootUUID]]
  /\ dir = [u \in {RootUUID} |-> [root |-> TRUE, perms |-> {}]]
  /\ content = {}
  /\ fresh = 3
  /\ tokens = {Claims(Root, [root |-> TRUE, perms |-> {}])}
  /\ cache = <<>>
  /\ mailed = {}
  /\ call = [p \in Proc |-> NoCall]
  /\ used = [kind \in Kinds |-> 0]
  /\ past = [given |-> {<<Root, [root |-> TRUE, perms |-> {}]>>}, granted |-> [i \in {} |-> NoRights],
             read |-> [i \in {} |-> NoRights], acked |-> {}, undone |-> {}, doomed |-> {},
             rolledBack |-> {}, late |-> {}]
  /\ overlaps = [writes |-> {}, reads |-> {}]

Use(kind) ==
  /\ used[kind] < Bound[kind] /\ used["event"] < Bound["event"]
  /\ used' = [used EXCEPT ![kind] = @ + 1, !["event"] = @ + 1]

Arrives(p, kind, c) ==
  /\ call[p] = NoCall /\ Use(kind)
  /\ call' = [call EXCEPT ![p] = c]

At(p, at) == call[p].at = at
Becomes(p, c) == call' = [call EXCEPT ![p] = c]
Goes(p, at) == Becomes(p, [call[p] EXCEPT !.at = at])
Returns(p) == Becomes(p, NoCall)

\* A statement on the users table goes through unless the client has gone:
\* it runs under the request's context.
Works(p) == ~call[p].gone /\ UNCHANGED used
SqlFails(p) == (call[p].gone /\ UNCHANGED used) \/ Use("fault")

-----------------------------------------------------------------------------
(* Sign-up by email (registerHandler, confirmHandler).                      *)

\* CreateUser; the email is a unique column.
Register(p, e) ==
  /\ RowsOf(e) = {}
  /\ Arrives(p, "register", [NoCall EXCEPT !.op = "register", !.at = "grant", !.id = fresh,
                                            !.rights = DefaultPermissions])
  /\ users' = With(users, fresh, [email |-> e, pending |-> TRUE, uuid |-> None])
  /\ fresh' = fresh + 1
  /\ UNCHANGED <<dir, content, tokens, cache, mailed, past>>

\* The insert is applied though it returns an error: the handler answers it
\* and undoes nothing.
RegisterFails(p, e) ==
  /\ RowsOf(e) = {}
  /\ call[p] = NoCall /\ Use("fault")
  /\ users' = With(users, fresh, [email |-> e, pending |-> TRUE, uuid |-> None])
  /\ fresh' = fresh + 1
  /\ UNCHANGED <<call, dir, content, tokens, cache, mailed, past>>

\* The directory entry is made: at a sign-up, or at a first assignment.
Grant(p) ==
  /\ At(p, "grant")
  /\ dir' = With(dir, fresh, call[p].rights)
  /\ fresh' = fresh + 1
  /\ past' = [past EXCEPT !.given = @ \cup {<<call[p].id, call[p].rights>>}]
  /\ Becomes(p, [call[p] EXCEPT !.at = "link", !.uuid = fresh])
  /\ UNCHANGED <<users, content, tokens, cache, mailed, used>>

\* Mutant of FailsTo: the error is only logged.
FailsToMail(p, at) == IF call[p].op = "register" THEN Goes(p, "mail") ELSE Returns(p)

\* Where a failed sign-up by email goes on; the other calls return an error.
FailsTo(p, at) == IF call[p].op = "register" THEN Goes(p, at) ELSE Returns(p)

\* The directory refuses; what it was sent may be stored all the same.
GrantFails(p) ==
  /\ At(p, "grant") /\ Use("fault")
  /\ dir' \in {dir, With(dir, fresh, call[p].rights)}
  /\ fresh' = fresh + 1
  /\ FailsTo(p, "undoRow")
  /\ UNCHANGED <<users, content, tokens, cache, mailed, past>>

Linked(p) == [users EXCEPT ![call[p].id].uuid = call[p].uuid]

\* An assignment has succeeded.
Acknowledge(p) == past' = [past EXCEPT !.granted = With(@, call[p].id, call[p].rights)]

\* SetRbacUUID.
Link(p) ==
  /\ At(p, "link") /\ Works(p) /\ call[p].id \in DOMAIN users
  /\ users' = Linked(p)
  /\ \/ call[p].op = "register" /\ Goes(p, "mail") /\ UNCHANGED past
     \/ call[p].op = "google" /\ Goes(p, "issue") /\ UNCHANGED past
     \/ call[p].op = "assign" /\ Returns(p) /\ Acknowledge(p)
  /\ UNCHANGED <<dir, content, fresh, tokens, cache, mailed>>

\* It fails, or the row is gone.
LinkFails(p) ==
  /\ At(p, "link")
  /\ \/ SqlFails(p) /\ users' \in {users} \cup {Linked(p) : i \in {call[p].id} \cap DOMAIN users}
     \/ call[p].id \notin DOMAIN users /\ UNCHANGED <<used, users>>
  /\ FailsTo(p, "undoEntry")
  /\ UNCHANGED <<dir, content, fresh, tokens, cache, mailed, past>>

Mail(p) ==
  /\ At(p, "mail")
  /\ mailed' = mailed \cup {call[p].id}
  /\ past' = [past EXCEPT !.acked = @ \cup {call[p].id}]
  /\ Returns(p)
  /\ UNCHANGED <<users, dir, content, fresh, tokens, cache, used>>

\* Mutant of MailFails: only the row is deleted.
MailFailsRowOnly(p) ==
  /\ At(p, "mail") /\ Use("fault")
  /\ mailed' \in {mailed, mailed \cup {call[p].id}}
  /\ Goes(p, "undoRow")
  /\ UNCHANGED <<users, dir, content, fresh, tokens, cache, past>>

\* The answer of the mail service is an error, whether it sent the mail or not.
MailFails(p) ==
  /\ At(p, "mail") /\ Use("fault")
  /\ mailed' \in {mailed, mailed \cup {call[p].id}}
  /\ Goes(p, "undoEntry")
  /\ UNCHANGED <<users, dir, content, fresh, tokens, cache, past>>

\* The rollback, whose own errors are ignored.
UndoEntry(p) ==
  /\ At(p, "undoEntry")
  /\ \/ /\ dir' = Without(dir, call[p].uuid)
        /\ Goes(p, "undoRow") /\ UNCHANGED used
     \/ /\ Use("fault") /\ UNCHANGED dir
        /\ Becomes(p, [call[p] EXCEPT !.at = "undoRow", !.clean = FALSE])
  /\ UNCHANGED <<users, content, fresh, tokens, cache, mailed, past>>

UndoRow(p) ==
  /\ At(p, "undoRow")
  /\ \/ /\ Works(p)
        /\ users' = Without(users, call[p].id)
        /\ past' = [past EXCEPT
                      !.rolledBack = @ \cup {call[p].id},
                      !.undone = @ \cup {f \in {[id |-> call[p].id, uuid |-> call[p].uuid]} : call[p].clean}]
     \/ SqlFails(p) /\ UNCHANGED <<users, past>>
  /\ Returns(p)
  /\ UNCHANGED <<dir, content, fresh, tokens, cache, mailed>>

\* Somebody enters the code that was mailed for account i (ConfirmUser).
Confirm(p, i) ==
  /\ i \in mailed \cap DOMAIN users /\ users[i].pending
  /\ Arrives(p, "confirm", NoCall)
  /\ users' = [users EXCEPT ![i].pending = FALSE]
  /\ UNCHANGED <<dir, content, fresh, tokens, cache, mailed, past>>

-----------------------------------------------------------------------------
(* Sign-in (loginHandler, googleLoginHandler, issueToken).                  *)

\* A call that will sign a token for account i.
SigningIn(op, i) == [NoCall EXCEPT !.op = op, !.at = "issue", !.id = i, !.uuid = users[i].uuid]

\* The right password, for an account that is validated.
Login(p, e) ==
  /\ \E i \in RowsOf(e) : ~users[i].pending /\ Arrives(p, "login", SigningIn("login", i))
  /\ UNCHANGED <<data, past>>

\* Google vouches for the email, whether the account is validated or not.
GoogleLogin(p, e) ==
  /\ \/ \E i \in RowsOf(e) : Arrives(p, "google", SigningIn("google", i))
     \/ /\ RowsOf(e) = {}
        /\ Arrives(p, "google", [NoCall EXCEPT !.op = "google", !.at = "insert", !.email = e,
                                               !.rights = DefaultPermissions])
  /\ UNCHANGED <<data, past>>

\* CreateUserFromGoogle, with the pseudo asked for.
CreateFromGoogle(p) ==
  /\ At(p, "insert") /\ Works(p)
  /\ \/ /\ RowsOf(call[p].email) = {}
        /\ users' = With(users, fresh, [email |-> call[p].email, pending |-> FALSE, uuid |-> None])
        /\ fresh' = fresh + 1
        /\ Becomes(p, [call[p] EXCEPT !.at = "grant", !.id = fresh])
     \/ /\ RowsOf(call[p].email) # {}
        /\ Goes(p, "reread") /\ UNCHANGED <<users, fresh>>
  /\ UNCHANGED <<dir, content, tokens, cache, mailed, past>>

\* The insert is applied though it returns an error.
InsertFails(p) ==
  /\ At(p, "insert") /\ SqlFails(p) /\ RowsOf(call[p].email) = {}
  /\ users' = With(users, fresh, [email |-> call[p].email, pending |-> FALSE, uuid |-> None])
  /\ fresh' = fresh + 1
  /\ Returns(p)
  /\ UNCHANGED <<dir, content, tokens, cache, mailed, past>>

\* "Lost a race": go on with the account that won it.
Reread(p) ==
  /\ At(p, "reread") /\ Works(p)
  /\ \/ RowsOf(call[p].email) = {} /\ Returns(p)
     \/ \E i \in RowsOf(call[p].email) :
          IF users[i].uuid # None THEN Becomes(p, SigningIn("google", i))
          ELSE Becomes(p, [call[p] EXCEPT !.at = "grant", !.id = i])
  /\ UNCHANGED <<data, past>>

IssueToken(p) ==
  /\ At(p, "issue")
  /\ tokens' = tokens \cup
       {Claims(call[p].id, IF call[p].uuid \in DOMAIN dir THEN dir[call[p].uuid] ELSE NoRights)}
  /\ Returns(p)
  /\ UNCHANGED <<users, dir, content, fresh, cache, mailed, used, past>>

-----------------------------------------------------------------------------
(* What a request may do (requireToken, currentPermissions).                *)

\* A request that carries token t: a vote, or something asked of account i.
Request(p, t, op, i, r) ==
  /\ Arrives(p, op, [NoCall EXCEPT !.op = op, !.at = "row", !.claims = t, !.id = i, !.rights = r])
  /\ UNCHANGED <<data, past>>

Caller(p) == call[p].claims.sub

\* UserByID: the caller's row gives the entry of the directory.
ReadRow(p) ==
  /\ At(p, "row")
  /\ \/ /\ Works(p) /\ Caller(p) \in DOMAIN users /\ users[Caller(p)].uuid # None
        /\ Becomes(p, [call[p] EXCEPT !.at = "entry", !.uuid = users[Caller(p)].uuid])
     \/ /\ Works(p) /\ (Caller(p) \in DOMAIN users => users[Caller(p)].uuid = None)
        /\ Goes(p, "recall")
     \/ SqlFails(p) /\ Goes(p, "recall")
  /\ UNCHANGED <<data, past>>

\* GetUser: the rights as they are now.
ReadEntry(p) ==
  /\ At(p, "entry")
  /\ \/ /\ call[p].uuid \in DOMAIN dir
        /\ Becomes(p, [call[p] EXCEPT !.at = "remember", !.seen = dir[call[p].uuid]])
        /\ past' = [past EXCEPT !.read = With(@, Caller(p), dir[call[p].uuid])]
        /\ UNCHANGED used
     \/ call[p].uuid \notin DOMAIN dir /\ Goes(p, "recall") /\ UNCHANGED <<used, past>>
     \/ Use("fault") /\ Goes(p, "recall") /\ UNCHANGED past
  /\ UNCHANGED data

Cached(i) == {k \in DOMAIN cache : cache[k].id = i}

\* The cache c without its k-th entry, and without the entry of account i.
Drop(c, k) == [j \in 1 .. Len(c) - 1 |-> IF j < k THEN c[j] ELSE c[j + 1]]
Others(c, i) ==
  LET at == {k \in DOMAIN c : c[k].id = i}
  IN  IF at = {} THEN c ELSE Drop(c, CHOOSE k \in at : TRUE)

\* The cache without the entry refreshed longest ago, when it is full.
EvictOldest(i) == IF Len(cache) >= MaxCached /\ Cached(i) = {} THEN Drop(cache, 1) ELSE cache

\* Mutant of Remembered: an entry that is there is kept.
RememberedOnce(i, r) ==
  IF Cached(i) # {} THEN cache ELSE Append(EvictOldest(i), [id |-> i, rights |-> r])

\* permissionCache.remember.
Remembered(i, r) == Append(Others(EvictOldest(i), i), [id |-> i, rights |-> r])

Remember(p) ==
  /\ At(p, "remember")
  /\ cache' = Remembered(Caller(p), call[p].seen)
  /\ Becomes(p, [call[p] EXCEPT !.at = "handle", !.claims = Claims(Caller(p), call[p].seen)])
  /\ UNCHANGED <<users, dir, content, fresh, tokens, mailed, used, past>>

\* permissionCache.recall, and then the token.
Recall(p) ==
  /\ At(p, "recall")
  /\ \/ \E k \in Cached(Caller(p)) :
          Becomes(p, [call[p] EXCEPT !.at = "handle", !.claims = Claims(Caller(p), cache[k].rights)])
     \/ /\ Cached(Caller(p)) = {}
        /\ Becomes(p, [call[p] EXCEPT !.at = "handle", !.claims = Claims(Caller(p), RightsOf(@))])
  /\ UNCHANGED <<data, used, past>>

-----------------------------------------------------------------------------
(* What requests do.                                                        *)

\* The calls that are writing the row or the entry of account i.
Writers(i) ==
  {p \in Proc : call[p].id = i /\ call[p].at \in
     {"grant", "link", "mail", "undoEntry", "undoRow", "update", "put", "unlink", "purge", "dropRow"}}

\* The requests of account i with a reading that the cache does not hold yet.
Readers(i) == {p \in Proc : At(p, "remember") /\ Caller(p) = i}

\* A deletion of account i has purged the repository, and has the row to delete.
Purged(i) == \E p \in Proc : At(p, "dropRow") /\ call[p].id = i

\* castVoteHandler: the vote is in the repository under the caller's id.
CastVote(p) ==
  /\ At(p, "handle") /\ call[p].op = "vote"
  /\ \/ /\ Allows(call[p].claims, "vote")
        /\ content' = content \cup {Caller(p)}
        /\ past' = IF Caller(p) \notin DOMAIN users \/ Purged(Caller(p))
                     THEN [past EXCEPT !.late = @ \cup {Caller(p)}] ELSE past
     \/ ~Allows(call[p].claims, "vote") /\ UNCHANGED <<content, past>>
  /\ Returns(p)
  /\ UNCHANGED <<users, dir, fresh, tokens, cache, mailed, used>>

\* The administrator is refused (requireRoot, one's own account), or the
\* account cannot be read.
Refused(p) ==
  /\ At(p, "handle") /\ call[p].op \in {"assign", "delete"}
  /\ \/ /\ \/ ~call[p].claims.root
           \/ call[p].op = "delete" /\ call[p].id = Caller(p)
           \/ call[p].id \notin DOMAIN users
        /\ UNCHANGED used
     \/ SqlFails(p)
  /\ Returns(p)
  /\ UNCHANGED <<data, past>>

\* assignPermissionsHandler reads the account.
Assign(p) ==
  /\ At(p, "handle") /\ call[p].op = "assign" /\ Works(p)
  /\ call[p].claims.root /\ call[p].id \in DOMAIN users
  /\ LET uuid == users[call[p].id].uuid
     IN  Becomes(p, [call[p] EXCEPT !.at = IF uuid = None THEN "grant" ELSE "update", !.uuid = uuid])
  /\ past' = [past EXCEPT !.granted = Without(@, call[p].id)]
  /\ UNCHANGED data

\* kvBackend.updateUser: it must be there, and then it is written.
UpdateGet(p) ==
  /\ At(p, "update")
  /\ IF call[p].uuid \in DOMAIN dir THEN Goes(p, "put") ELSE Returns(p)
  /\ UNCHANGED <<data, used, past>>

Given(p) == [past EXCEPT !.given = @ \cup {<<call[p].id, call[p].rights>>}]

\* Mutant of UpdatePut: the flag of an administrator is not taken back.
UpdatePutPerms(p) ==
  /\ At(p, "put")
  /\ dir' = With(dir, call[p].uuid,
                 IF call[p].uuid \in DOMAIN dir
                   THEN [call[p].rights EXCEPT !.root = @ \/ dir[call[p].uuid].root] ELSE call[p].rights)
  /\ past' = [Given(p) EXCEPT !.granted = With(@, call[p].id, call[p].rights)]
  /\ Returns(p)
  /\ UNCHANGED <<users, content, fresh, tokens, cache, mailed, used>>

UpdatePut(p) ==
  /\ At(p, "put")
  /\ dir' = With(dir, call[p].uuid, call[p].rights)
  /\ past' = [Given(p) EXCEPT !.granted = With(@, call[p].id, call[p].rights)]
  /\ Returns(p)
  /\ UNCHANGED <<users, content, fresh, tokens, cache, mailed, used>>

\* It fails; what was sent may be stored all the same.
UpdateFails(p) ==
  /\ At(p, "put") /\ Use("fault")
  /\ \/ dir' = With(dir, call[p].uuid, call[p].rights) /\ past' = Given(p)
     \/ UNCHANGED <<dir, past>>
  /\ Returns(p)
  /\ UNCHANGED <<users, content, fresh, tokens, cache, mailed>>

\* deleteUserHandler reads the account.
Delete(p) ==
  /\ At(p, "handle") /\ call[p].op = "delete" /\ Works(p)
  /\ call[p].claims.root /\ call[p].id # Caller(p) /\ call[p].id \in DOMAIN users
  /\ LET uuid == users[call[p].id].uuid
     IN  Becomes(p, [call[p] EXCEPT !.at = IF uuid = None THEN "purge" ELSE "unlink", !.uuid = uuid])
  /\ past' = [past EXCEPT !.doomed = @ \cup {call[p].id}]
  /\ UNCHANGED data

\* The entry goes first; one that is not there is no error.
DeleteEntry(p) ==
  /\ At(p, "unlink")
  /\ dir' = Without(dir, call[p].uuid)
  /\ Goes(p, "purge")
  /\ UNCHANGED <<users, content, fresh, tokens, cache, mailed, used, past>>

\* Mutant of Purge: an error is only logged.
PurgeLogged(p) ==
  /\ At(p, "purge")
  /\ \/ content' = content \ {call[p].id} /\ UNCHANGED used
     \/ Use("fault") /\ UNCHANGED content
  /\ Goes(p, "dropRow")
  /\ UNCHANGED <<users, dir, fresh, tokens, cache, mailed, past>>

\* DeleteUserTexts, DeleteUserFragments, DeleteUserVotes, DeleteUserSubscriptions.
Purge(p) ==
  /\ At(p, "purge")
  /\ content' = content \ {call[p].id} /\ UNCHANGED used
  /\ Goes(p, "dropRow")
  /\ UNCHANGED <<users, dir, fresh, tokens, cache, mailed, past>>

DeleteRow(p) ==
  /\ At(p, "dropRow") /\ Works(p)
  /\ users' = Without(users, call[p].id)
  /\ Returns(p)
  /\ UNCHANGED <<dir, content, fresh, tokens, cache, mailed, past>>

-----------------------------------------------------------------------------
(* Faults.                                                                  *)

\* A step that only returns an error when it fails: on the users table, or
\* on the directory and the repository.
GivesUp(p) ==
  /\ \/ call[p].at \in {"insert", "reread", "dropRow"} /\ SqlFails(p)
     \/ call[p].at \in {"issue", "update", "unlink", "purge"} /\ Use("fault")
  /\ Returns(p)
  /\ UNCHANGED <<data, past>>

\* The client goes away, and the request's context with it.
Disconnect(p) ==
  /\ call[p] # NoCall /\ ~call[p].gone /\ Use("disconnect")
  /\ Becomes(p, [call[p] EXCEPT !.gone = TRUE])
  /\ UNCHANGED <<data, past>>

\* The process ends, and another one starts with an empty cache.
Crash ==
  /\ Use("crash")
  /\ call' = [p \in Proc |-> NoCall]
  /\ cache' = <<>>
  /\ UNCHANGED <<users, dir, content, fresh, tokens, mailed, past>>

-----------------------------------------------------------------------------

Calls(p) ==
  \/ \E e \in Email : Register(p, e) \/ RegisterFails(p, e) \/ Login(p, e) \/ GoogleLogin(p, e)
  \/ \E i \in mailed : Confirm(p, i)
  \/ \E t \in tokens :
       \/ Request(p, t, "vote", None, NoRights)
       \/ \E i \in DOMAIN users : Request(p, t, "delete", i, NoRights)
       \/ \E i \in DOMAIN users, r \in Assigned : Request(p, t, "assign", i, r)

Steps(p) ==
  \/ Grant(p) \/ GrantFails(p) \/ Link(p) \/ LinkFails(p)
  \/ Mail(p) \/ MailFails(p) \/ UndoEntry(p) \/ UndoRow(p)
  \/ CreateFromGoogle(p) \/ InsertFails(p) \/ Reread(p) \/ IssueToken(p)
  \/ ReadRow(p) \/ ReadEntry(p) \/ Remember(p) \/ Recall(p)
  \/ CastVote(p) \/ Refused(p)
  \/ Assign(p) \/ UpdateGet(p) \/ UpdatePut(p) \/ UpdateFails(p)
  \/ Delete(p) \/ DeleteEntry(p) \/ Purge(p) \/ DeleteRow(p)
  \/ GivesUp(p) \/ Disconnect(p)

\* Which accounts have had two calls writing, or two readings to remember, at once.
Observe ==
  overlaps' =
    [writes |-> overlaps.writes \cup
       {i \in DOMAIN users' : Cardinality(Writers(i)') > 1},
     reads |-> overlaps.reads \cup
       {i \in 0 .. fresh : Cardinality(Readers(i)') > 1}]

Next ==
  /\ \/ \E p \in Proc : Calls(p) \/ Steps(p)
     \/ Crash
  /\ Observe

Spec == Init /\ [][Next]_vars

-----------------------------------------------------------------------------
(* Properties.                                                              *)

(* Whatever a request is decided by (the directory, the cache, the token    *)
(* and its mask), it is a set of rights that was once given to its caller   *)
(* as it is, or none: no mixture, no other account's, no bit that has moved *)
(* (currentPermissions, PermissionsFromBits).                               *)
NothingUngranted ==
  \A p \in Proc :
    At(p, "handle") =>
      RightsOf(call[p].claims) \in {NoRights} \cup
        {g[2] : g \in {g \in past.given : g[1] = Caller(p)}}

(* An account whose registration was acknowledged has its row, and the row  *)
(* points at rights that exist, until an administrator deletes it           *)
(* (registerHandler): whatever other sign-ups, assignments, rollbacks,      *)
(* disconnections and crashes there are.                                    *)
AckedAccountHasRights ==
  \A i \in past.acked \ past.doomed : i \in DOMAIN users /\ users[i].uuid \in DOMAIN dir

(* When the rollback of a registration has gone through, the row is gone    *)
(* and so is the entry that the directory had answered with                 *)
(* (registerHandler), unless someone else was writing the same account: no  *)
(* call of that account brings either back.  Two leftovers are outside it,  *)
(* because the rollback is not told of them: the entry that the directory   *)
(* stored though it answered with an error, which stays for good, and the   *)
(* row whose insert returned one.                                           *)
RolledBackStaysGone ==
  \A f \in past.undone :
    f.id \notin overlaps.writes => f.id \notin DOMAIN users /\ f.uuid \notin DOMAIN dir

(* What an administrator was told an account has been given is what it has, *)
(* until the next assignment or its deletion (assignPermissionsHandler),    *)
(* unless two calls were writing the account at once.                       *)
GrantKept ==
  \A i \in DOMAIN past.granted \ (past.doomed \cup overlaps.writes) :
    /\ i \in DOMAIN users /\ users[i].uuid \in DOMAIN dir
    /\ dir[users[i].uuid] = past.granted[i]

(* "The entry tracks the account rather than drifting" (remember): what the *)
(* cache holds for an account is the last reading of the directory, unless  *)
(* two readings were to be remembered at once; and it holds one entry for   *)
(* an account, and no more of them than its limit.                          *)
CacheTracksReads ==
  /\ Len(cache) <= MaxCached
  /\ \A k \in DOMAIN cache :
       LET i == cache[k].id
       IN  /\ Cached(i) = {k}
           /\ i \notin overlaps.reads /\ Readers(i) = {} => cache[k].rights = past.read[i]

(* No vote counts "under an ID nothing maps to any more" (deleteUserHandler) *)
(* that the deletion could have swept, however often it stopped half-way:   *)
(* what is left under an id without a row was cast when the deletion had    *)
(* swept the repository already, or by an account that signed in with       *)
(* Google and whose registration was rolled back afterwards.                *)
NothingLeftUnderDeletedId == content \subseteq DOMAIN users \cup past.late \cup past.rolledBack
=============================================================================
