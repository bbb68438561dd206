------------------------------- MODULE Accounts -------------------------------
(***************************************************************************)
(* Users, tokens and the requests that use them: the authentication        *)
(* middleware (internal/auth), the handlers of internal/api that read or   *)
(* change users and tokens, and EnsureRootUser, which the server and the   *)
(* command reset-password may run at the same time on one database.        *)
(*                                                                         *)
(* Every request is a sequence of SQL statements; each statement is one    *)
(* step, other requests run in between, and each may fail (the database    *)
(* has no busy timeout and up to 100 connections).  Foreign keys are not   *)
(* enforced, so a deleted user keeps its tokens.  Password hashes, names   *)
(* of tokens and the audit trail, which nothing reads back, are left out:  *)
(* CheckPassword and the validation of a body may succeed or not.          *)
(***************************************************************************)
EXTENDS Naturals, FiniteSets

CONSTANTS Ids,      \* user ids (never given out twice)
          Names,    \* user names
          RootName, \* "root"
          Tokens,   \* JTIs, fresh for each issue
          Workers,  \* requests being served at a time
          Idle,     \* IdleTimeoutSeconds of web sessions, in clock ticks
          Binders,  \* which handlers' bodies the JSON binder may decode
          Nobody,   \* user id 0, the caller in no-auth mode
          None

Public   == {"LoginWeb", "CreateAPITokenByPassword"}
AdminOps == {"AdminCreateUser", "AdminResetUserPassword", "AdminDeleteUser",
             "AdminKickSession", "AdminRevokeToken"}
SelfOps  == {"Logout", "ChangeMyPassword", "CreateMyAPIToken",
             "RevokeMyAllTokens", "RevokeMyTokenByJTI", "KickMySession"}
BodyOps  == Public \cup {"ChangeMyPassword", "CreateMyAPIToken",
                         "AdminCreateUser", "AdminResetUserPassword"}
Handlers == [public |-> Public, protected |-> SelfOps, admin |-> AdminOps]
Groups   == {"public", "protected", "admin"}

ASSUME AccountsAssumption ==
  /\ Idle \in Nat \ {0} /\ RootName \in Names
  /\ Binders \subseteq SUBSET BodyOps
  /\ Nobody \notin Ids \cup Names
  /\ None \notin Ids \cup Names \cup Tokens \cup {Nobody}

VARIABLES user,   \* the table user, a row for each id
          token,  \* the table auth_tokens, with the claims of each JWT
          noAuth, \* auth.NoAuth of the running server
          binder, \* the handlers whose body c.Bind().JSON decodes
          proc,   \* where the server and the command reset-password are
          req     \* each worker's request

vars == <<user, token, noAuth, binder, proc, req>>

FreeUser  == [state |-> "free", name |-> None, root |-> FALSE]
GoneUser  == [state |-> "deleted", name |-> None, root |-> FALSE]
FreeToken == [issued |-> FALSE, uid |-> Nobody, type |-> "api", root |-> FALSE,
              age |-> 0, revoked |-> FALSE, by |-> None]
AtRest    == [pc |-> "idle", group |-> "public", jti |-> None, uid |-> Nobody,
              root |-> FALSE, subj |-> None, sroot |-> FALSE, stype |-> "api", dead |-> FALSE]

Processes == {"server", "cli"}
Owners    == Ids \cup {Nobody}

TypeOK ==
  /\ user \in [Ids -> [state : {"free", "present", "deleted"},
                       name : Names \cup {None}, root : BOOLEAN]]
  /\ token \in [Tokens -> [issued : BOOLEAN, uid : Owners, type : {"web", "api"},
                           root : BOOLEAN, age : 0..Idle + 1,
                           revoked : BOOLEAN, by : Owners \cup {None}]]
  /\ noAuth \in BOOLEAN /\ binder \in SUBSET BodyOps
  /\ proc \in [Processes -> {"down", "ensure", "create", "up"}]
  /\ req \in [Workers -> [pc : {"idle", "auth", "expire", "touch", "run",
                                "issue", "sweep", "insert", "delete"},
                          group : Groups, jti : Tokens \cup {None},
                          uid : Owners, root : BOOLEAN,
                          subj : Owners \cup Names \cup {None}, sroot : BOOLEAN,
                          stype : {"web", "api"}, dead : BOOLEAN]]

Init ==
  /\ user = [i \in Ids |-> FreeUser] /\ token = [j \in Tokens |-> FreeToken]
  /\ noAuth = FALSE /\ binder \in Binders
  /\ proc = [p \in Processes |-> "down"] /\ req = [w \in Workers |-> AtRest]

Present(i) == user[i].state = "present"
UserNamed(n) == {i \in Ids : Present(i) /\ user[i].name = n}
AddUser(i, n, root) ==
  /\ user[i].state = "free" /\ UserNamed(n) = {}  \* username is a unique index
  /\ user' = [user EXCEPT ![i] = [state |-> "present", name |-> n, root |-> root]]

-----------------------------------------------------------------------------
(***************************************************************************)
(* Processes.  EnsureRootUser looks root up and creates it if it is        *)
(* missing; the loser of two creators gets an error and its process exits. *)
(* The command then stores root's new password hash, and ends.             *)
(* A process may also die at any point; the server takes its requests with *)
(* it, the database keeps what each statement did.                         *)
(***************************************************************************)
Launch(p) ==
  /\ proc[p] = "down" /\ proc' = [proc EXCEPT ![p] = "ensure"]
  /\ IF p = "server" THEN noAuth' \in BOOLEAN ELSE noAuth' = noAuth
  /\ UNCHANGED <<user, token, binder, req>>

Ensured(p) == proc' = [proc EXCEPT ![p] = IF p = "server" THEN "up" ELSE "down"]

EnsureRead(p) ==
  /\ proc[p] = "ensure"
  /\ IF UserNamed(RootName) = {}
     THEN proc' = [proc EXCEPT ![p] = "create"] /\ UNCHANGED user
     ELSE /\ Ensured(p)
          /\ \E i \in UserNamed(RootName) : user' = [user EXCEPT ![i].root = TRUE]
  /\ UNCHANGED <<token, noAuth, binder, req>>

EnsureCreate(p) ==
  /\ proc[p] = "create" /\ Ensured(p)
  /\ \E i \in Ids : AddUser(i, RootName, TRUE)
  /\ UNCHANGED <<token, noAuth, binder, req>>

Exit(p) ==
  /\ proc[p] # "down" /\ proc' = [proc EXCEPT ![p] = "down"]
  /\ IF p = "server"
     THEN req' = [w \in Workers |-> AtRest] /\ noAuth' = FALSE
     ELSE UNCHANGED <<req, noAuth>>
  /\ UNCHANGED <<user, token, binder>>

\* Time passes: sessions nobody uses grow old.
Tick ==
  /\ token' = [j \in Tokens |->
                 IF token[j].type = "web" /\ ~token[j].revoked /\ token[j].age <= Idle
                 THEN [token[j] EXCEPT !.age = @ + 1] ELSE token[j]]
  /\ UNCHANGED <<user, noAuth, binder, proc, req>>

-----------------------------------------------------------------------------
(***************************************************************************)
(* A request and the middleware.  Until a handler runs, only the group of  *)
(* its route matters.  dead records, when the request is sent,             *)
(* that its token has been revoked, or that its session is past its idle   *)
(* timeout and no request that was admitted in time is about to touch it.  *)
(***************************************************************************)
Touching(j) == \E w \in Workers : req[w].pc = "touch" /\ req[w].jti = j
Ended(j) == \/ token[j].revoked
            \/ token[j].type = "web" /\ token[j].age > Idle /\ ~Touching(j)

Send(w, group, j) ==
  /\ proc["server"] = "up" /\ req[w].pc = "idle"
  /\ (j = None) <=> (noAuth \/ group = "public")
  /\ j # None => token[j].issued
  /\ req' = [req EXCEPT ![w] =
       [AtRest EXCEPT !.pc = IF j = None THEN "run" ELSE "auth", !.group = group,
                      !.jti = j, !.root = (noAuth /\ group # "public"),
                      !.dead = (j # None /\ Ended(j))]]
  /\ UNCHANGED <<user, token, noAuth, binder, proc>>

Goto(w, at) == req' = [req EXCEPT ![w].pc = at]
Finish(w)   == req' = [req EXCEPT ![w] = AtRest]

Admit(w) ==
  LET t == token[req[w].jti] IN
  req' = [req EXCEPT ![w] = [@ EXCEPT !.pc = "run", !.uid = t.uid, !.root = t.root]]

\* The row is read once; what is done about it comes in later statements.
MutantRefused(t) == FALSE  \* bug: revoked_at is not looked at
Refused(t) == t.revoked

\* The guard idle > 0 is left out: cmd/root.go:104 replaces a time-out that is not
\* positive, so Idle \in Nat \ {0} for every session.
Authenticate(w) ==
  LET t == token[req[w].jti] IN
  /\ req[w].pc = "auth"
  /\ IF Refused(t) THEN Finish(w)
     ELSE IF t.type = "web"
     THEN Goto(w, IF t.age > Idle THEN "expire" ELSE "touch")
     ELSE Admit(w)
  /\ UNCHANGED <<user, token, noAuth, binder, proc>>

\* The last use of a revoked session tells nothing any more.
Over(t) == [t EXCEPT !.revoked = TRUE, !.age = 0]

\* revoked_at is written whatever it is now; revoked_by is left alone.
Expire(w) ==
  /\ req[w].pc = "expire" /\ Finish(w)
  /\ token' = [token EXCEPT ![req[w].jti] = Over(@)]
  /\ UNCHANGED <<user, noAuth, binder, proc>>

\* bug: the whole row that was read is saved
MutantSeen(j) == token' = [token EXCEPT ![j].age = 0, ![j].revoked = FALSE, ![j].by = None]
Seen(j) == token' = [token EXCEPT ![j].age = 0]

Touch(w) ==
  /\ req[w].pc = "touch" /\ Admit(w)
  /\ Seen(req[w].jti) \/ UNCHANGED token  \* a failed update is ignored
  /\ UNCHANGED <<user, noAuth, binder, proc>>

\* An answer that changes nothing: a list, or an error because a statement
\* failed, the credentials or the body were wrong, or the route is root's.
Answer(w) ==
  /\ req[w].pc \notin {"idle", "touch"} /\ Finish(w)
  /\ UNCHANGED <<user, token, noAuth, binder, proc>>

RequireRoot(w) == req[w].group = "admin" => req[w].root

Handling(w, op) ==
  /\ req[w].pc = "run" /\ op \in Handlers[req[w].group] /\ RequireRoot(w)
  /\ op \in BodyOps => op \in binder

-----------------------------------------------------------------------------
(***************************************************************************)
(* Handlers that issue tokens: the user's row is read, then the token's    *)
(* row is inserted and the JWT signed with what was read.                  *)
(***************************************************************************)
IssueFor(w, i, root, type) ==
  /\ req' = [req EXCEPT ![w] = [@ EXCEPT !.pc = "issue", !.subj = i, !.sroot = root,
                                         !.stype = type]]
  /\ UNCHANGED <<user, token, noAuth, binder, proc>>

LoginWeb(w, i) ==
  Handling(w, "LoginWeb") /\ Present(i) /\ IssueFor(w, i, user[i].root, "web")

CreateAPITokenByPassword(w, i) ==
  /\ Handling(w, "CreateAPITokenByPassword") /\ Present(i)
  /\ IssueFor(w, i, user[i].root, "api")

CreateMyAPIToken(w) ==
  Handling(w, "CreateMyAPIToken") /\ IssueFor(w, req[w].uid, req[w].root, "api")

Issue(w, j) ==
  /\ req[w].pc = "issue" /\ ~token[j].issued /\ Finish(w)
  /\ token' = [token EXCEPT ![j] =
       [FreeToken EXCEPT !.issued = TRUE, !.uid = req[w].subj, !.root = req[w].sroot,
                         !.type = req[w].stype]]
  /\ UNCHANGED <<user, noAuth, binder, proc>>

(***************************************************************************)
(* Handlers that revoke: one UPDATE of the rows that are not revoked yet.  *)
(***************************************************************************)
MutantRevoker(w) == req[w].jti  \* bug: revoked_by names the token
Revoker(w) == req[w].uid

Revoke(w, picked) ==
  /\ token' = [j \in Tokens |->
                 IF j \in picked /\ token[j].issued /\ ~token[j].revoked
                 THEN [Over(token[j]) EXCEPT !.by = Revoker(w)]
                 ELSE token[j]]
  /\ Finish(w) /\ UNCHANGED <<user, noAuth, binder, proc>>

TokensOf(u)   == {j \in Tokens : token[j].uid = u}
WebSessions   == {j \in Tokens : token[j].type = "web"}

\* In no-auth mode there is no token to log out.
Logout(w) ==
  Handling(w, "Logout") /\ req[w].jti # None /\ Revoke(w, {req[w].jti})
RevokeMyAllTokens(w) ==
  Handling(w, "RevokeMyAllTokens") /\ Revoke(w, TokensOf(req[w].uid))
\* bug: the WHERE clause has no user_id
MutantRevokeMyTokenByJTI(w, j) ==
  Handling(w, "RevokeMyTokenByJTI") /\ Revoke(w, {j})
RevokeMyTokenByJTI(w, j) ==
  Handling(w, "RevokeMyTokenByJTI") /\ Revoke(w, {j} \cap TokensOf(req[w].uid))
KickMySession(w, j) ==
  /\ Handling(w, "KickMySession")
  /\ Revoke(w, {j} \cap TokensOf(req[w].uid) \cap WebSessions)
AdminKickSession(w, j) ==
  Handling(w, "AdminKickSession") /\ Revoke(w, {j} \cap WebSessions)
AdminRevokeToken(w, j) ==
  Handling(w, "AdminRevokeToken") /\ Revoke(w, {j})

(***************************************************************************)
(* A new password is stored first; the tokens issued under the old one are *)
(* revoked by a later statement, whose failure nobody sees.                *)
(***************************************************************************)
SweepFor(w, i) ==
  /\ Present(i) /\ req' = [req EXCEPT ![w] = [@ EXCEPT !.pc = "sweep", !.subj = i]]
  /\ UNCHANGED <<user, token, noAuth, binder, proc>>

ChangeMyPassword(w) ==
  /\ Handling(w, "ChangeMyPassword") /\ req[w].uid \in Ids
  /\ SweepFor(w, req[w].uid)
AdminResetUserPassword(w, i) ==
  Handling(w, "AdminResetUserPassword") /\ SweepFor(w, i)
Sweep(w) == req[w].pc = "sweep" /\ Revoke(w, TokensOf(req[w].subj))

(***************************************************************************)
(* Users come and go by a look-up and a later insert or delete.            *)
(***************************************************************************)
AdminCreateUser(w, n) ==
  /\ Handling(w, "AdminCreateUser") /\ n # RootName /\ UserNamed(n) = {}
  /\ req' = [req EXCEPT ![w] = [@ EXCEPT !.pc = "insert", !.subj = n]]
  /\ UNCHANGED <<user, token, noAuth, binder, proc>>
InsertUser(w) ==
  /\ req[w].pc = "insert" /\ Finish(w)
  /\ \E i \in Ids : AddUser(i, req[w].subj, FALSE)
  /\ UNCHANGED <<token, noAuth, binder, proc>>

MutantDeletable(i) == Present(i)  \* bug: root is not protected
Deletable(i) == Present(i) /\ user[i].name # RootName /\ ~user[i].root
AdminDeleteUser(w, i) ==
  /\ Handling(w, "AdminDeleteUser") /\ Deletable(i)
  /\ req' = [req EXCEPT ![w] = [@ EXCEPT !.pc = "delete", !.subj = i]]
  /\ UNCHANGED <<user, token, noAuth, binder, proc>>
DeleteUser(w) ==
  /\ req[w].pc = "delete" /\ Finish(w)
  /\ user' = [user EXCEPT ![req[w].subj] = GoneUser]
  /\ UNCHANGED <<token, noAuth, binder, proc>>

-----------------------------------------------------------------------------
ProcessStep(p) == Launch(p) \/ EnsureRead(p) \/ EnsureCreate(p) \/ Exit(p)

Middleware(w) ==
  \/ \E g \in Groups, j \in Tokens \cup {None} : Send(w, g, j)
  \/ Authenticate(w) \/ Expire(w) \/ Touch(w) \/ Answer(w)

OwnTokens(w) ==
  \/ CreateMyAPIToken(w) \/ Logout(w) \/ RevokeMyAllTokens(w) \/ ChangeMyPassword(w)
  \/ Sweep(w)
  \/ \E i \in Ids : LoginWeb(w, i) \/ CreateAPITokenByPassword(w, i)
  \/ \E j \in Tokens : Issue(w, j) \/ RevokeMyTokenByJTI(w, j) \/ KickMySession(w, j)

Administration(w) ==
  \/ \E j \in Tokens : AdminKickSession(w, j) \/ AdminRevokeToken(w, j)
  \/ \E i \in Ids : AdminResetUserPassword(w, i) \/ AdminDeleteUser(w, i)
  \/ \E n \in Names : AdminCreateUser(w, n)
  \/ InsertUser(w) \/ DeleteUser(w)

Next ==
  \/ Tick
  \/ \E p \in Processes : ProcessStep(p)
  \/ \E w \in Workers : Middleware(w) \/ OwnTokens(w) \/ Administration(w)

Spec == Init /\ [][Next]_vars

-----------------------------------------------------------------------------
Past(w) == req[w].pc \notin {"idle", "auth", "expire"}

(***************************************************************************)
(* A token that was revoked, or a session that was idle too long, when the *)
(* request was sent never gets that request past the middleware, whatever  *)
(* other requests do between the middleware's statements.                  *)
(***************************************************************************)
NoUseAfterEnd == \A w \in Workers : Past(w) => ~req[w].dead

IsRoot(u) == u \in Ids /\ Present(u) /\ user[u].root

(***************************************************************************)
(* Claims are frozen in a JWT while users change: no token and no request  *)
(* in progress speaks for root unless its owner is the root user, or it    *)
(* comes from a server that ran without authentication (Nobody).           *)
(***************************************************************************)
NoEscalation ==
  /\ \A j \in Tokens : token[j].root => token[j].uid = Nobody \/ IsRoot(token[j].uid)
  /\ \A w \in Workers : req[w].root => req[w].uid = Nobody \/ IsRoot(req[w].uid)

(***************************************************************************)
(* Names are unique, the only root user is the one of that name, and it is *)
(* there while a server is up, whichever process created it.               *)
(***************************************************************************)
RootSafe ==
  /\ \A i, k \in Ids : Present(i) /\ Present(k) /\ user[i].name = user[k].name => i = k
  /\ \A i \in Ids : Present(i) => (user[i].root <=> user[i].name = RootName)
  /\ proc["server"] = "up" => UserNamed(RootName) # {}

(***************************************************************************)
(* A token is revoked by its owner or by root, never by another user.      *)
(***************************************************************************)
RevokedByEntitled ==
  \A j \in Tokens : token[j].by \in Ids =>
    token[j].revoked /\ (token[j].by = token[j].uid \/ IsRoot(token[j].by))

(***************************************************************************)
(* Nobody acts beyond their rights, by a token they hold or a row they end.*)
(***************************************************************************)
Entitled == NoEscalation /\ RevokedByEntitled

(***************************************************************************)
(* A revoked token stays revoked, by whoever it was: neither a request     *)
(* that read the row before nor a second revocation changes that.          *)
(***************************************************************************)
RevocationIsFinal ==
  [][\A j \in Tokens : token[j].revoked =>
       token'[j].revoked /\ token'[j].by = token[j].by]_vars

=============================================================================
