--------------------------- MODULE AccountsProofs ---------------------------
(***************************************************************************)
(* Proofs about Accounts, for any users, names, tokens, requests and idle  *)
(* timeout, and whichever bodies the binder decodes.                       *)
(*                                                                         *)
(* A step moves one request, or one token or user, or all tokens at once.  *)
(* What a pending request relies on is kept by every step of the others    *)
(* (Stable); what it will write next is good when it is noted (Good).      *)
(***************************************************************************)
EXTENDS Accounts, TLAPS

UserRow  == [state : {"free", "present", "deleted"}, name : Names \cup {None}, root : BOOLEAN]
TokenRow == [issued : BOOLEAN, uid : Owners, type : {"web", "api"}, root : BOOLEAN,
             age : 0..Idle + 1, revoked : BOOLEAN, by : Owners \cup {None}]
Request  == [pc : {"idle", "auth", "expire", "touch", "run", "issue", "sweep",
                   "insert", "delete"},
             group : Groups, jti : Tokens \cup {None}, uid : Owners, root : BOOLEAN,
             subj : Owners \cup Names \cup {None}, sroot : BOOLEAN,
             stype : {"web", "api"}, dead : BOOLEAN]

\* Who may speak for root, and who may revoke a token of user i.
ForRoot(u)     == u = Nobody \/ IsRoot(u)
MayRevoke(u, i) == u = i \/ ForRoot(u)

\* A user that AdminDeleteUser may delete, or somebody else has deleted.
Doomed(i) == /\ i \in Ids /\ user[i].state # "free"
             /\ user[i].name # RootName /\ ~user[i].root

\* What the next statement of a request relies on.
Good(r) ==
  /\ r.pc \in {"auth", "expire", "touch"} => r.jti \in Tokens /\ token[r.jti].issued
  /\ r.pc = "run" /\ r.jti # None => r.jti \in Tokens /\ token[r.jti].uid = r.uid
                                     /\ token[r.jti].issued
  /\ r.root => ForRoot(r.uid)
  /\ r.pc = "issue" => r.subj \in Owners /\ (r.sroot => ForRoot(r.subj))
  /\ r.pc = "sweep" => r.subj \in Ids /\ MayRevoke(r.uid, r.subj)
  /\ r.pc = "insert" => r.subj \in Names \ {RootName}
  /\ r.pc = "delete" => Doomed(r.subj)

\* A row that was never written says nothing, and claims are their owner's.
GoodToken(t) ==
  /\ ~t.issued => ~t.revoked /\ ~t.root /\ t.by = None
  /\ t.root => ForRoot(t.uid)
  /\ t.by \in Ids => t.revoked /\ MayRevoke(t.by, t.uid)

\* A dead request is still with the middleware, and its token still ended.
DeadInv == \A w \in Workers : req[w].dead =>
             /\ req[w].pc \in {"auth", "expire"} /\ req[w].jti \in Tokens
             /\ Ended(req[w].jti)

GoodInv == /\ \A w \in Workers : Good(req[w])
           /\ \A j \in Tokens : GoodToken(token[j])

IInv == TypeOK /\ RootSafe /\ GoodInv /\ DeadInv

-----------------------------------------------------------------------------
\* The types of rows.
LEMMA Rows ==
  TypeOK <=> /\ user \in [Ids -> UserRow] /\ token \in [Tokens -> TokenRow]
             /\ req \in [Workers -> Request]
             /\ noAuth \in BOOLEAN /\ binder \in SUBSET BodyOps
             /\ proc \in [Processes -> {"down", "ensure", "create", "up"}]
  BY DEF TypeOK, UserRow, TokenRow, Request

\* The constant rows.
LEMMA ConstantRows ==
  /\ FreeUser \in UserRow /\ GoneUser \in UserRow
  /\ FreeToken \in TokenRow /\ AtRest \in Request
  BY AccountsAssumption
  DEF FreeUser, GoneUser, FreeToken, AtRest, UserRow, TokenRow, Request, Owners, Groups

\* A request at rest relies on nothing.
LEMMA RestGood == Good(AtRest) /\ ~AtRest.dead
  BY DEF Good, AtRest

\* Before anything runs.
LEMMA InitIInv == Init => IInv
<1> SUFFICES ASSUME Init PROVE IInv
  OBVIOUS
<1>1. TypeOK
  BY ConstantRows, AccountsAssumption, Rows DEF Init
<1>2. RootSafe
  BY DEF Init, RootSafe, Present, FreeUser, Processes
<1>3. GoodInv
  BY RestGood, AccountsAssumption
  DEF Init, GoodInv, GoodToken, FreeToken, ForRoot
<1>4. DeadInv
  BY RestGood DEF Init, DeadInv
<1>. QED
  BY <1>1, <1>2, <1>3, <1>4 DEF IInv

-----------------------------------------------------------------------------
(***************************************************************************)
(* Users.                                                                  *)
(***************************************************************************)
\* What no step does to users: take root from the one who has it, or bring
\* a deleted one back.
StableUsers ==
  /\ \A i \in Ids : IsRoot(i) => IsRoot(i)'
  /\ \A i \in Ids : Doomed(i) => Doomed(i)'

\* A new row in the table of users.
LEMMA AddUserKeeps ==
  ASSUME TypeOK, RootSafe, NEW i \in Ids, NEW n \in Names, NEW root \in BOOLEAN,
         AddUser(i, n, root), root <=> n = RootName,
         proc'["server"] = "up" => proc["server"] = "up" \/ n = RootName
  PROVE  user' \in [Ids -> UserRow] /\ RootSafe' /\ StableUsers
<1> DEFINE r == [state |-> "present", name |-> n, root |-> root]
<1>1. r \in UserRow
  BY DEF UserRow
<1>2. /\ user \in [Ids -> UserRow] /\ user' = [user EXCEPT ![i] = r]
      /\ r.state = "present" /\ r.name = n /\ r.root = root
  BY Rows DEF AddUser
<1> HIDE DEF r
<1>3. /\ user' \in [Ids -> UserRow] /\ user'[i] = r
      /\ \A k \in Ids \ {i} : user'[k] = user[k]
  BY <1>1, <1>2
<1>4. user[i].state = "free" /\ \A k \in Ids : Present(k) => user[k].name # n
  BY DEF AddUser, UserNamed
<1>5. RootSafe'
  BY <1>2, <1>3, <1>4, AccountsAssumption DEF RootSafe, Present, UserNamed
<1>6. StableUsers
  BY <1>2, <1>3, <1>4 DEF StableUsers, IsRoot, Present, Doomed
<1>. QED
  BY <1>3, <1>5, <1>6

\* The root user that is found is flagged as such.
LEMMA FlagKeeps ==
  ASSUME TypeOK, RootSafe, NEW i \in UserNamed(RootName),
         user' = [user EXCEPT ![i].root = TRUE]
  PROVE  user' \in [Ids -> UserRow] /\ RootSafe' /\ StableUsers
<1>1. i \in Ids /\ user \in [Ids -> UserRow] /\ Present(i) /\ user[i].name = RootName
  BY Rows DEF UserNamed
<1>2. user[i].root = TRUE
  BY <1>1 DEF RootSafe, UserRow
<1>3. [user[i] EXCEPT !.root = TRUE] = user[i]
  BY <1>1, <1>2 DEF UserRow
<1>4. user' = user
  BY <1>1, <1>3
<1>5. UserNamed(RootName)' # {}
  BY <1>1, <1>4 DEF UserNamed, Present
<1>. QED
  BY <1>1, <1>4, <1>5 DEF RootSafe, StableUsers, IsRoot, Present, Doomed, UserNamed

\* A user who is not root is deleted.
LEMMA DeleteKeeps ==
  ASSUME TypeOK, RootSafe, NEW i \in Ids, Doomed(i), user' = [user EXCEPT ![i] = GoneUser],
         UNCHANGED proc
  PROVE  user' \in [Ids -> UserRow] /\ RootSafe' /\ StableUsers
<1>1. user \in [Ids -> UserRow] /\ GoneUser \in UserRow
  BY Rows, ConstantRows
<1>2. GoneUser.state = "deleted" /\ GoneUser.name = None /\ ~GoneUser.root
  BY DEF GoneUser
<1>3. /\ user' \in [Ids -> UserRow] /\ user'[i] = GoneUser
      /\ \A k \in Ids \ {i} : user'[k] = user[k]
  BY <1>1
<1>4. RootSafe'
  <2>1. ASSUME NEW k \in UserNamed(RootName) PROVE k \in UserNamed(RootName)'
    BY <1>3 DEF UserNamed, Doomed, Present
  <2>. QED
    BY <1>2, <1>3, <2>1 DEF RootSafe, Present
<1>5. StableUsers
  BY <1>2, <1>3, AccountsAssumption DEF StableUsers, IsRoot, Present, Doomed
<1>. QED
  BY <1>3, <1>4, <1>5

-----------------------------------------------------------------------------
(***************************************************************************)
(* Tokens.                                                                 *)
(***************************************************************************)
\* What no step does to a token that was issued or revoked.
Kept(t, u) ==
  /\ t.issued => u.issued /\ u.uid = t.uid /\ u.root = t.root /\ u.type = t.type
  /\ t.revoked => u.revoked /\ u.by = t.by
StableTokens == \A j \in Tokens : Kept(token[j], token'[j])

\* What a token step comes to.
TokensKept ==
  /\ token' \in [Tokens -> TokenRow] /\ StableTokens
  /\ \A j \in Tokens : GoodToken(token'[j])

\* Marking a row revoked.
LEMMA OverRow ==
  ASSUME NEW t \in TokenRow
  PROVE  /\ Over(t) \in TokenRow
         /\ Over(t).issued = t.issued /\ Over(t).uid = t.uid /\ Over(t).root = t.root
         /\ Over(t).type = t.type /\ Over(t).by = t.by /\ Over(t).revoked = TRUE
<1>1. 0 \in 0..Idle + 1
  BY AccountsAssumption
<1>2. Over(t) \in TokenRow
  BY <1>1 DEF Over, TokenRow
<1>3. /\ Over(t).issued = t.issued /\ Over(t).uid = t.uid /\ Over(t).root = t.root
      /\ Over(t).type = t.type /\ Over(t).by = t.by /\ Over(t).revoked = TRUE
  BY DEF Over, TokenRow
<1>. QED
  BY <1>2, <1>3

\* A row that keeps its owner and claims, and is revoked by its owner or root.
LEMMA RowKept ==
  ASSUME NEW t \in TokenRow, NEW u \in TokenRow, GoodToken(t),
         u.issued = t.issued, u.uid = t.uid, u.root = t.root, u.type = t.type,
         t.revoked => u.revoked,
         \/ u.by = t.by
         \/ t.issued /\ ~t.revoked /\ u.revoked /\ (u.by \in Ids => MayRevoke(u.by, u.uid)),
         ~t.issued => ~u.revoked
  PROVE  Kept(t, u) /\ GoodToken(u)
  BY DEF Kept, GoodToken, TokenRow

\* A statement about one row.
LEMMA OneRow ==
  ASSUME TypeOK, GoodInv, NEW j \in Tokens, NEW u \in TokenRow,
         token' = [token EXCEPT ![j] = u], Kept(token[j], u), GoodToken(u)
  PROVE  TokensKept
<1>1. token \in [Tokens -> TokenRow]
  BY Rows
<1>2. /\ token' \in [Tokens -> TokenRow] /\ token'[j] = u
      /\ \A k \in Tokens \ {j} : token'[k] = token[k]
  BY <1>1
<1>. QED
  BY <1>2 DEF TokensKept, StableTokens, GoodInv, Kept

\* A session is touched.
LEMMA SeenKeeps ==
  ASSUME TypeOK, GoodInv, NEW j \in Tokens, Seen(j)
  PROVE  TokensKept
<1> DEFINE u == [token[j] EXCEPT !.age = 0]
<1>1. token[j] \in TokenRow /\ GoodToken(token[j])
  BY Rows DEF GoodInv
<1>2. /\ u \in TokenRow /\ u.issued = token[j].issued /\ u.uid = token[j].uid
      /\ u.root = token[j].root /\ u.type = token[j].type /\ u.by = token[j].by
      /\ u.revoked = token[j].revoked
  BY <1>1, AccountsAssumption DEF TokenRow
<1>3. token' = [token EXCEPT ![j] = u]
  BY DEF Seen
<1>4. ~token[j].issued => ~token[j].revoked
  BY <1>1 DEF GoodToken
<1> HIDE DEF u
<1>5. Kept(token[j], u) /\ GoodToken(u)
  BY <1>1, <1>2, <1>4, RowKept
<1>. QED
  BY <1>2, <1>3, <1>5, OneRow

\* An idle session is marked revoked.
LEMMA ExpireKeeps ==
  ASSUME TypeOK, GoodInv, NEW j \in Tokens, token[j].issued,
         token' = [token EXCEPT ![j] = Over(@)]
  PROVE  TokensKept
<1>1. token[j] \in TokenRow /\ GoodToken(token[j]) /\ token \in [Tokens -> TokenRow]
  BY Rows DEF GoodInv
<1>2. Kept(token[j], Over(token[j])) /\ GoodToken(Over(token[j]))
  BY <1>1, OverRow, RowKept
<1>3. token' = [token EXCEPT ![j] = Over(token[j])]
  BY <1>1
<1>. QED
  BY <1>1, <1>2, <1>3, OverRow, OneRow

\* A token is issued to a user whose claims were read before.
LEMMA IssueKeeps ==
  ASSUME TypeOK, GoodInv, NEW w \in Workers, NEW j \in Tokens, Issue(w, j)
  PROVE  TokensKept
<1> DEFINE u == [FreeToken EXCEPT !.issued = TRUE, !.uid = req[w].subj, !.root = req[w].sroot,
                                  !.type = req[w].stype]
<1>1. /\ req[w] \in Request /\ req[w].subj \in Owners
      /\ req[w].sroot => ForRoot(req[w].subj)
      /\ FreeToken \in TokenRow
  BY Rows, ConstantRows DEF Issue, GoodInv, Good
<1>2. /\ u \in TokenRow /\ u.issued /\ u.uid = req[w].subj /\ u.root = req[w].sroot
      /\ u.by = None /\ ~u.revoked
  BY <1>1 DEF TokenRow, Request, FreeToken
<1>3. token' = [token EXCEPT ![j] = u] /\ ~token[j].issued
  BY DEF Issue
<1>4. ~token[j].revoked
  BY <1>3 DEF GoodInv, GoodToken
<1> HIDE DEF u
<1>5. Kept(token[j], u) /\ GoodToken(u)
  BY <1>1, <1>2, <1>3, <1>4, AccountsAssumption DEF Kept, GoodToken
<1>. QED
  BY <1>2, <1>3, <1>5, OneRow

\* Rows are revoked by somebody who may.
LEMMA RevokeKeeps ==
  ASSUME TypeOK, GoodInv, NEW w \in Workers, NEW picked, Revoke(w, picked),
         \A j \in Tokens \cap picked : MayRevoke(req[w].uid, token[j].uid)
  PROVE  TokensKept
<1>1. token \in [Tokens -> TokenRow] /\ req[w].uid \in Owners
  BY Rows DEF Request
<1>2. ASSUME NEW j \in Tokens
      PROVE  token'[j] \in TokenRow /\ Kept(token[j], token'[j]) /\ GoodToken(token'[j])
  <2>0. token[j] \in TokenRow /\ GoodToken(token[j])
    BY <1>1 DEF GoodInv
  <2>1. CASE j \in picked /\ token[j].issued /\ ~token[j].revoked
    <3> DEFINE v == Over(token[j])
               u == [v EXCEPT !.by = Revoker(w)]
    <3>1. /\ v \in TokenRow /\ v.issued = token[j].issued /\ v.uid = token[j].uid
          /\ v.root = token[j].root /\ v.type = token[j].type /\ v.revoked = TRUE
      BY <2>0, OverRow
    <3>2. token'[j] = u
      BY <2>1 DEF Revoke
    <3> HIDE DEF v
    <3>3. /\ u \in TokenRow /\ u.issued = v.issued /\ u.uid = v.uid /\ u.root = v.root
          /\ u.type = v.type /\ u.revoked = v.revoked /\ u.by = req[w].uid
      BY <1>1, <3>1 DEF TokenRow, Revoker
    <3> HIDE DEF u
    <3>4. MayRevoke(u.by, u.uid)
      BY <2>1, <3>1, <3>3
    <3>. QED
      BY <2>0, <2>1, <3>1, <3>2, <3>3, <3>4, RowKept
  <2>2. CASE ~(j \in picked /\ token[j].issued /\ ~token[j].revoked)
    <3>1. token'[j] = token[j]
      BY <2>2 DEF Revoke
    <3>. QED
      BY <2>0, <3>1 DEF Kept
  <2>. QED
    BY <2>1, <2>2
<1>3. token' \in [Tokens -> TokenRow]
  <2>1. token' = [j \in Tokens |-> token'[j]]
    BY DEF Revoke
  <2>. QED
    BY <1>2, <2>1
<1>. QED
  BY <1>2, <1>3 DEF TokensKept, StableTokens

\* Time passes.
LEMMA TickKeeps ==
  ASSUME TypeOK, GoodInv, Tick
  PROVE  TokensKept
<1>1. token \in [Tokens -> TokenRow]
  BY Rows
<1>2. ASSUME NEW j \in Tokens
      PROVE  token'[j] \in TokenRow /\ Kept(token[j], token'[j]) /\ GoodToken(token'[j])
  <2>0. token[j] \in TokenRow /\ GoodToken(token[j])
    BY <1>1 DEF GoodInv
  <2>1. CASE token[j].type = "web" /\ ~token[j].revoked /\ token[j].age <= Idle
    <3> DEFINE u == [token[j] EXCEPT !.age = @ + 1]
    <3>1. token'[j] = u
      BY <2>1 DEF Tick
    <3>2. u \in TokenRow
      BY <2>0, <2>1, AccountsAssumption DEF TokenRow
    <3>3. /\ u.issued = token[j].issued /\ u.uid = token[j].uid
          /\ u.root = token[j].root /\ u.type = token[j].type /\ u.by = token[j].by
          /\ u.revoked = token[j].revoked
      BY <2>0 DEF TokenRow
    <3> HIDE DEF u
    <3>. QED
      BY <2>0, <2>1, <3>1, <3>2, <3>3, RowKept
  <2>2. CASE ~(token[j].type = "web" /\ ~token[j].revoked /\ token[j].age <= Idle)
    <3>1. token'[j] = token[j]
      BY <2>2 DEF Tick
    <3>. QED
      BY <2>0, <3>1 DEF Kept
  <2>. QED
    BY <2>1, <2>2
<1>3. token' \in [Tokens -> TokenRow]
  <2>1. token' = [j \in Tokens |-> token'[j]]
    BY DEF Tick
  <2>. QED
    BY <1>2, <2>1
<1>. QED
  BY <1>2, <1>3 DEF TokensKept, StableTokens

-----------------------------------------------------------------------------
(***************************************************************************)
(* Requests.                                                               *)
(***************************************************************************)
DeadRow(r) == r.pc \in {"auth", "expire"} /\ r.jti \in Tokens /\ Ended(r.jti)

\* What a request is moved to: good, and dead or about to touch with reason.
RowOK(r) ==
  /\ Good(r) /\ (r.dead => DeadRow(r))
  /\ r.pc = "touch" => token[r.jti].age <= Idle /\ ~token[r.jti].revoked

RequestsKept ==
  /\ req' \in [Workers -> Request]
  /\ \A v \in Workers : req'[v] = req[v] \/ RowOK(req'[v])

\* One request is moved.
LEMMA OneRequest ==
  ASSUME TypeOK, NEW w \in Workers, NEW r \in Request, RowOK(r),
         req' = [req EXCEPT ![w] = r]
  PROVE  RequestsKept
<1>1. req \in [Workers -> Request]
  BY Rows
<1>2. /\ req' \in [Workers -> Request] /\ req'[w] = r
      /\ \A v \in Workers \ {w} : req'[v] = req[v]
  BY <1>1
<1>. QED
  BY <1>2 DEF RequestsKept

\* A request ends.
LEMMA FinishKeeps ==
  ASSUME TypeOK, NEW w \in Workers, Finish(w)
  PROVE  RequestsKept
<1>1. RowOK(AtRest)
  BY RestGood DEF RowOK, AtRest
<1>. QED
  BY <1>1, ConstantRows, OneRequest DEF Finish

\* A request is sent.
LEMMA SendKeeps ==
  ASSUME TypeOK, NEW w \in Workers, NEW g \in Groups, NEW j \in Tokens \cup {None},
         Send(w, g, j)
  PROVE  RequestsKept
<1> DEFINE d == j # None /\ Ended(j)
           a == noAuth /\ g # "public"
           p == IF j = None THEN "run" ELSE "auth"
           r == [AtRest EXCEPT !.pc = p, !.group = g, !.jti = j, !.root = a, !.dead = d]
<1>1. req' = [req EXCEPT ![w] = r]
  BY DEF Send
<1>2. a \in BOOLEAN /\ d \in BOOLEAN /\ p \in {"run", "auth"}
  OBVIOUS
<1>3. d => j \in Tokens /\ Ended(j)
  OBVIOUS
<1>4. p = "run" => j = None
  BY AccountsAssumption
<1>5. p = "auth" => j \in Tokens /\ token[j].issued
  BY DEF Send
<1>6. d => p = "auth"
  OBVIOUS
<1> HIDE DEF d, a, p
<1>7. /\ r \in Request /\ r.pc = p /\ r.jti = j /\ r.dead = d /\ r.uid = Nobody
  BY <1>2, ConstantRows DEF AtRest, Request
<1> HIDE DEF r
<1>8. Good(r)
  BY <1>2, <1>4, <1>5, <1>7 DEF Good, ForRoot
<1>9. RowOK(r)
  BY <1>2, <1>3, <1>6, <1>7, <1>8 DEF RowOK, DeadRow
<1>. QED
  BY <1>1, <1>7, <1>9, OneRequest

\* The middleware lets a request in with the claims of its token.
LEMMA AdmitKeeps ==
  ASSUME TypeOK, GoodInv, NEW w \in Workers, req[w].jti \in Tokens,
         token[req[w].jti].issued, ~req[w].dead, Admit(w)
  PROVE  RequestsKept
<1> DEFINE t == token[req[w].jti]
           r == [req[w] EXCEPT !.pc = "run", !.uid = t.uid, !.root = t.root]
<1>1. req[w] \in Request /\ t \in TokenRow /\ GoodToken(t)
  BY Rows DEF GoodInv
<1>2. t.uid \in Owners /\ t.root \in BOOLEAN /\ (t.root => ForRoot(t.uid))
  BY <1>1 DEF TokenRow, GoodToken
<1>3. req' = [req EXCEPT ![w] = r]
  BY DEF Admit
<1>4. /\ r \in Request /\ r.pc = "run" /\ r.jti = req[w].jti /\ r.uid = t.uid
      /\ r.root = t.root /\ r.dead = req[w].dead
  BY <1>1, <1>2 DEF Request
<1> HIDE DEF r
<1>5. RowOK(r)
  BY <1>2, <1>4 DEF RowOK, Good
<1>. QED
  BY <1>3, <1>4, <1>5, OneRequest

\* A request that is only moved on keeps all but its place.
LEMMA GotoRow ==
  ASSUME TypeOK, NEW w \in Workers, NEW at \in {"expire", "touch"}, Goto(w, at)
  PROVE  \E r \in Request : /\ req' = [req EXCEPT ![w] = r]
                            /\ r.pc = at /\ r.jti = req[w].jti /\ r.uid = req[w].uid
                            /\ r.root = req[w].root /\ r.dead = req[w].dead
<1> DEFINE r == [req[w] EXCEPT !.pc = at]
<1>1. req[w] \in Request
  BY Rows
<1>2. /\ r \in Request /\ r.pc = at /\ r.jti = req[w].jti /\ r.uid = req[w].uid
      /\ r.root = req[w].root /\ r.dead = req[w].dead
  BY <1>1 DEF Request
<1>3. req' = [req EXCEPT ![w] = r]
  BY DEF Goto
<1>. QED
  BY <1>2, <1>3

\* The middleware looks at the token's row.
LEMMA AuthenticateKeeps ==
  ASSUME TypeOK, GoodInv, DeadInv, NEW w \in Workers, Authenticate(w)
  PROVE  RequestsKept
<1> DEFINE j == req[w].jti
           t == token[req[w].jti]
<1>1. req[w].pc = "auth" /\ Good(req[w]) /\ j \in Tokens /\ t.issued
  BY DEF Authenticate, GoodInv, Good
<1>2. t \in TokenRow
  BY <1>1, Rows
<1>3. req[w].dead => t.revoked \/ (t.type = "web" /\ t.age > Idle)
  BY <1>1 DEF DeadInv, Ended
<1>4. CASE t.revoked
  BY <1>4, FinishKeeps DEF Authenticate, Refused
<1>5. CASE ~t.revoked /\ t.type = "web"
  <2> DEFINE at == IF t.age > Idle THEN "expire" ELSE "touch"
  <2>1. Goto(w, at) /\ at \in {"expire", "touch"}
    BY <1>5 DEF Authenticate, Refused
  <2>2. at = "touch" => t.age <= Idle
    BY <1>2, AccountsAssumption DEF TokenRow
  <2>3. at = "touch" => ~req[w].dead
    BY <1>3, <1>5
  <2> HIDE DEF at
  <2>4. PICK r \in Request : /\ req' = [req EXCEPT ![w] = r]
                             /\ r.pc = at /\ r.jti = j /\ r.uid = req[w].uid
                             /\ r.root = req[w].root /\ r.dead = req[w].dead
    BY <2>1, GotoRow
  <2>5. Good(r)
    BY <1>1, <2>1, <2>4 DEF Good
  <2>6. r.dead => DeadRow(r)
    BY <2>1, <2>3, <2>4 DEF DeadInv, DeadRow
  <2>7. RowOK(r)
    BY <1>5, <2>1, <2>2, <2>4, <2>5, <2>6 DEF RowOK
  <2>. QED
    BY <2>4, <2>7, OneRequest
<1>6. CASE ~t.revoked /\ t.type # "web"
  <2>1. Admit(w) /\ ~req[w].dead
    BY <1>3, <1>6 DEF Authenticate, Refused
  <2>. QED
    BY <1>1, <2>1, AdmitKeeps
<1>. QED
  BY <1>4, <1>5, <1>6

\* A handler runs past the middleware.
LEMMA Running ==
  ASSUME TypeOK, GoodInv, DeadInv, NEW w \in Workers, req[w].pc # "auth", req[w].pc # "expire"
  PROVE  req[w] \in Request /\ Good(req[w]) /\ ~req[w].dead
  BY Rows DEF GoodInv, DeadInv

\* Only root, or anybody without authentication, gets into the admin group.
LEMMA AdminOnly ==
  ASSUME TypeOK, GoodInv, NEW w \in Workers, NEW op \in AdminOps, Handling(w, op)
  PROVE  ForRoot(req[w].uid)
<1>1. req[w].group \in Groups /\ Good(req[w])
  BY Rows DEF Request, GoodInv
<1>2. op \notin Public /\ op \notin SelfOps
  BY DEF AdminOps, Public, SelfOps
<1>3. req[w].group = "admin"
  BY <1>1, <1>2 DEF Handling, Handlers, Groups
<1>. QED
  BY <1>1, <1>3 DEF Handling, RequireRoot, Good

\* A handler has read what a token will be issued for.
LEMMA IssueForKeeps ==
  ASSUME TypeOK, GoodInv, DeadInv, NEW w \in Workers, req[w].pc = "run",
         NEW i \in Owners, NEW root \in BOOLEAN, NEW type \in {"web", "api"},
         root => ForRoot(i), IssueFor(w, i, root, type)
  PROVE  RequestsKept
<1> DEFINE r == [req[w] EXCEPT !.pc = "issue", !.subj = i, !.sroot = root, !.stype = type]
<1>1. req[w] \in Request /\ Good(req[w]) /\ ~req[w].dead
  BY Running
<1>2. /\ r \in Request /\ r.pc = "issue" /\ r.subj = i /\ r.sroot = root
      /\ r.uid = req[w].uid /\ r.root = req[w].root /\ r.dead = req[w].dead
  BY <1>1 DEF Request
<1>3. req' = [req EXCEPT ![w] = r]
  BY DEF IssueFor
<1> HIDE DEF r
<1>4. RowOK(r)
  BY <1>1, <1>2 DEF RowOK, Good
<1>. QED
  BY <1>2, <1>3, <1>4, OneRequest

\* A handler has found whom its next statement is about.
LEMMA SubjectKeeps ==
  ASSUME TypeOK, GoodInv, DeadInv, NEW w \in Workers, req[w].pc = "run",
         NEW at \in {"sweep", "insert", "delete"}, NEW x \in Owners \cup Names,
         at = "sweep" => x \in Ids /\ MayRevoke(req[w].uid, x),
         at = "insert" => x \in Names \ {RootName},
         at = "delete" => Doomed(x),
         req' = [req EXCEPT ![w] = [@ EXCEPT !.pc = at, !.subj = x]]
  PROVE  RequestsKept
<1> DEFINE r == [req[w] EXCEPT !.pc = at, !.subj = x]
<1>1. req[w] \in Request /\ Good(req[w]) /\ ~req[w].dead
  BY Running
<1>2. /\ r \in Request /\ r.pc = at /\ r.subj = x
      /\ r.uid = req[w].uid /\ r.root = req[w].root /\ r.dead = req[w].dead
  BY <1>1 DEF Request
<1>3. req' = [req EXCEPT ![w] = r]
  OBVIOUS
<1> HIDE DEF r
<1>4. RowOK(r)
  BY <1>1, <1>2 DEF RowOK, Good
<1>. QED
  BY <1>2, <1>3, <1>4, OneRequest

-----------------------------------------------------------------------------
(***************************************************************************)
(* Every step, in the terms above.                                         *)
(***************************************************************************)
UsersKept == user' \in [Ids -> UserRow] /\ RootSafe' /\ StableUsers
RestKept  == /\ noAuth' \in BOOLEAN /\ binder' \in SUBSET BodyOps
             /\ proc' \in [Processes -> {"down", "ensure", "create", "up"}]

\* Sessions that have been idle too long stay so while nobody touches them.
TokensAge ==
  \A j \in Tokens : token[j].age > Idle /\ ~Touching(j) =>
                      token'[j].revoked \/ token'[j].age > Idle \/ ~token[j].issued

StepKept == UsersKept /\ TokensKept /\ RequestsKept /\ RestKept /\ TokensAge

\* What a step leaves alone is kept.
LEMMA Unchanged ==
  ASSUME IInv
  PROVE  /\ UNCHANGED <<user, proc>> => UsersKept
         /\ UNCHANGED token => TokensKept /\ TokensAge
         /\ UNCHANGED req => RequestsKept
         /\ UNCHANGED <<noAuth, binder, proc>> => RestKept
<1>1. UNCHANGED <<user, proc>> => UsersKept
  BY Rows DEF IInv, UsersKept, RootSafe, Present, UserNamed, StableUsers, IsRoot, Doomed
<1>2. UNCHANGED token => TokensKept
  BY Rows DEF IInv, TokensKept, StableTokens, Kept, GoodInv
<1>3. UNCHANGED token => TokensAge
  BY DEF TokensAge
<1>4. UNCHANGED req => RequestsKept
  BY Rows DEF IInv, RequestsKept
<1>5. UNCHANGED <<noAuth, binder, proc>> => RestKept
  BY Rows DEF IInv, RestKept
<1>. QED
  BY <1>1, <1>2, <1>3, <1>4, <1>5

\* A step that only moves a request.
LEMMA OnlyRequests ==
  ASSUME IInv, RequestsKept, UNCHANGED <<user, token, noAuth, binder, proc>>
  PROVE  StepKept
  BY Unchanged DEF StepKept

\* The handlers that note something for their next statement.
LEMMA NotingStep ==
  ASSUME IInv, NEW w \in Workers,
         \/ CreateMyAPIToken(w) \/ ChangeMyPassword(w)
         \/ \E i \in Ids : \/ LoginWeb(w, i) \/ CreateAPITokenByPassword(w, i)
                           \/ AdminResetUserPassword(w, i) \/ AdminDeleteUser(w, i)
         \/ \E n \in Names : AdminCreateUser(w, n)
  PROVE  StepKept
<1> USE DEF IInv
<1>0. user \in [Ids -> UserRow] /\ req[w] \in Request /\ Good(req[w])
  BY Rows DEF GoodInv
<1>1. ASSUME CreateMyAPIToken(w) PROVE StepKept
  <2>1. /\ req[w].uid \in Owners /\ req[w].root \in BOOLEAN
        /\ req[w].root => ForRoot(req[w].uid)
    BY <1>0 DEF Request, Good
  <2>2. req[w].pc = "run" /\ IssueFor(w, req[w].uid, req[w].root, "api")
    BY <1>1 DEF CreateMyAPIToken, Handling
  <2>3. RequestsKept
    BY <2>1, <2>2, IssueForKeeps
  <2>. QED
    BY <2>2, <2>3, OnlyRequests DEF IssueFor
<1>2. ASSUME NEW i \in Ids, LoginWeb(w, i) \/ CreateAPITokenByPassword(w, i) PROVE StepKept
  <2>1. PICK type \in {"web", "api"} : IssueFor(w, i, user[i].root, type)
    BY <1>2 DEF LoginWeb, CreateAPITokenByPassword
  <2>2. req[w].pc = "run" /\ Present(i)
    BY <1>2 DEF LoginWeb, CreateAPITokenByPassword, Handling
  <2>3. user[i].root \in BOOLEAN /\ (user[i].root => ForRoot(i)) /\ i \in Owners
    BY <1>0, <2>2 DEF UserRow, ForRoot, IsRoot, Owners
  <2>4. RequestsKept
    BY <2>1, <2>2, <2>3, IssueForKeeps
  <2>. QED
    BY <2>1, <2>4, OnlyRequests DEF IssueFor
<1>3. ASSUME ChangeMyPassword(w) PROVE StepKept
  <2>1. /\ req[w].pc = "run" /\ req[w].uid \in Ids /\ req[w].uid \in Owners
        /\ SweepFor(w, req[w].uid)
    BY <1>3 DEF ChangeMyPassword, Handling, Owners
  <2>2. MayRevoke(req[w].uid, req[w].uid)
    BY DEF MayRevoke
  <2>3. RequestsKept
    BY <2>1, <2>2, SubjectKeeps DEF SweepFor
  <2>. QED
    BY <2>1, <2>3, OnlyRequests DEF SweepFor
<1>4. ASSUME NEW i \in Ids, AdminResetUserPassword(w, i) PROVE StepKept
  <2>1. req[w].pc = "run" /\ SweepFor(w, i) /\ i \in Owners
    BY <1>4 DEF AdminResetUserPassword, Handling, Owners
  <2>2. MayRevoke(req[w].uid, i)
    BY <1>4, AdminOnly DEF AdminResetUserPassword, AdminOps, MayRevoke
  <2>3. RequestsKept
    BY <2>1, <2>2, SubjectKeeps DEF SweepFor
  <2>. QED
    BY <2>1, <2>3, OnlyRequests DEF SweepFor
<1>5. ASSUME NEW i \in Ids, AdminDeleteUser(w, i) PROVE StepKept
  <2>1. req[w].pc = "run" /\ Doomed(i) /\ i \in Owners
    BY <1>5 DEF AdminDeleteUser, Handling, Deletable, Present, Doomed, Owners
  <2>2. RequestsKept
    BY <1>5, <2>1, SubjectKeeps DEF AdminDeleteUser
  <2>. QED
    BY <1>5, <2>2, OnlyRequests DEF AdminDeleteUser
<1>6. ASSUME NEW n \in Names, AdminCreateUser(w, n) PROVE StepKept
  <2>1. req[w].pc = "run" /\ n \in Names \ {RootName}
    BY <1>6 DEF AdminCreateUser, Handling
  <2>2. RequestsKept
    BY <1>6, <2>1, SubjectKeeps DEF AdminCreateUser
  <2>. QED
    BY <1>6, <2>2, OnlyRequests DEF AdminCreateUser
<1>. QED
  BY <1>1, <1>2, <1>3, <1>4, <1>5, <1>6

\* A token's row changes and the request is over.
LEMMA TokenEnds ==
  ASSUME IInv, NEW w \in Workers, Finish(w), TokensKept, TokensAge,
         UNCHANGED <<user, noAuth, binder, proc>>
  PROVE  StepKept
  BY Unchanged, FinishKeeps DEF IInv, StepKept

\* Revoking leaves no session merely idle.
LEMMA RevokeStep ==
  ASSUME IInv, NEW w \in Workers, NEW picked, Revoke(w, picked),
         \A j \in Tokens \cap picked : MayRevoke(req[w].uid, token[j].uid)
  PROVE  StepKept
<1>1. TokensKept
  BY RevokeKeeps DEF IInv
<1>2. ASSUME NEW j \in Tokens
      PROVE  token'[j].revoked \/ token'[j] = token[j]
  <2> DEFINE v == Over(token[j])
             u == [v EXCEPT !.by = Revoker(w)]
  <2>1. token[j] \in TokenRow
    BY Rows DEF IInv
  <2>2. v \in TokenRow /\ v.revoked = TRUE
    BY <2>1, OverRow
  <2>3. token'[j] = u \/ token'[j] = token[j]
    BY DEF Revoke
  <2> HIDE DEF v
  <2>4. u.revoked = TRUE
    BY <2>2 DEF TokenRow
  <2>. QED
    BY <2>3, <2>4
<1>3. TokensAge
  BY <1>2 DEF TokensAge
<1>. QED
  BY <1>1, <1>3, TokenEnds DEF Revoke

\* Logging out, and revoking one's own tokens or, as root, anybody's.
LEMMA RevokingStep ==
  ASSUME IInv, NEW w \in Workers,
         \/ Logout(w) \/ RevokeMyAllTokens(w) \/ Sweep(w)
         \/ \E j \in Tokens : \/ RevokeMyTokenByJTI(w, j) \/ KickMySession(w, j)
                              \/ AdminKickSession(w, j) \/ AdminRevokeToken(w, j)
  PROVE  StepKept
<1> USE DEF IInv
<1>0. Good(req[w])
  BY DEF GoodInv
<1>1. ASSUME Logout(w) PROVE StepKept
  <2>1. /\ req[w].pc = "run" /\ req[w].jti # None
        /\ Revoke(w, {req[w].jti})
    BY <1>1 DEF Logout, Handling
  <2>2. token[req[w].jti].uid = req[w].uid
    BY <1>0, <2>1 DEF Good
  <2>. QED
    BY <2>1, <2>2, RevokeStep DEF MayRevoke
<1>2. ASSUME RevokeMyAllTokens(w) PROVE StepKept
  BY <1>2, RevokeStep DEF RevokeMyAllTokens, TokensOf, MayRevoke
<1>3. ASSUME Sweep(w) PROVE StepKept
  BY <1>0, <1>3, RevokeStep DEF Sweep, TokensOf, Good
<1>4. ASSUME NEW j \in Tokens, RevokeMyTokenByJTI(w, j) \/ KickMySession(w, j) PROVE StepKept
  <2>1. PICK picked : Revoke(w, picked) /\ picked \subseteq TokensOf(req[w].uid)
    BY <1>4 DEF RevokeMyTokenByJTI, KickMySession
  <2>. QED
    BY <2>1, RevokeStep DEF TokensOf, MayRevoke
<1>5. ASSUME NEW j \in Tokens, AdminKickSession(w, j) \/ AdminRevokeToken(w, j) PROVE StepKept
  <2>1. ForRoot(req[w].uid)
    BY <1>5, AdminOnly DEF AdminKickSession, AdminRevokeToken, AdminOps
  <2>2. PICK picked : Revoke(w, picked)
    BY <1>5 DEF AdminKickSession, AdminRevokeToken
  <2>. QED
    BY <2>1, <2>2, RevokeStep DEF MayRevoke
<1>. QED
  BY <1>1, <1>2, <1>3, <1>4, <1>5

\* The middleware.
LEMMA MiddlewareStep ==
  ASSUME IInv, NEW w \in Workers, Middleware(w)
  PROVE  StepKept
<1> USE DEF IInv
<1>0. token \in [Tokens -> TokenRow] /\ Good(req[w])
  BY Rows DEF GoodInv
<1>1. ASSUME NEW g \in Groups, NEW j \in Tokens \cup {None}, Send(w, g, j) PROVE StepKept
  BY <1>1, SendKeeps, OnlyRequests DEF Send
<1>2. ASSUME Authenticate(w) PROVE StepKept
  BY <1>2, AuthenticateKeeps, OnlyRequests DEF Authenticate
<1>3. ASSUME Answer(w) PROVE StepKept
  BY <1>3, FinishKeeps, OnlyRequests DEF Answer
<1>4. ASSUME Expire(w) PROVE StepKept
  <2> DEFINE j == req[w].jti
  <2>1. /\ j \in Tokens /\ token[j].issued /\ Finish(w)
        /\ token' = [token EXCEPT ![j] = Over(@)]
    BY <1>0, <1>4 DEF Expire, Good
  <2>2. TokensKept
    BY <2>1, ExpireKeeps
  <2>3. token'[j].revoked /\ \A k \in Tokens \ {j} : token'[k] = token[k]
    BY <1>0, <2>1, OverRow
  <2>4. TokensAge
    BY <2>3 DEF TokensAge
  <2>. QED
    BY <1>4, <2>1, <2>2, <2>4, TokenEnds DEF Expire
<1>5. ASSUME Touch(w) PROVE StepKept
  <2> DEFINE j == req[w].jti
  <2>1. /\ req[w].pc = "touch" /\ j \in Tokens /\ token[j].issued /\ Admit(w)
        /\ Seen(j) \/ UNCHANGED token
    BY <1>0, <1>5 DEF Touch, Good
  <2>2. TokensKept
    BY <2>1, SeenKeeps, Unchanged
  <2>3. Touching(j) /\ \A k \in Tokens \ {j} : token'[k] = token[k]
    BY <1>0, <2>1 DEF Touching, Seen
  <2>4. TokensAge
    BY <2>3 DEF TokensAge
  <2>5. ~req[w].dead
    BY <2>1, Running
  <2>6. RequestsKept
    BY <2>1, <2>5, AdmitKeeps
  <2>. QED
    BY <1>5, <2>2, <2>4, <2>6, Unchanged DEF Touch, StepKept
<1>. QED
  BY <1>1, <1>2, <1>3, <1>4, <1>5 DEF Middleware

\* A token is issued; users are created and deleted.
LEMMA WritingStep ==
  ASSUME IInv, NEW w \in Workers,
         (\E j \in Tokens : Issue(w, j)) \/ InsertUser(w) \/ DeleteUser(w)
  PROVE  StepKept
<1> USE DEF IInv
<1>0. token \in [Tokens -> TokenRow] /\ Good(req[w])
  BY Rows DEF GoodInv
<1>1. ASSUME NEW j \in Tokens, Issue(w, j) PROVE StepKept
  <2>1. TokensKept
    BY <1>1, IssueKeeps
  <2>2. ~token[j].issued /\ \A k \in Tokens \ {j} : token'[k] = token[k]
    BY <1>0, <1>1 DEF Issue
  <2>3. TokensAge
    BY <2>2 DEF TokensAge
  <2>. QED
    BY <1>1, <2>1, <2>3, TokenEnds DEF Issue
<1>2. ASSUME InsertUser(w) PROVE StepKept
  <2>1. PICK i \in Ids : AddUser(i, req[w].subj, FALSE)
    BY <1>2 DEF InsertUser
  <2>2. req[w].subj \in Names \ {RootName} /\ UNCHANGED proc
    BY <1>0, <1>2 DEF InsertUser, Good
  <2>3. UsersKept
    BY <2>1, <2>2, AddUserKeeps DEF UsersKept
  <2>. QED
    BY <1>2, <2>3, FinishKeeps, Unchanged DEF InsertUser, StepKept
<1>3. ASSUME DeleteUser(w) PROVE StepKept
  <2>1. /\ Doomed(req[w].subj) /\ UNCHANGED proc
        /\ user' = [user EXCEPT ![req[w].subj] = GoneUser]
    BY <1>0, <1>3 DEF DeleteUser, Good
  <2>2. UsersKept
    BY <2>1, DeleteKeeps DEF UsersKept, Doomed
  <2>. QED
    BY <1>3, <2>2, FinishKeeps, Unchanged DEF DeleteUser, StepKept
<1>. QED
  BY <1>1, <1>2, <1>3

\* With the users as they are, a server that was not up is not up.
LEMMA SameUsers ==
  ASSUME RootSafe, TypeOK, UNCHANGED user,
         proc'["server"] = "up" => proc["server"] = "up"
  PROVE  UsersKept
  BY Rows DEF UsersKept, RootSafe, Present, UserNamed, StableUsers, IsRoot, Doomed

\* Processes come, look for root, create it and go.
LEMMA ProcessKeeps ==
  ASSUME IInv, NEW p \in Processes, ProcessStep(p)
  PROVE  StepKept
<1> USE DEF IInv
<1>0. /\ proc \in [Processes -> {"down", "ensure", "create", "up"}]
      /\ noAuth \in BOOLEAN /\ binder \in SUBSET BodyOps /\ "server" \in Processes
  BY Rows DEF Processes
<1>1. ASSUME Launch(p) PROVE StepKept
  <2>1. UsersKept
    BY <1>0, <1>1, SameUsers DEF Launch
  <2>2. RestKept
    BY <1>0, <1>1 DEF Launch, RestKept
  <2>. QED
    BY <1>1, <2>1, <2>2, Unchanged DEF Launch, StepKept
<1>2. ASSUME EnsureRead(p) PROVE StepKept
  <2>1. RestKept
    BY <1>0, <1>2 DEF EnsureRead, Ensured, RestKept
  <2>2. CASE UserNamed(RootName) = {}
    <3>1. UNCHANGED user /\ (proc'["server"] = "up" => proc["server"] = "up")
      BY <1>0, <1>2, <2>2 DEF EnsureRead
    <3>2. UsersKept
      BY <3>1, SameUsers
    <3>. QED
      BY <1>2, <2>1, <3>2, Unchanged DEF EnsureRead, StepKept
  <2>3. CASE UserNamed(RootName) # {}
    <3>1. PICK i \in UserNamed(RootName) : user' = [user EXCEPT ![i].root = TRUE]
      BY <1>2, <2>3 DEF EnsureRead
    <3>2. UsersKept
      BY <3>1, FlagKeeps DEF UsersKept
    <3>. QED
      BY <1>2, <2>1, <3>2, Unchanged DEF EnsureRead, StepKept
  <2>. QED
    BY <2>2, <2>3
<1>3. ASSUME EnsureCreate(p) PROVE StepKept
  <2>1. PICK i \in Ids : AddUser(i, RootName, TRUE)
    BY <1>3 DEF EnsureCreate
  <2>2. UsersKept
    BY <2>1, AddUserKeeps, AccountsAssumption DEF UsersKept
  <2>3. RestKept
    BY <1>0, <1>3 DEF EnsureCreate, Ensured, RestKept
  <2>. QED
    BY <1>3, <2>2, <2>3, Unchanged DEF EnsureCreate, StepKept
<1>4. ASSUME Exit(p) PROVE StepKept
  <2>1. UsersKept
    BY <1>0, <1>4, SameUsers DEF Exit
  <2>2. RestKept
    BY <1>0, <1>4 DEF Exit, RestKept
  <2>3. RowOK(AtRest)
    BY RestGood DEF RowOK, AtRest
  <2>4. RequestsKept
    BY <1>4, <2>3, ConstantRows, Unchanged DEF Exit, RequestsKept
  <2>. QED
    BY <1>4, <2>1, <2>2, <2>4, Unchanged DEF Exit, StepKept
<1>. QED
  BY <1>1, <1>2, <1>3, <1>4 DEF ProcessStep

\* Time passes.
LEMMA TickStep ==
  ASSUME IInv, Tick
  PROVE  StepKept
<1>1. TokensKept
  BY TickKeeps DEF IInv
<1>2. \A j \in Tokens : token[j].age > Idle => token'[j] = token[j]
  <2>1. ASSUME NEW j \in Tokens, token[j].age > Idle PROVE ~(token[j].age <= Idle)
    BY <2>1, Rows, AccountsAssumption DEF IInv, TokenRow
  <2>. QED
    BY <2>1 DEF Tick
<1>3. TokensAge
  BY <1>2 DEF TokensAge
<1>. QED
  BY <1>1, <1>3, Unchanged DEF Tick, StepKept

\* All of them.
LEMMA EveryStep == IInv /\ [Next]_vars => StepKept
<1> SUFFICES ASSUME IInv, [Next]_vars PROVE StepKept
  OBVIOUS
<1>1. CASE UNCHANGED vars
  BY <1>1, Unchanged DEF vars, StepKept
<1>2. ASSUME NEW w \in Workers, OwnTokens(w) \/ Administration(w) PROVE StepKept
  BY <1>2, NotingStep, RevokingStep, WritingStep DEF OwnTokens, Administration
<1>. QED
  BY <1>1, <1>2, MiddlewareStep, ProcessKeeps, TickStep DEF Next

-----------------------------------------------------------------------------
\* What a request relies on outlives the steps of others.
LEMMA GoodStable ==
  ASSUME NEW r \in Request, Good(r), StableUsers, StableTokens
  PROVE  Good(r)'
<1>1. ASSUME NEW u, ForRoot(u) PROVE ForRoot(u)'
  BY <1>1 DEF ForRoot, IsRoot, StableUsers
<1>2. ASSUME NEW u, NEW i, MayRevoke(u, i) PROVE MayRevoke(u, i)'
  BY <1>1, <1>2 DEF MayRevoke
<1>3. ASSUME NEW i, Doomed(i) PROVE Doomed(i)'
  BY <1>3 DEF Doomed, StableUsers
<1>4. \A j \in Tokens : token[j].issued => token'[j].issued /\ token'[j].uid = token[j].uid
  BY DEF StableTokens, Kept
<1>. QED
  BY <1>1, <1>2, <1>3, <1>4 DEF Good

\* So do the claims of a token.
LEMMA GoodTokenStable ==
  ASSUME NEW t \in TokenRow, GoodToken(t), StableUsers
  PROVE  GoodToken(t)'
<1>1. ASSUME NEW u, ForRoot(u) PROVE ForRoot(u)'
  BY <1>1 DEF ForRoot, IsRoot, StableUsers
<1>2. ASSUME NEW u, NEW i, MayRevoke(u, i) PROVE MayRevoke(u, i)'
  BY <1>1, <1>2 DEF MayRevoke
<1>. QED
  BY <1>1, <1>2 DEF GoodToken

\* A token that has ended stays ended.
LEMMA EndedStable ==
  ASSUME IInv, StepKept, NEW j \in Tokens, token[j].issued, Ended(j)
  PROVE  Ended(j)'
<1>1. CASE token[j].revoked
  BY <1>1 DEF Ended, StepKept, TokensKept, StableTokens, Kept
<1>2. CASE ~token[j].revoked
  <2>1. token[j].type = "web" /\ token[j].age > Idle /\ ~Touching(j)
    BY <1>2 DEF Ended
  <2>2. token'[j].type = "web" /\ (token'[j].revoked \/ token'[j].age > Idle)
    BY <2>1 DEF StepKept, TokensAge, TokensKept, StableTokens, Kept
  <2>3. ASSUME NEW v \in Workers, req'[v].pc = "touch", req'[v].jti = j PROVE FALSE
    <3>1. CASE req'[v] = req[v]
      BY <2>1, <2>3, <3>1 DEF Touching
    <3>2. CASE RowOK(req'[v])
      <4>1. token[j].age <= Idle
        BY <2>3, <3>2 DEF RowOK
      <4>2. token[j].age \in Nat
        BY Rows, AccountsAssumption DEF IInv, TokenRow
      <4>. QED
        BY <2>1, <4>1, <4>2, AccountsAssumption
    <3>. QED
      BY <3>1, <3>2 DEF StepKept, RequestsKept
  <2>. QED
    BY <2>2, <2>3 DEF Ended, Touching
<1>. QED
  BY <1>1, <1>2

\* The invariant is inductive.
LEMMA StepIInv == IInv /\ [Next]_vars => IInv'
<1> SUFFICES ASSUME IInv, [Next]_vars PROVE IInv'
  OBVIOUS
<1>0. StepKept
  BY EveryStep
<1>1. TypeOK'
  <2>1. /\ user' \in [Ids -> UserRow] /\ token' \in [Tokens -> TokenRow]
        /\ req' \in [Workers -> Request]
        /\ noAuth' \in BOOLEAN /\ binder' \in SUBSET BodyOps
        /\ proc' \in [Processes -> {"down", "ensure", "create", "up"}]
    BY <1>0 DEF StepKept, UsersKept, TokensKept, RequestsKept, RestKept
  <2>. QED
    BY <2>1 DEF TypeOK, UserRow, TokenRow, Request
<1>2. RootSafe'
  BY <1>0 DEF StepKept, UsersKept
<1>3. \A v \in Workers : Good(req'[v])
  BY <1>0 DEF IInv, GoodInv, StepKept, RequestsKept, RowOK
<1>4. GoodInv'
  <2>1. ASSUME NEW v \in Workers PROVE Good(req[v])'
    <3>1. PICK r \in Request : r = req'[v] /\ Good(r)
      BY <1>0, <1>3 DEF StepKept, RequestsKept
    <3>2. Good(r)'
      BY <1>0, <3>1, GoodStable DEF StepKept, UsersKept, TokensKept
    <3>. QED
      BY <3>1, <3>2
  <2>2. ASSUME NEW j \in Tokens PROVE GoodToken(token[j])'
    <3>1. PICK t \in TokenRow : t = token'[j] /\ GoodToken(t)
      BY <1>0 DEF StepKept, TokensKept
    <3>2. GoodToken(t)'
      BY <1>0, <3>1, GoodTokenStable DEF StepKept, UsersKept
    <3>. QED
      BY <3>1, <3>2
  <2>. QED
    BY <2>1, <2>2 DEF GoodInv
<1>5. DeadInv'
  <2> SUFFICES ASSUME NEW v \in Workers, req'[v].dead
               PROVE  /\ req'[v].pc \in {"auth", "expire"} /\ req'[v].jti \in Tokens
                      /\ Ended(req[v].jti)'
    BY DEF DeadInv
  <2>1. DeadRow(req'[v])
    BY <1>0 DEF IInv, DeadInv, DeadRow, StepKept, RequestsKept, RowOK
  <2>2. PICK j \in Tokens : j = req'[v].jti
    BY <2>1 DEF DeadRow
  <2>3. Ended(j) /\ token[j].issued
    BY <1>3, <2>1, <2>2 DEF DeadRow, Good
  <2>4. Ended(j)'
    BY <1>0, <2>3, EndedStable
  <2>. QED
    BY <2>1, <2>2, <2>4 DEF DeadRow
<1>. QED
  BY <1>1, <1>2, <1>4, <1>5 DEF IInv

\* The inductive invariant holds in every reachable state.
THEOREM Invariance == Spec => []IInv
  BY InitIInv, StepIInv, PTL DEF Spec

\* Users, tokens and requests keep their types.
THEOREM TypeCorrect == Spec => []TypeOK
  BY Invariance, PTL DEF IInv

\* No request whose token had ended when it was sent gets past the middleware.
THEOREM NoUseAfterEndAlways == Spec => []NoUseAfterEnd
<1>1. IInv => NoUseAfterEnd
  BY DEF IInv, DeadInv, NoUseAfterEnd, Past
<1>. QED
  BY <1>1, Invariance, PTL

\* There is one root user, and it is there while a server is up.
THEOREM RootSafeAlways == Spec => []RootSafe
  BY Invariance, PTL DEF IInv

\* Nobody acts beyond their rights.
THEOREM EntitledAlways == Spec => []Entitled
<1>1. IInv => Entitled
  <2> SUFFICES ASSUME IInv PROVE Entitled
    OBVIOUS
  <2>1. ASSUME NEW j \in Tokens, token[j].root
        PROVE  token[j].uid = Nobody \/ IsRoot(token[j].uid)
    BY <2>1 DEF IInv, GoodInv, GoodToken, ForRoot
  <2>2. ASSUME NEW w \in Workers, req[w].root
        PROVE  req[w].uid = Nobody \/ IsRoot(req[w].uid)
    BY <2>2 DEF IInv, GoodInv, Good, ForRoot
  <2>3. ASSUME NEW j \in Tokens, token[j].by \in Ids
        PROVE  token[j].revoked /\ (token[j].by = token[j].uid \/ IsRoot(token[j].by))
    <3>1. token[j].by # Nobody
      BY <2>3, AccountsAssumption
    <3>2. GoodToken(token[j])
      BY DEF IInv, GoodInv
    <3>. QED
      BY <2>3, <3>1, <3>2 DEF GoodToken, MayRevoke, ForRoot
  <2>4. NoEscalation
    BY <2>1, <2>2 DEF NoEscalation
  <2>5. RevokedByEntitled
    BY <2>3 DEF RevokedByEntitled
  <2>. QED
    BY <2>4, <2>5 DEF Entitled
<1>. QED
  BY <1>1, Invariance, PTL

\* A revocation is never undone or claimed by another.
THEOREM RevocationIsFinalAlways == Spec => RevocationIsFinal
<1>1. IInv /\ [Next]_vars =>
        [\A j \in Tokens : token[j].revoked =>
           token'[j].revoked /\ token'[j].by = token[j].by]_vars
  BY EveryStep DEF StepKept, TokensKept, StableTokens, Kept
<1>. QED
  BY <1>1, Invariance, PTL DEF Spec, RevocationIsFinal

\* A token that has ended, by a revocation or because its session was idle too
\* long, is never good again: no request that read its row before comes to touch
\* it, no other revives the session, and its JTI is not issued again.
THEOREM EndedForGood ==
  ASSUME NEW j \in Tokens
  PROVE  Spec => [](token[j].issued /\ Ended(j) => [](token[j].issued /\ Ended(j)))
<1>1. IInv /\ token[j].issued /\ Ended(j) /\ [Next]_vars => (token[j].issued /\ Ended(j))'
  <2> SUFFICES ASSUME IInv, token[j].issued, Ended(j), [Next]_vars
               PROVE  token'[j].issued /\ Ended(j)'
    OBVIOUS
  <2>1. StepKept
    BY EveryStep
  <2>2. token'[j].issued
    BY <2>1 DEF StepKept, TokensKept, StableTokens, Kept
  <2>3. Ended(j)'
    BY <2>1, EndedStable
  <2>. QED
    BY <2>2, <2>3
<1>. QED
  BY <1>1, Invariance, PTL DEF Spec

\* The user that is root stays so, whatever handlers and whichever of the server
\* and the command reset-password do at the same time: no delete that looked at
\* the row before takes it, and no second root replaces it.
THEOREM RootForGood ==
  ASSUME NEW i \in Ids
  PROVE  Spec => [](IsRoot(i) => [](\A k \in Ids : IsRoot(k) <=> k = i))
<1>1. IInv /\ IsRoot(i) /\ [Next]_vars => IsRoot(i)'
  BY EveryStep DEF StepKept, UsersKept, StableUsers
<1>2. IInv /\ IsRoot(i) => \A k \in Ids : IsRoot(k) <=> k = i
  BY DEF IInv, RootSafe, IsRoot
<1>. QED
  BY <1>1, <1>2, Invariance, PTL DEF Spec
=============================================================================
