--------------------------- MODULE TokenAuthProofs ---------------------------
(***************************************************************************)
(* Proofs about TokenAuth, for any number of requests and tokens.          *)
(***************************************************************************)
EXTENDS TokenAuth, TLAPS

(* Facts every step of a request shares. *)
LEMMA RowType ==
    ASSUME NEW t \in TokenRow, NEW b \in BOOLEAN
    PROVE  /\ [t EXCEPT !.enabled = b] \in TokenRow
           /\ [t EXCEPT !.enabled = b].id = t.id
           /\ [t EXCEPT !.enabled = b].text = t.text
  BY DEF TokenRow

LEMMA RespondType ==
    ASSUME TypeOK, NEW r \in Req, Respond(r)
    PROVE  /\ stage' \in [Req -> Stage]
           /\ request' \in [Req -> Request]
           /\ read' \in [Req -> [id : Nat, text : Nat, enabled : BOOLEAN]]
<1>1. "idle" \in Stage
  BY DEF Stage
<1>2. NoRequest \in Request /\ NoToken \in [id : Nat, text : Nat, enabled : BOOLEAN]
  BY DEF NoRequest, Request, NoToken
<1> QED
  BY <1>1, <1>2 DEF TypeOK, Respond, Move

(* Every step of a request keeps the types of the variables it sets. *)
LEMMA StepType ==
    ASSUME TypeOK, NEW r \in Req, Step(r)
    PROVE  /\ tokens' \subseteq TokenRow
           /\ seq' \in Nat /\ issued' \in Nat /\ faults' \in Nat
           /\ stage' \in [Req -> Stage]
           /\ request' \in [Req -> Request]
           /\ read' \in [Req -> [id : Nat, text : Nat, enabled : BOOLEAN]]
<1> DEFINE Goal ==
        /\ tokens' \subseteq TokenRow
        /\ seq' \in Nat /\ issued' \in Nat /\ faults' \in Nat
        /\ stage' \in [Req -> Stage]
        /\ request' \in [Req -> Request]
        /\ read' \in [Req -> [id : Nat, text : Nat, enabled : BOOLEAN]]
<1> USE AuthAssumption DEF TypeOK, DbOk, DbErr, Table
<1>1. ASSUME NEW q \in Requests, Arrive(r, q) PROVE Goal
  <2>1. q \in Request
    BY DEF Requests, Request
  <2> QED
    BY <1>1, <2>1 DEF Arrive, Move, Stage
<1>2. CASE Verify(r)
  BY <1>2, RespondType DEF Verify, Move, Stage
<1>3. CASE Touch(r)
  BY <1>3 DEF Touch, Move, Stage
<1>4. ASSUME NEW name \in Name, CreateToken(r, name) PROVE Goal
  <2> DEFINE new == [id |-> seq + 1, name |-> name, text |-> issued + 1, enabled |-> TRUE]
  <2>1. new \in TokenRow
    BY DEF TokenRow
  <2>2. Respond(r) /\ issued' = issued + 1 /\ faults' \in Nat
    BY <1>4 DEF CreateToken, create_token
  <2>3. \/ UNCHANGED <<tokens, seq>>
        \/ seq' = seq + 1 /\ tokens' = tokens \cup {new}
    BY <1>4, Zenon DEF CreateToken, create_token, NextId
  <2> HIDE DEF new
  <2>4. tokens' \subseteq TokenRow /\ seq' \in Nat
    BY <2>1, <2>3
  <2> QED
    BY <2>2, <2>4, RespondType
<1>5. CASE DeleteToken(r)
  BY <1>5, RespondType DEF DeleteToken, delete_token
<1>6. CASE ToggleRead(r)
  <2>1. \A t \in tokens : [id |-> t.id, text |-> t.text, enabled |-> t.enabled]
                             \in [id : Nat, text : Nat, enabled : BOOLEAN]
    BY DEF TokenRow
  <2> QED
    BY <1>6, <2>1, RespondType DEF ToggleRead, Move, Stage
<1>7. CASE ToggleWrite(r)
  <2>1. (~ read[r].enabled) \in BOOLEAN
    OBVIOUS
  <2>2. \A t \in tokens : [t EXCEPT !.enabled = ~ read[r].enabled] \in TokenRow
    BY <2>1, RowType
  <2>3. Respond(r) /\ UNCHANGED <<seq, issued>> /\ faults' \in Nat
    BY <1>7 DEF ToggleWrite, toggle_token
  <2>4. tokens' \subseteq TokenRow
    BY <1>7, <2>2 DEF ToggleWrite, toggle_token
  <2> QED
    BY <2>3, <2>4, RespondType
<1>8. CASE OtherHandler(r)
  BY <1>8, RespondType DEF OtherHandler
<1> QED
  BY <1>1, <1>2, <1>3, <1>4, <1>5, <1>6, <1>7, <1>8 DEF Step

(* A step moves one request, and leaves what the others hold. *)
LEMMA PlaceStep ==
    ASSUME TypeOK, NEW r \in Req, Step(r)
    PROVE  \A p \in Req : InPlace(p)'
<1>0. /\ stage \in [Req -> Stage] /\ request \in [Req -> Request]
      /\ read \in [Req -> [id : Nat, text : Nat, enabled : BOOLEAN]]
      /\ \A p \in Req : InPlace(p)
  BY DEF TypeOK
<1> SUFFICES ASSUME NEW p \in Req PROVE InPlace(p)'
  OBVIOUS
<1>1. CASE p # r
  <2>1. stage'[p] = stage[p] /\ request'[p] = request[p] /\ read'[p] = read[p]
    BY <1>0, <1>1 DEF Step, Arrive, Verify, Touch, CreateToken, DeleteToken, ToggleRead,
                      ToggleWrite, OtherHandler, Respond, Move
  <2> QED
    BY <1>0, <2>1 DEF InPlace
<1>2. CASE p = r
  <2>1. ASSUME Respond(r) PROVE InPlace(r)'
    BY <1>0, <2>1 DEF Respond, Move, InPlace
  <2>2. ASSUME NEW q \in Requests, Arrive(r, q) PROVE InPlace(r)'
    <3>1. stage'[r] = IF q.conn = "tcp" /\ RequireAuth THEN "verify" ELSE "handler"
      BY <1>0, <2>2 DEF Arrive, Move
    <3>2. request'[r] = q
      BY <1>0, <2>2 DEF Arrive
    <3> QED
      BY <3>1, <3>2 DEF InPlace
  <2>3. CASE Verify(r)
    <3>1. CASE Respond(r)
      BY <1>2, <2>1, <3>1
    <3>2. CASE ~ Respond(r)
      <4>1. stage[r] = "verify" /\ stage' = [stage EXCEPT ![r] = "touch"]
            /\ request' = request
        BY <2>3, <3>2 DEF Verify, Move
      <4>2. request[r].conn = "tcp" /\ RequireAuth
        BY <1>0, <4>1, Zenon DEF InPlace
      <4>3. stage'[r] = "touch"
        BY <1>0, <4>1
      <4> QED
        BY <1>2, <4>1, <4>2, <4>3 DEF InPlace
    <3> QED
      BY <3>1, <3>2
  <2>4. CASE Touch(r)
    BY <1>0, <2>4 DEF Touch, Move, InPlace
  <2>5. CASE ToggleRead(r) /\ ~ Respond(r)
    <3>1. PICK t \in tokens :
             /\ t.id = request[r].id
             /\ read' = [read EXCEPT ![r] = [id |-> t.id, text |-> t.text,
                                             enabled |-> t.enabled]]
      BY <2>5 DEF ToggleRead
    <3>2. request' = request /\ stage' = [stage EXCEPT ![r] = "toggle_write"]
          /\ request[r].op = "toggle"
      BY <2>5 DEF ToggleRead, Move
    <3> QED
      BY <1>0, <3>1, <3>2 DEF InPlace
  <2> QED
    BY <1>2, <2>1, <2>2, <2>3, <2>4, <2>5
       DEF Step, CreateToken, DeleteToken, ToggleWrite, OtherHandler
<1> QED
  BY <1>1, <1>2

(***************************************************************************)
(* The variables of the token API keep their types, and a toggle between   *)
(* its SELECT and its UPDATE holds the row its request names, for any      *)
(* number of concurrent requests.                                          *)
(***************************************************************************)
THEOREM TokenTypeCorrect == Spec => []TypeOK
<1>1. Init => TypeOK
  BY AuthAssumption DEF Init, TypeOK, Stage, NoRequest, Request, NoToken, InPlace
<1>2. TypeOK /\ [Next]_vars => TypeOK'
  <2> SUFFICES ASSUME TypeOK, [Next]_vars PROVE TypeOK'
    OBVIOUS
  <2>1. CASE UNCHANGED vars
    BY <2>1 DEF vars, TypeOK, InPlace
  <2>2. ASSUME Next PROVE TypeOK'
    <3>1. PICK r \in Req : Step(r)
      BY <2>2 DEF Next
    <3>2. EnabledTexts' \subseteq Nat
      BY <3>1, StepType DEF EnabledTexts, list_tokens, TokenRow
    <3>3. window' \in [Req -> SUBSET Nat]
      BY <2>2, <3>2 DEF Next, TypeOK
    <3> QED
      BY <3>1, <3>3, StepType, PlaceStep DEF TypeOK
  <2> QED
    BY <2>1, <2>2
<1> QED
  BY <1>1, <1>2, PTL DEF Spec

(***************************************************************************)
(* A request past auth_middleware carries a token that was enabled at some *)
(* moment of the request: the check auth/mod.rs makes before it calls the  *)
(* handler cannot be satisfied by a token revoked before the request came. *)
(***************************************************************************)
THEOREM TokensAuthorise == Spec => []AuthorisedInWindow
<1> DEFINE Past == {"touch", "handler", "toggle_write"}
<1>1. Init => AuthorisedInWindow
  BY DEF Init, AuthorisedInWindow
<1>2. TypeOK /\ AuthorisedInWindow /\ [Next]_vars => AuthorisedInWindow'
  <2> SUFFICES ASSUME TypeOK, AuthorisedInWindow, [Next]_vars PROVE AuthorisedInWindow'
    OBVIOUS
  <2>1. CASE UNCHANGED vars
    BY <2>1 DEF vars, AuthorisedInWindow
  <2>2. ASSUME Next PROVE AuthorisedInWindow'
    <3>1. PICK r \in Req : Step(r)
      BY <2>2 DEF Next
    <3> SUFFICES ASSUME NEW p \in Req, stage'[p] \in Past,
                        request'[p].conn = "tcp", RequireAuth
                 PROVE  request'[p].text \in window'[p]
      BY DEF AuthorisedInWindow
    <3>2. window'[p] = window[p] \cup EnabledTexts'
      BY <2>2 DEF Next
    <3>3. CASE p # r
      <4>1. stage'[p] = stage[p] /\ request'[p] = request[p]
        BY <3>1, <3>3 DEF TypeOK, Step, Arrive, Verify, Touch, CreateToken, create_token, DeleteToken, delete_token,
                          ToggleRead, ToggleWrite, OtherHandler, Respond, Move
      <4> QED
        BY <3>2, <4>1 DEF AuthorisedInWindow
    <3>4. CASE p = r
      <4>1. stage'[r] \in Past
        BY <3>4
      <4>2. ASSUME Respond(r) PROVE FALSE
        BY <4>1, <4>2 DEF Respond, Move, TypeOK
      <4>3. ASSUME NEW q \in Requests, Arrive(r, q) PROVE FALSE
        BY <4>1, <4>3, <3>4 DEF Arrive, Move, TypeOK
      <4>4. CASE Verify(r)
        <5>1. verify_token_in_db(request[r].text) /\ UNCHANGED <<tokens, request>>
          BY <4>2, <4>4 DEF Verify, Table
        <5>2. request[r].text \in EnabledTexts'
          BY <5>1 DEF verify_token_in_db, EnabledTexts, list_tokens
        <5> QED
          BY <3>2, <3>4, <5>1, <5>2
      <4>5. CASE Touch(r) \/ ToggleRead(r)
        <5>1. stage[r] \in Past /\ UNCHANGED request
          BY <4>2, <4>5 DEF Touch, ToggleRead
        <5> QED
          BY <3>2, <3>4, <5>1 DEF AuthorisedInWindow
      <4> QED
        BY <3>1, <4>2, <4>3, <4>4, <4>5
           DEF Step, CreateToken, create_token, DeleteToken, delete_token, ToggleWrite, toggle_token, OtherHandler
    <3> QED
      BY <3>3, <3>4
  <2> QED
    BY <2>1, <2>2
<1> QED
  BY <1>1, <1>2, TokenTypeCorrect, PTL DEF Spec

-----------------------------------------------------------------------------
(***************************************************************************)
(* What toggle_token has read stays true of its row until it writes: ids   *)
(* are unique, none is above the AUTOINCREMENT counter, so none comes back *)
(* after a deletion.                                                       *)
(***************************************************************************)
IdsUnique == \A t, u \in tokens : t.id = u.id => t = u
IdsBelow == \A t \in tokens : t.id <= seq
ReadStands ==
    \A r \in Req :
        stage[r] = "toggle_write" =>
            /\ read[r].id <= seq
            /\ \A t \in tokens : t.id = read[r].id => t.text = read[r].text

TokenInv == IdsUnique /\ IdsBelow /\ ReadStands

(* A step adds one row with a fresh id, or every row keeps id and text. *)
LEMMA RowsStep ==
    ASSUME TypeOK, NEW r \in Req, Step(r), IdsUnique, IdsBelow
    PROVE  /\ IdsUnique' /\ IdsBelow' /\ seq <= seq'
           /\ \A u \in tokens' : u.id <= seq =>
                  \E t \in tokens : t.id = u.id /\ t.text = u.text
<1> DEFINE Goal ==
        /\ IdsUnique' /\ IdsBelow' /\ seq <= seq'
        /\ \A u \in tokens' : u.id <= seq =>
               \E t \in tokens : t.id = u.id /\ t.text = u.text
<1>1. CASE UNCHANGED <<tokens, seq>>
  BY <1>1 DEF IdsUnique, IdsBelow, TypeOK
<1>2. ASSUME NEW name \in Name, CreateToken(r, name) PROVE Goal
  <2> DEFINE new == [id |-> seq + 1, name |-> name, text |-> issued + 1, enabled |-> TRUE]
  <2>1. \/ UNCHANGED <<tokens, seq>>
        \/ seq' = seq + 1 /\ tokens' = tokens \cup {new}
    BY <1>2, Zenon DEF CreateToken, create_token, NextId
  <2>2. new.id = seq + 1
    OBVIOUS
  <2>3. \A t \in tokens : t.id \in Nat /\ t.id <= seq
    BY DEF TypeOK, TokenRow, IdsBelow
  <2>4. seq \in Nat
    BY DEF TypeOK
  <2> HIDE DEF new
  <2>5. CASE seq' = seq + 1 /\ tokens' = tokens \cup {new}
    <3>1. IdsUnique'
      BY <2>2, <2>3, <2>4, <2>5 DEF IdsUnique
    <3>2. IdsBelow' /\ seq <= seq'
      BY <2>2, <2>3, <2>4, <2>5 DEF IdsBelow
    <3> QED
      BY <2>2, <2>3, <2>4, <2>5, <3>1, <3>2
  <2> QED
    BY <1>1, <2>1, <2>5
<1>3. CASE DeleteToken(r)
  <2>1. tokens' \subseteq tokens /\ seq' = seq
    BY <1>3 DEF DeleteToken, delete_token
  <2> QED
    BY <2>1 DEF IdsUnique, IdsBelow, TypeOK
<1>4. CASE ToggleWrite(r)
  <2> DEFINE Set(t) == IF t.id = read[r].id THEN [t EXCEPT !.enabled = ~ read[r].enabled] ELSE t
  <2>1. seq' = seq /\ (tokens' = tokens \/ tokens' = {Set(t) : t \in tokens})
    BY <1>4 DEF ToggleWrite, toggle_token
  <2>2. \A t \in tokens : Set(t).id = t.id /\ Set(t).text = t.text
    BY RowType DEF TypeOK
  <2> HIDE DEF Set
  <2>3. CASE tokens' = {Set(t) : t \in tokens}
    BY <2>1, <2>2, <2>3 DEF IdsUnique, IdsBelow, TypeOK
  <2> QED
    BY <1>1, <2>1, <2>3
<1> QED
  BY <1>1, <1>2, <1>3, <1>4 DEF Step, Arrive, Verify, Touch, ToggleRead, OtherHandler, Table

LEMMA TokenInvStep == TypeOK /\ TypeOK' /\ TokenInv /\ [Next]_vars => TokenInv'
<1> SUFFICES ASSUME TypeOK, TypeOK', TokenInv, [Next]_vars PROVE TokenInv'
  OBVIOUS
<1>1. CASE UNCHANGED vars
  BY <1>1 DEF vars, TokenInv, IdsUnique, IdsBelow, ReadStands
<1>2. ASSUME Next PROVE TokenInv'
  <2>1. PICK r \in Req : Step(r)
    BY <1>2 DEF Next
  <2>2. /\ IdsUnique' /\ IdsBelow' /\ seq <= seq'
        /\ \A u \in tokens' : u.id <= seq =>
               \E t \in tokens : t.id = u.id /\ t.text = u.text
    BY <2>1, RowsStep DEF TokenInv
  <2>3. ReadStands'
    <3> SUFFICES ASSUME NEW p \in Req, stage'[p] = "toggle_write"
                 PROVE  /\ read'[p].id <= seq'
                        /\ \A u \in tokens' : u.id = read'[p].id => u.text = read'[p].text
      BY DEF ReadStands
    <3>1. CASE stage[p] = "toggle_write" /\ read'[p] = read[p]
      <4>1. read[p].id <= seq /\ seq \in Nat /\ seq' \in Nat /\ read[p].id \in Nat
        BY <3>1 DEF TokenInv, ReadStands, TypeOK
      <4> QED
        BY <2>2, <3>1, <4>1 DEF TokenInv, ReadStands
    <3>2. CASE p = r /\ ToggleRead(r)
      <4>1. UNCHANGED <<tokens, seq>>
        BY <3>2 DEF ToggleRead, Table
      <4>2. ~ Respond(r)
        BY <3>2 DEF Respond, Move, TypeOK
      <4>3. PICK t \in tokens : read' = [read EXCEPT ![r] = [id |-> t.id, text |-> t.text,
                                                            enabled |-> t.enabled]]
        BY <3>2, <4>2 DEF ToggleRead
      <4>4. read'[p].id = t.id /\ read'[p].text = t.text
        BY <3>2, <4>3 DEF TypeOK
      <4> QED
        BY <4>1, <4>4 DEF TokenInv, IdsBelow, IdsUnique
    <3>3. CASE p # r
      BY <2>1, <3>1, <3>3 DEF TypeOK, Step, Arrive, Verify, Touch, CreateToken, create_token, DeleteToken, delete_token,
                              ToggleRead, ToggleWrite, OtherHandler, Respond, Move
    <3>4. CASE p = r /\ ~ ToggleRead(r)
      BY <2>1, <3>4 DEF TypeOK, Step, Arrive, Verify, Touch, CreateToken, create_token, DeleteToken, delete_token,
                        ToggleWrite, OtherHandler, Respond, Move
    <3> QED
      BY <3>2, <3>3, <3>4
  <2> QED
    BY <2>2, <2>3 DEF TokenInv
<1> QED
  BY <1>1, <1>2

(***************************************************************************)
(* toggle_token changes the token it read, for any number of concurrent    *)
(* creations, deletions and toggles between its SELECT and its UPDATE.     *)
(***************************************************************************)
THEOREM ToggleIsolation == Spec => ToggleHitsItsToken
<1>1. Init => TokenInv
  BY DEF Init, TokenInv, IdsUnique, IdsBelow, ReadStands
<1>2. TypeOK /\ TokenInv /\ [Next]_vars => [OnlyItsToken]_vars
  <2> SUFFICES ASSUME TypeOK, TokenInv, Next,
                      NEW p \in Req, NEW t \in tokens, NEW u \in tokens',
                      stage[p] = "toggle_write", stage'[p] = "idle",
                      t.id = u.id, t.enabled # u.enabled
               PROVE  t.text = read[p].text
    BY DEF OnlyItsToken
  <2>1. PICK r \in Req : Step(r)
    BY DEF Next
  <2>2. p = r
    BY <2>1 DEF TypeOK, Step, Arrive, Verify, Touch, CreateToken, create_token, DeleteToken, delete_token,
                ToggleRead, ToggleWrite, OtherHandler, Respond, Move
  <2>3. ToggleWrite(p)
    BY <2>1, <2>2 DEF Step, Arrive, Verify, Touch, CreateToken, create_token, DeleteToken, delete_token,
                      ToggleRead, OtherHandler
  <2> DEFINE Set(k) == IF k.id = read[p].id THEN [k EXCEPT !.enabled = ~ read[p].enabled] ELSE k
  <2>4. tokens' = tokens \/ tokens' = {Set(k) : k \in tokens}
    BY <2>3 DEF ToggleWrite, toggle_token
  <2>5. CASE tokens' = tokens
    BY <2>5 DEF TokenInv, IdsUnique
  <2>6. CASE tokens' = {Set(k) : k \in tokens}
    <3>1. PICK k \in tokens : u = Set(k)
      BY <2>6
    <3>2. u.id = k.id
      BY <3>1, RowType DEF TypeOK
    <3>3. k = t
      BY <3>2 DEF TokenInv, IdsUnique
    <3>4. t.id = read[p].id
      BY <3>1, <3>3
    <3> QED
      BY <3>4 DEF TokenInv, ReadStands
  <2> QED
    BY <2>4, <2>5, <2>6
<1> QED
  BY <1>1, <1>2, TokenInvStep, TokenTypeCorrect, PTL DEF Spec, ToggleHitsItsToken
=============================================================================
