----------------------------- MODULE TokenAuth -----------------------------
(***************************************************************************)
(* API tokens: the middleware of the TCP listener (auth/mod.rs), the       *)
(* handlers that manage tokens (handlers/tokens.rs) and the api_tokens     *)
(* table (db/sqlite.rs).  Requests run concurrently; every database call   *)
(* is an await.  The plain text of a token is a number that generate()     *)
(* never returns twice; the Argon2 hash in the table stands for it, since  *)
(* verify accepts a hash exactly for the text it was made from.            *)
(***************************************************************************)
EXTENDS Naturals

CONSTANTS
    Req,            \* concurrent requests
    Name,           \* token names administrators choose
    RequireAuth,    \* config.api.require_authentication
    MaxTokens,      \* bound on the tokens ever created
    MaxFaults       \* bound on the number of failing database calls

ASSUME AuthAssumption ==
    /\ RequireAuth \in BOOLEAN
    /\ MaxTokens \in Nat
    /\ MaxFaults \in Nat

VARIABLES
    tokens,         \* rows [id, name, text, enabled]
    seq,            \* the AUTOINCREMENT counter
    issued,         \* texts generated so far: 1..issued
    stage,          \* where each request is
    request,        \* what each request asks for
    read,           \* the row toggle_token has read
    window,         \* history: texts enabled at some moment of the request
    faults

vars == <<tokens, seq, issued, stage, request, read, window, faults>>

TokenRow == [id : Nat, name : Name, text : Nat, enabled : BOOLEAN]

(* Text 0 stands for a missing or malformed Authorization header. *)
Request == [conn : {"unix", "tcp"}, text : Nat, op : {"create", "delete", "toggle", "other"},
            id : Nat]

NoRequest == [conn |-> "unix", text |-> 0, op |-> "other", id |-> 0]
NoToken == [id |-> 0, text |-> 0, enabled |-> FALSE]

Stage == {"idle", "verify", "touch", "handler", "toggle_write"}

(* Only the TCP router verifies, and a toggle holds the row asked for. *)
InPlace(r) ==
    /\ stage[r] \in {"verify", "touch"} => request[r].conn = "tcp" /\ RequireAuth
    /\ stage[r] = "toggle_write" =>
          request[r].op = "toggle" /\ read[r].id = request[r].id

(***************************************************************************)
(* The types, and what a request holds across its awaits: the row that     *)
(* toggle_token (handlers/tokens.rs) found among all tokens is the one its *)
(* path names.                                                             *)
(***************************************************************************)
TypeOK ==
    /\ tokens \subseteq TokenRow
    /\ seq \in Nat
    /\ issued \in Nat
    /\ stage \in [Req -> Stage]
    /\ request \in [Req -> Request]
    /\ read \in [Req -> [id : Nat, text : Nat, enabled : BOOLEAN]]
    /\ window \in [Req -> SUBSET Nat]
    /\ faults \in Nat
    /\ \A r \in Req : InPlace(r)

Init ==
    /\ tokens = {} /\ seq = 0 /\ issued = 0
    /\ stage = [r \in Req |-> "idle"]
    /\ request = [r \in Req |-> NoRequest]
    /\ read = [r \in Req |-> NoToken]
    /\ window = [r \in Req |-> {}]
    /\ faults = 0

-----------------------------------------------------------------------------
(* The table. *)

DbOk  == UNCHANGED faults
DbErr == faults < MaxFaults /\ faults' = faults + 1

(* SELECT token_hash, enabled ... WHERE enabled = 1 *)
list_tokens == {t \in tokens : t.enabled}

EnabledTexts == {t.text : t \in list_tokens}

(* Mutant: tokens are listed without the WHERE clause and not looked at. *)
verify_any_token(text) == \E t \in tokens : t.text = text

(* The first row whose hash fits the text; its enabled column decides. *)
verify_token_in_db(text) == \E t \in list_tokens : t.text = text /\ t.enabled

(* Mutant: ids without AUTOINCREMENT, where the largest one comes back. *)
NewestIdPlusOne ==
    IF tokens = {} THEN 1
    ELSE (CHOOSE t \in tokens : \A u \in tokens : u.id <= t.id).id + 1

(* INTEGER PRIMARY KEY AUTOINCREMENT *)
NextId == seq + 1

create_token(name, text) ==
    tokens \cup {[id |-> NextId, name |-> name, text |-> text, enabled |-> TRUE]}

delete_token(id) == {t \in tokens : t.id # id}

toggle_token(id, e) ==
    {IF t.id = id THEN [t EXCEPT !.enabled = e] ELSE t : t \in tokens}

-----------------------------------------------------------------------------
(* Requests. *)

Move(r, next) == stage' = [stage EXCEPT ![r] = next]

(* The response is sent and the request is gone. *)
Respond(r) ==
    /\ Move(r, "idle")
    /\ request' = [request EXCEPT ![r] = NoRequest]
    /\ read' = [read EXCEPT ![r] = NoToken]

Table == <<tokens, seq, issued>>

(***************************************************************************)
(* A request arrives.  The Unix listener's router has no middleware, nor   *)
(* has the TCP one when authentication is off.                             *)
(***************************************************************************)
Arrive(r, q) ==
    /\ stage[r] = "idle"
    /\ request' = [request EXCEPT ![r] = q]
    /\ Move(r, IF q.conn = "tcp" /\ RequireAuth THEN "verify" ELSE "handler")
    /\ UNCHANGED <<Table, read, faults>>

(* auth_middleware: no bearer token, a failing query and no match are 401. *)
Verify(r) ==
    /\ stage[r] = "verify"
    /\ \/ /\ DbOk /\ verify_token_in_db(request[r].text)
          /\ Move(r, "touch")
          /\ UNCHANGED <<request, read>>
       \/ DbOk /\ ~ verify_token_in_db(request[r].text) /\ Respond(r)
       \/ DbErr /\ Respond(r)
    /\ UNCHANGED Table

(* update_token_last_used: its result is not looked at. *)
Touch(r) ==
    /\ stage[r] = "touch"
    /\ DbOk \/ DbErr
    /\ Move(r, "handler")
    /\ UNCHANGED <<Table, request, read>>

(* UNIQUE(name): a 409.  A new token is enabled. *)
CreateToken(r, name) ==
    /\ stage[r] = "handler" /\ request[r].op = "create"
    /\ issued' = issued + 1
    /\ \/ /\ DbOk /\ ~ \E t \in tokens : t.name = name
          /\ tokens' = create_token(name, issued + 1)
          /\ seq' = NextId
       \/ /\ DbErr \/ (DbOk /\ \E t \in tokens : t.name = name)
          /\ UNCHANGED <<tokens, seq>>
    /\ Respond(r)

DeleteToken(r) ==
    /\ stage[r] = "handler" /\ request[r].op = "delete"
    /\ \/ DbOk /\ tokens' = delete_token(request[r].id)
       \/ DbErr /\ UNCHANGED tokens
    /\ Respond(r)
    /\ UNCHANGED <<seq, issued>>

(* Mutant: the first row of the list is taken, its id not compared. *)
ToggleReadFirst(r) ==
    /\ stage[r] = "handler" /\ request[r].op = "toggle"
    /\ \/ /\ DbOk
          /\ \E t \in tokens :
                read' = [read EXCEPT ![r] = [id |-> t.id, text |-> t.text,
                                             enabled |-> t.enabled]]
          /\ Move(r, "toggle_write")
          /\ UNCHANGED request
       \/ DbOk /\ tokens = {} /\ Respond(r)
       \/ DbErr /\ Respond(r)
    /\ UNCHANGED Table

(* toggle_token reads all tokens and finds its own; none is a 404. *)
ToggleRead(r) ==
    /\ stage[r] = "handler" /\ request[r].op = "toggle"
    /\ \/ /\ DbOk
          /\ \E t \in tokens :
                /\ t.id = request[r].id
                /\ read' = [read EXCEPT ![r] = [id |-> t.id, text |-> t.text,
                                                enabled |-> t.enabled]]
          /\ Move(r, "toggle_write")
          /\ UNCHANGED request
       \/ DbOk /\ ~ (\E t \in tokens : t.id = request[r].id) /\ Respond(r)
       \/ DbErr /\ Respond(r)
    /\ UNCHANGED Table

(* UPDATE ... SET enabled = !read WHERE id = ? *)
ToggleWrite(r) ==
    /\ stage[r] = "toggle_write"
    /\ \/ DbOk /\ tokens' = toggle_token(read[r].id, ~ read[r].enabled)
       \/ DbErr /\ UNCHANGED tokens
    /\ Respond(r)
    /\ UNCHANGED <<seq, issued>>

(* Any other protected route; what it does is the business of AdminApi. *)
OtherHandler(r) ==
    /\ stage[r] = "handler" /\ request[r].op = "other"
    /\ Respond(r)
    /\ UNCHANGED <<Table, faults>>

-----------------------------------------------------------------------------
(***************************************************************************)
(* What clients may send: any token they were ever given or none, for any  *)
(* token id.  A request carries only what its handler and its router look  *)
(* at.                                                                     *)
(***************************************************************************)
Requests ==
    {q \in [conn : {"unix", "tcp"}, text : 0..issued,
              op : {"create", "delete", "toggle", "other"}, id : 0..seq] :
        /\ q.conn = "unix" => q.text = 0
        /\ q.op \in {"create", "other"} => q.id = 0
        /\ q.op = "create" => issued < MaxTokens}

Step(r) ==
    \/ \E q \in Requests : Arrive(r, q)
    \/ Verify(r)
    \/ Touch(r)
    \/ \E name \in Name : CreateToken(r, name)
    \/ DeleteToken(r)
    \/ ToggleRead(r)
    \/ ToggleWrite(r)
    \/ OtherHandler(r)

Next ==
    /\ \E r \in Req : Step(r)
    /\ window' = [r \in Req |-> IF stage'[r] = "idle" THEN {} ELSE window[r] \cup EnabledTexts']

Spec == Init /\ [][Next]_vars

-----------------------------------------------------------------------------
(***************************************************************************)
(* A TCP request that has passed auth_middleware carries a token that was  *)
(* enabled at some moment of that very request: a token disabled or        *)
(* deleted earlier, or never stored, opens nothing, whatever toggles,      *)
(* deletions and failing calls run beside it.                              *)
(***************************************************************************)
AuthorisedInWindow ==
    \A r \in Req :
        /\ stage[r] \in {"touch", "handler", "toggle_write"}
        /\ request[r].conn = "tcp" /\ RequireAuth
        => request[r].text \in window[r]

(* What a finished toggle may have changed. *)
OnlyItsToken ==
    \A r \in Req, t \in tokens, u \in tokens' :
        /\ stage[r] = "toggle_write" /\ stage'[r] = "idle"
        /\ t.id = u.id /\ t.enabled # u.enabled
        => t.text = read[r].text

(***************************************************************************)
(* toggle_token writes by id after an await; the token it changes is the   *)
(* one it read, never one created after that one was deleted.              *)
(***************************************************************************)
ToggleHitsItsToken == [][OnlyItsToken]_vars
=============================================================================
