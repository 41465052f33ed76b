------------------------------ MODULE Credentials ------------------------------
(***************************************************************************)
(* What an upload must show (security.py, routes/admin.py): the rotating   *)
(* token, created lazily by whichever worker is first asked for it in its  *)
(* window, and invite tokens.  Requests run on several workers over one    *)
(* database, and only each SQL statement is atomic.                        *)
(*                                                                         *)
(* Time is counted in rotation windows of UPLOAD_TOKEN_ROTATION seconds:   *)
(* a row expires two windows after its start, so that "expires > now" is   *)
(* decided by the windows alone.                                           *)
(***************************************************************************)
EXTENDS Naturals, FiniteSets

CONSTANTS
    Handlers,      \* requests that may run at the same time
    Secrets,       \* bound: rotating tokens that are made, in order 1 .. Secrets
    Invites,       \* invite tokens
    InvitesWith,   \* bound: the values of rotation under which invites are made
    MaxWindow,     \* bound: the last window
    MaxRotations,  \* bound: rotations by the operator
    NoToken        \* a credential that is missing

ASSUME CredentialBounds ==
    /\ MaxWindow \in Nat /\ MaxRotations \in Nat
    /\ Secrets \in Nat /\ NoToken \notin Nat /\ NoToken \notin Invites
    /\ Invites \cap Nat = {}

VARIABLES
    rotation,  \* UPLOAD_TOKEN_ROTATION > 0
    window,    \* the current window
    tokens,    \* table tokens: [window -> its token, or NoToken]
    minted,    \* how many secrets.token_urlsafe has returned, never one twice
    invites,   \* table invite_tokens: [Invites -> "none", "active" or "revoked"]
    req,       \* [Handlers -> the request it serves or has served last]
    epoch,     \* history: rotations by the operator so far
    answered   \* history: tokens the operator was given

credVars == <<rotation, window, tokens, minted, invites, req, epoch, answered>>

Window == 0 .. MaxWindow
Tokens == 1 .. Secrets
Provided == Tokens \cup Invites \cup {NoToken}

\* A request: where it is, the window it works for, the token it was provided
\* with or is to insert, the rotations before it, and whether it had the right to
\* be let in when it began (of the two kinds AdmittedByRight is about).
Unused == [pc |-> "idle", window |-> 0, token |-> NoToken, epoch |-> 0, right |-> TRUE]

Becomes(h, request) == req' = [req EXCEPT ![h] = request]
Goto(h, pc) == req' = [req EXCEPT ![h].pc = pc]
Over == {"idle", "open", "admitted"}
Free(h) == req[h].pc \in Over

CredInit ==
    /\ rotation \in BOOLEAN
    /\ window = 0
    /\ tokens = [w \in Window |-> NoToken] /\ minted = 0
    /\ invites = [i \in Invites |-> "none"]
    /\ epoch = 0 /\ answered = {}
    /\ req = [h \in Handlers |-> Unused]

CredIdle == CredInit /\ ~rotation

Tick ==
    /\ window < MaxWindow /\ window' = window + 1
    /\ UNCHANGED <<rotation, tokens, minted, invites, req, epoch, answered>>

\* Rows that have expired by a time read before are deleted.
Prunes ==
    \E now \in 0 .. window :
        tokens' = [w \in Window |-> IF w + 2 <= now THEN NoToken ELSE tokens[w]]

\* run_cleanup_once
Cleanup ==
    /\ Prunes
    /\ UNCHANGED <<rotation, window, minted, invites, req, epoch, answered>>

\* api_admin_token
Reveal(h) ==
    /\ rotation /\ Free(h)
    /\ Prunes
    /\ Becomes(h, [Unused EXCEPT !.pc = "look"])
    /\ UNCHANGED <<rotation, window, minted, invites, epoch, answered>>

\* Mutant: only the row of the current window is deleted.
WipesCurrent == [tokens EXCEPT ![window] = NoToken]

Wiped == [w \in Window |-> NoToken]

\* api_admin_rotate_token
Rotate(h) ==
    /\ rotation /\ Free(h) /\ epoch < MaxRotations
    /\ tokens' = Wiped /\ epoch' = epoch + 1
    /\ Becomes(h, [Unused EXCEPT !.pc = "look"])
    /\ UNCHANGED <<rotation, window, minted, invites, answered>>

\* The operator is given the token of window w, for the first time or again.
Answers(h, w) ==
    /\ answered' =
          IF tokens[w] \in {a.token : a \in answered} THEN answered
          ELSE answered \cup
                 {[token |-> tokens[w], window |-> w, at |-> window, epoch |-> epoch]}
    /\ Becomes(h, Unused)

\* get_current_rotating_token: its first SELECT, for the window it reads
Look(h) ==
    /\ req[h].pc = "look"
    /\ \/ /\ tokens[window] # NoToken
          /\ Answers(h, window) /\ UNCHANGED minted
       \/ /\ tokens[window] = NoToken
          /\ minted < Secrets /\ minted' = minted + 1
          /\ Becomes(h, [pc |-> "insert", window |-> window, token |-> minted + 1,
                         epoch |-> 0, right |-> TRUE])
          /\ UNCHANGED answered
    /\ UNCHANGED <<rotation, window, tokens, invites, epoch>>

\* Mutant: INSERT OR REPLACE
Replaces(w, t) == t

Ignores(w, t) == IF tokens[w] = NoToken THEN t ELSE tokens[w]

\* INSERT OR IGNORE: somebody else's row of the same window stays.
Insert(h) ==
    /\ req[h].pc = "insert"
    /\ tokens' = [tokens EXCEPT ![req[h].window] = Ignores(req[h].window, req[h].token)]
    /\ Goto(h, "again")
    /\ UNCHANGED <<rotation, window, minted, invites, epoch, answered>>

\* Its second SELECT; a rotation in between leaves no row, and a 500.
Again(h) ==
    /\ req[h].pc = "again"
    /\ \/ tokens[req[h].window] # NoToken /\ Answers(h, req[h].window)
       \/ tokens[req[h].window] = NoToken /\ Becomes(h, Unused) /\ UNCHANGED answered
    /\ UNCHANGED <<rotation, window, tokens, minted, invites, epoch>>

\* The worker of a request is killed.
Crash(h) ==
    /\ ~Free(h) /\ Becomes(h, Unused)
    /\ UNCHANGED <<rotation, window, tokens, minted, invites, epoch, answered>>

\* api_admin_create_invite, api_admin_revoke_invite
CreateInvite(i) ==
    /\ rotation \in InvitesWith
    /\ invites[i] = "none" /\ invites' = [invites EXCEPT ![i] = "active"]
    /\ UNCHANGED <<rotation, window, tokens, minted, req, epoch, answered>>

RevokeInvite(i) ==
    /\ invites[i] = "active" /\ invites' = [invites EXCEPT ![i] = "revoked"]
    /\ UNCHANGED <<rotation, window, tokens, minted, req, epoch, answered>>

\* Mutant: the gate asks for an invite that still works.
ActiveInvite == \E i \in Invites : invites[i] = "active"

AnyInvite == \E i \in Invites : invites[i] # "none"

\* An upload asks token_gating_effective; resolve_upload_credential then looks
\* at the rotating tokens, with a time read by now, and at the invites.
Upload(h, t) ==
    /\ Free(h)
    /\ t \in Tokens => t \in {a.token : a \in answered}
    /\ t \in Invites => invites[t] # "none"
    /\ Becomes(h, [pc |-> IF rotation \/ AnyInvite THEN "rotating" ELSE "open",
                   window |-> window, token |-> t, epoch |-> epoch,
                   right |-> IF t \in Invites THEN invites[t] = "active"
                             ELSE ~rotation /\ \A i \in Invites : invites[i] = "none"])
    /\ UNCHANGED <<rotation, window, tokens, minted, invites, epoch, answered>>

\* Mutant: a token is accepted as long as its row exists.
Present(now, t) == \E w \in Window : tokens[w] = t /\ t # NoToken

\* rotating_token_valid
Valid(now, t) == \E w \in Window : tokens[w] = t /\ t # NoToken /\ w + 2 > now

CheckRotating(h) ==
    /\ req[h].pc = "rotating"
    /\ Goto(h, IF rotation /\ Valid(req[h].window, req[h].token) THEN "admitted"
                                                                 ELSE "invite")
    /\ UNCHANGED <<rotation, window, tokens, minted, invites, epoch, answered>>

\* matching_invite_token
CheckInvite(h) ==
    /\ req[h].pc = "invite"
    /\ \/ /\ req[h].token \in Invites /\ invites[req[h].token] = "active"
          /\ Becomes(h, [pc |-> "admitted", window |-> 0, token |-> req[h].token,
                         epoch |-> 0, right |-> req[h].right])
       \/ /\ req[h].token \in Invites => invites[req[h].token] # "active"
          /\ Becomes(h, Unused)
    /\ UNCHANGED <<rotation, window, tokens, minted, invites, epoch, answered>>

CredStep ==
    \/ Tick \/ Cleanup
    \/ \E h \in Handlers :
          \/ Reveal(h) \/ Rotate(h) \/ Look(h) \/ Insert(h) \/ Again(h) \/ Crash(h)
          \/ \E t \in Provided : Upload(h, t)
          \/ CheckRotating(h) \/ CheckInvite(h)
    \/ \E i \in Invites : CreateInvite(i) \/ RevokeInvite(i)

CredSpec == CredInit /\ [][CredStep]_credVars

-----------------------------------------------------------------------------
CredTypeOK ==
    /\ rotation \in BOOLEAN /\ window \in Window
    /\ tokens \in [Window -> Tokens \cup {NoToken}] /\ minted \in 0 .. Secrets
    /\ invites \in [Invites -> {"none", "active", "revoked"}]
    /\ epoch \in 0 .. MaxRotations
    /\ answered \subseteq [token : Tokens, window : Window, at : Window,
                           epoch : 0 .. MaxRotations]
    /\ req \in [Handlers ->
          [pc : Over \cup {"look", "insert", "again", "rotating", "invite"},
           window : Window, token : Provided, epoch : 0 .. MaxRotations,
           right : BOOLEAN]]

\* A token the operator was given is accepted for the two windows it was promised
\* for, unless the operator rotates: workers that make the token of a window at
\* the same time agree on one, and none of them replaces one already given out.
StaysAccepted ==
    rotation => \A a \in answered :
        a.epoch = epoch /\ window < a.window + 2 => Valid(window, a.token)

\* "leaked ones die within 2xN" (README.md), and at a rotation "every token
\* shared so far stops working immediately" (admin.js): no upload that begins
\* two windows after a token was given out, or after a later rotation, is
\* admitted with it, although requests in flight put rows into the table that
\* they decided on before.
SharedTokensDie ==
    \A h \in Handlers, a \in answered :
        req[h].pc = "admitted" /\ req[h].token = a.token
            => req[h].epoch <= a.epoch /\ req[h].window < a.at + 2

\* "revoking your last invite won't silently reopen uploads" (README.md): an
\* upload is let in without a credential only if none had been asked for before
\* it began, and with an invite only if that was not revoked by then.
AdmittedByRight ==
    \A h \in Handlers :
        \/ req[h].pc = "open" /\ req[h].token \notin Invites
        \/ req[h].pc = "admitted" /\ req[h].token \in Invites
        => req[h].right
=============================================================================
