---------------------------- MODULE AdmissionProofs ----------------------------
(***************************************************************************)
(* Who is let in, and how often: the rotating token and the invites, and   *)
(* what holds clients back, for any number of requests on any number of    *)
(* workers, windows, rotations, clients and limits.                        *)
(***************************************************************************)
EXTENDS Credentials, Throttle, FiniteSetTheorems, SequenceTheorems, TLAPS

-----------------------------------------------------------------------------
(* Credentials.  The argument is about where a token is: once made it is   *)
(* about to be inserted, or in one row, or gone for good, and the operator *)
(* is given tokens from rows only.                                         *)

Request == [pc : Over \cup {"look", "insert", "again", "rotating", "invite"},
            window : Window, token : Provided, epoch : 0 .. MaxRotations,
            right : BOOLEAN]

GivenOut == {a.token : a \in answered}

\* No token is in two rows.
RowsInv ==
    /\ \A w \in Window : tokens[w] # NoToken => tokens[w] <= minted
    /\ \A v, w \in Window : tokens[v] = tokens[w] /\ tokens[v] # NoToken => v = w

\* A token about to be inserted is nowhere else.
PendingInv ==
    \A h \in Handlers : req[h].pc = "insert" =>
        /\ req[h].token \in Tokens /\ req[h].token <= minted
        /\ \A w \in Window : tokens[w] # req[h].token
        /\ req[h].token \notin GivenOut
        /\ \A g \in Handlers : g # h /\ req[g].pc = "insert"
                                 => req[g].token # req[h].token

\* A token given out stays in the row it was read from for its time, and is in
\* no row after a rotation.
AnsweredInv ==
    \A a \in answered :
        /\ a.token <= minted /\ a.epoch <= epoch /\ a.window <= a.at
        /\ \A w \in Window : tokens[w] = a.token => w = a.window /\ a.epoch = epoch
        /\ a.epoch = epoch /\ window < a.window + 2 => tokens[a.window] = a.token

\* What a request was found to deserve still holds, because it began before now.
RequestInv(h) ==
    /\ req[h].window <= window /\ req[h].epoch <= epoch
    /\ req[h].pc \in {"rotating", "admitted"} /\ req[h].token \in Tokens
         => req[h].token \in GivenOut
    /\ req[h].pc = "admitted" =>
         \A a \in answered : req[h].token = a.token
             => req[h].epoch <= a.epoch /\ req[h].window < a.at + 2
    /\ req[h].pc = "open" /\ req[h].token \notin Invites => req[h].right
    /\ req[h].pc \in {"rotating", "invite"} /\ req[h].token \in Invites
         => /\ invites[req[h].token] # "none"
            /\ invites[req[h].token] = "active" => req[h].right
    /\ req[h].pc = "admitted" /\ req[h].token \in Invites => req[h].right

RequestsInv == \A h \in Handlers : RequestInv(h)

CredInv == CredTypeOK /\ RowsInv /\ PendingInv /\ AnsweredInv /\ RequestsInv

\* What the bounds on the constants give.
LEMMA Kinds ==
    /\ Tokens \subseteq Nat /\ NoToken \notin Tokens /\ NoToken \notin Invites
    /\ Tokens \cap Invites = {} /\ Window \subseteq Nat /\ 0 \in Window
    /\ 0 \in 0 .. MaxRotations /\ Unused \in Request
  BY CredentialBounds DEF Tokens, Window, Unused, Request, Over, Provided

\* A request becomes another one; the rest go on as they were.
LEMMA OneBecomes ==
    ASSUME CredTypeOK, NEW h \in Handlers, NEW r \in Request, Becomes(h, r)
    PROVE  /\ req' \in [Handlers -> Request] /\ req'[h] = r
           /\ \A g \in Handlers : g # h => req'[g] = req[g]
  BY DEF CredTypeOK, Becomes, Request

\* A request that goes on, or ends, leaves the others alone.
LEMMA OneGoes ==
    ASSUME CredTypeOK, NEW h \in Handlers,
           NEW pc \in Over \cup {"look", "insert", "again", "rotating", "invite"},
           Goto(h, pc)
    PROVE  /\ req' \in [Handlers -> Request]
           /\ req'[h].pc = pc /\ req'[h].window = req[h].window
           /\ req'[h].token = req[h].token /\ req'[h].epoch = req[h].epoch
           /\ req'[h].right = req[h].right
           /\ \A g \in Handlers : g # h => req'[g] = req[g]
  BY DEF CredTypeOK, Goto, Request

\* A step that leaves the token side alone but for the request of h, which it does
\* not send to insert.
LEMMA OnlyRequest ==
    ASSUME CredInv, NEW h \in Handlers,
           UNCHANGED <<rotation, window, tokens, minted, invites, epoch, answered>>,
           req' \in [Handlers -> Request], req'[h].pc # "insert", RequestInv(h)',
           \A g \in Handlers : g # h => req'[g] = req[g]
    PROVE  CredInv'
  <1>1. CredTypeOK'
    BY DEF CredInv, CredTypeOK, Request
  <1>2. RowsInv' /\ AnsweredInv'
    BY DEF CredInv, RowsInv, AnsweredInv
  <1>3. PendingInv'
    BY DEF CredInv, PendingInv, GivenOut
  <1>4. RequestsInv'
    BY DEF CredInv, RequestsInv, RequestInv, GivenOut
  <1> QED
    BY <1>1, <1>2, <1>3, <1>4 DEF CredInv

\* A fresh database satisfies the invariant.
LEMMA InitCredInv == CredInit => CredInv
  <1> SUFFICES ASSUME CredInit PROVE CredInv
    OBVIOUS
  <1>1. CredTypeOK
    BY Kinds, CredentialBounds DEF CredInit, CredTypeOK, Request
  <1>2. RowsInv /\ PendingInv /\ AnsweredInv
    BY DEF CredInit, RowsInv, PendingInv, AnsweredInv, Unused
  <1>3. RequestsInv
    BY CredentialBounds DEF CredInit, RequestsInv, RequestInv, Unused
  <1> QED
    BY <1>1, <1>2, <1>3 DEF CredInv

\* Time passing ages secrets and only ends their windows.
LEMMA TickKeeps == ASSUME CredInv, Tick PROVE CredInv'
  <1>1. CredTypeOK'
    BY CredentialBounds DEF CredInv, CredTypeOK, Tick, Window
  <1>2. window \in Nat /\ window' = window + 1 /\ \A a \in answered : a.window \in Nat
    BY Kinds DEF CredInv, CredTypeOK, Tick
  <1>3. RowsInv' /\ PendingInv' /\ AnsweredInv'
    BY <1>2 DEF CredInv, RowsInv, PendingInv, AnsweredInv, GivenOut, Tick
  <1>4. RequestsInv'
    <2> SUFFICES ASSUME NEW h \in Handlers PROVE RequestInv(h)'
      BY DEF RequestsInv
    <2>1. RequestInv(h) /\ req[h].window \in Nat
      BY Kinds DEF CredInv, CredTypeOK, RequestsInv
    <2>2. req[h].window <= window'
      BY <1>2, <2>1 DEF RequestInv
    <2> QED
      BY <2>1, <2>2 DEF RequestInv, GivenOut, Tick
  <1> QED
    BY <1>1, <1>3, <1>4 DEF CredInv

\* Rows go only when no window they were promised for is left, or with all others.
LEMMA FewerRows ==
    ASSUME CredInv, req' \in [Handlers -> Request],
           \A g \in Handlers : req'[g] = req[g] \/ req'[g] = [Unused EXCEPT !.pc = "look"],
           UNCHANGED <<rotation, window, minted, invites, answered>>,
           tokens' \in [Window -> Tokens \cup {NoToken}],
           \A w \in Window : tokens'[w] \in {NoToken, tokens[w]},
           \/ epoch' = epoch /\ \A w \in Window : window < w + 2 => tokens'[w] = tokens[w]
           \/ /\ epoch' = epoch + 1 /\ epoch' \in 0 .. MaxRotations
              /\ \A w \in Window : tokens'[w] = NoToken
    PROVE  CredInv'
  <1> DEFINE Anew(g) == req'[g].pc = "look" /\ req'[g].window = 0 /\ req'[g].epoch = 0
  <1>1. \A g \in Handlers : req'[g] = req[g] \/ Anew(g)
    <2>1. LET r == [Unused EXCEPT !.pc = "look"]
          IN  r.pc = "look" /\ r.window = 0 /\ r.epoch = 0
      BY DEF Unused
    <2> QED
      BY <2>1
  <1>2. epoch \in Nat /\ window \in Nat /\ epoch' >= epoch
    BY CredentialBounds DEF CredInv, CredTypeOK, Window
  <1>3. CredTypeOK'
    BY DEF CredInv, CredTypeOK, Request
  <1>4. RowsInv'
    BY DEF CredInv, RowsInv
  <1>5. PendingInv'
    <2> SUFFICES ASSUME NEW g \in Handlers, req'[g].pc = "insert"
                 PROVE  /\ req'[g].token \in Tokens /\ req'[g].token <= minted
                        /\ \A w \in Window : tokens'[w] # req'[g].token
                        /\ req'[g].token \notin GivenOut
                        /\ \A f \in Handlers : f # g /\ req'[f].pc = "insert"
                                                 => req'[f].token # req'[g].token
      BY DEF PendingInv, GivenOut
    <2>1. \A f \in Handlers : req'[f].pc = "insert" => req'[f] = req[f]
      BY <1>1
    <2>2. /\ req[g].token \in Tokens /\ req[g].token <= minted
          /\ \A w \in Window : tokens[w] # req[g].token
          /\ req[g].token \notin GivenOut
          /\ \A f \in Handlers : f # g /\ req[f].pc = "insert"
                                   => req[f].token # req[g].token
      BY <2>1 DEF CredInv, PendingInv
    <2>3. \A w \in Window : tokens'[w] # req[g].token
      BY <2>2, Kinds
    <2> QED
      BY <2>1, <2>2, <2>3
  <1>6. AnsweredInv'
    <2> SUFFICES ASSUME NEW a \in answered
                 PROVE  /\ a.token <= minted /\ a.epoch <= epoch' /\ a.window <= a.at
                        /\ \A w \in Window :
                              tokens'[w] = a.token => w = a.window /\ a.epoch = epoch'
                        /\ a.epoch = epoch' /\ window < a.window + 2
                              => tokens'[a.window] = a.token
      BY DEF AnsweredInv
    <2>1. /\ a.token \in Tokens /\ a.window \in Window /\ a.epoch \in Nat
          /\ a.token <= minted /\ a.epoch <= epoch /\ a.window <= a.at
          /\ \A w \in Window : tokens[w] = a.token => w = a.window /\ a.epoch = epoch
          /\ a.epoch = epoch /\ window < a.window + 2 => tokens[a.window] = a.token
      BY DEF CredInv, CredTypeOK, AnsweredInv
    <2> QED
      BY <1>2, <2>1, Kinds
  <1>7. RequestsInv'
    <2> SUFFICES ASSUME NEW g \in Handlers PROVE RequestInv(g)'
      BY DEF RequestsInv
    <2>1. CASE Anew(g)
      BY <1>2, <2>1 DEF RequestInv
    <2>2. CASE req'[g] = req[g]
      <3>1. req[g].epoch \in Nat /\ RequestInv(g)
        BY DEF CredInv, CredTypeOK, RequestsInv
      <3> QED
        BY <1>2, <2>2, <3>1 DEF RequestInv, GivenOut
    <2> QED
      BY <1>1, <2>1, <2>2
  <1> QED
    BY <1>3, <1>4, <1>5, <1>6, <1>7 DEF CredInv

\* A request that is about to read the newest token.
LEMMA LookRequest ==
    ASSUME CredInv, NEW h \in Handlers, Becomes(h, [Unused EXCEPT !.pc = "look"])
    PROVE  /\ req' \in [Handlers -> Request]
           /\ \A g \in Handlers : req'[g] = req[g] \/ req'[g] = [Unused EXCEPT !.pc = "look"]
  <1>1. [Unused EXCEPT !.pc = "look"] \in Request
    BY Kinds DEF Unused, Request, Over
  <1> QED
    BY <1>1, OneBecomes DEF CredInv

\* Pruning takes away no secret that is still accepted.
LEMMA PruningIsSafe ==
    ASSUME CredInv, Prunes
    PROVE  /\ tokens' \in [Window -> Tokens \cup {NoToken}]
           /\ \A w \in Window : tokens'[w] \in {NoToken, tokens[w]}
           /\ \A w \in Window : window < w + 2 => tokens'[w] = tokens[w]
  <1>1. PICK now \in 0 .. window :
           tokens' = [w \in Window |-> IF w + 2 <= now THEN NoToken ELSE tokens[w]]
    BY DEF Prunes
  <1>2. window \in Nat /\ now \in Nat /\ now <= window /\ Window \subseteq Nat
    BY Kinds DEF CredInv, CredTypeOK
  <1> QED
    BY <1>1, <1>2 DEF CredInv, CredTypeOK

\* The cleanup thread prunes, and nothing else.
LEMMA CleanupKeeps == ASSUME CredInv, Cleanup PROVE CredInv'
  <1>1. /\ req' = req /\ epoch' = epoch /\ req' \in [Handlers -> Request]
        /\ UNCHANGED <<rotation, window, minted, invites, answered>>
    BY DEF Cleanup, CredInv, CredTypeOK, Request
  <1> QED
    BY <1>1, PruningIsSafe, FewerRows DEF Cleanup

\* The operator looks at the token.
LEMMA RevealKeeps == ASSUME CredInv, NEW h \in Handlers, Reveal(h) PROVE CredInv'
  BY PruningIsSafe, LookRequest, FewerRows DEF Reveal

\* The operator replaces the token.
LEMMA RotateKeeps == ASSUME CredInv, NEW h \in Handlers, Rotate(h) PROVE CredInv'
  <1>1. /\ tokens' \in [Window -> Tokens \cup {NoToken}]
        /\ \A w \in Window : tokens'[w] = NoToken
    BY DEF Rotate, Wiped
  <1>2. epoch' = epoch + 1 /\ epoch' \in 0 .. MaxRotations
    BY CredentialBounds DEF Rotate, CredInv, CredTypeOK
  <1> QED
    BY <1>1, <1>2, FewerRows, LookRequest DEF Rotate

\* A request that ends is as good as unused, and leaves the others alone.
LEMMA UnusedRequest ==
    ASSUME CredInv, NEW h \in Handlers, Becomes(h, Unused)
    PROVE  /\ req' \in [Handlers -> Request]
           /\ req'[h].pc = "idle" /\ req'[h].window = 0 /\ req'[h].epoch = 0
           /\ \A g \in Handlers : g # h => req'[g] = req[g]
           /\ window \in Nat /\ epoch \in Nat
  <1>1. req' \in [Handlers -> Request] /\ req'[h] = Unused
    BY Kinds, OneBecomes DEF CredInv
  <1>2. Unused.pc = "idle" /\ Unused.window = 0 /\ Unused.epoch = 0
    BY DEF Unused
  <1>3. window \in Nat /\ epoch \in Nat
    BY Kinds, CredentialBounds DEF CredInv, CredTypeOK
  <1> QED
    BY <1>1, <1>2, <1>3, Kinds, OneBecomes DEF CredInv

\* A request ends.
LEMMA EndKeeps ==
    ASSUME CredInv, NEW h \in Handlers, Becomes(h, Unused),
           UNCHANGED <<rotation, window, tokens, minted, invites, epoch, answered>>
    PROVE  CredInv'
  <1>1. RequestInv(h)'
    BY UnusedRequest DEF RequestInv
  <1> QED
    BY <1>1, UnusedRequest, OnlyRequest

\* A token that is read from its row was not given out before a rotation, and no
\* request has shown it yet if it was not given out at all.
LEMMA AnswerKeeps ==
    ASSUME CredInv, NEW h \in Handlers, NEW w \in Window, w <= window,
           tokens[w] # NoToken, Answers(h, w),
           UNCHANGED <<rotation, window, tokens, minted, invites, epoch>>
    PROVE  CredInv'
  <1>1. CASE tokens[w] \in GivenOut
    BY <1>1, EndKeeps DEF Answers, GivenOut
  <1>2. CASE tokens[w] \notin GivenOut
    <2> DEFINE new == [token |-> tokens[w], window |-> w, at |-> window, epoch |-> epoch]
    <2>1. answered' = answered \cup {new} /\ Becomes(h, Unused)
      BY <1>2 DEF Answers, GivenOut
    <2>2. /\ new \in [token : Tokens, window : Window, at : Window, epoch : 0 .. MaxRotations]
          /\ tokens[w] \in Tokens
      BY DEF CredInv, CredTypeOK
    <2>3. CredTypeOK'
      BY <2>1, <2>2, UnusedRequest DEF CredInv, CredTypeOK, Request
    <2>4. RowsInv'
      BY DEF CredInv, RowsInv
    <2>5. PendingInv'
      <3> SUFFICES ASSUME NEW g \in Handlers, req'[g].pc = "insert"
                   PROVE  /\ req'[g].token \in Tokens /\ req'[g].token <= minted
                          /\ \A v \in Window : tokens[v] # req'[g].token
                          /\ req'[g].token \notin GivenOut'
                          /\ \A f \in Handlers : f # g /\ req'[f].pc = "insert"
                                                   => req'[f].token # req'[g].token
        BY DEF PendingInv
      <3>1. g # h /\ req'[g] = req[g]
        BY <2>1, UnusedRequest
      <3>2. /\ req[g].token \in Tokens /\ req[g].token <= minted
            /\ \A v \in Window : tokens[v] # req[g].token
            /\ req[g].token \notin GivenOut
            /\ \A f \in Handlers : f # g /\ req[f].pc = "insert"
                                     => req[f].token # req[g].token
        BY <3>1 DEF CredInv, PendingInv
      <3>3. req[g].token \notin GivenOut'
        BY <2>1, <3>2 DEF GivenOut
      <3> QED
        BY <2>1, <3>1, <3>2, <3>3, UnusedRequest
    <2>6. AnsweredInv'
      <3>1. /\ new.token <= minted /\ new.epoch <= epoch /\ new.window <= new.at
            /\ \A v \in Window : tokens[v] = new.token => v = new.window /\ new.epoch = epoch
            /\ tokens[new.window] = new.token
        BY UnusedRequest, <2>1 DEF CredInv, RowsInv
      <3> QED
        BY <2>1, <3>1 DEF CredInv, AnsweredInv
    <2>7. RequestsInv'
      <3>1. RequestInv(h)'
        BY <2>1, UnusedRequest DEF RequestInv
      <3>2. ASSUME NEW g \in Handlers, g # h PROVE RequestInv(g)'
        <4>1. RequestInv(g) /\ req'[g] = req[g]
          BY <2>1, <3>2, UnusedRequest DEF CredInv, RequestsInv
        <4>2. req[g].pc = "admitted" => req[g].token # new.token
          BY <1>2, <2>2, <4>1 DEF RequestInv
        <4>3. GivenOut \subseteq GivenOut'
          BY <2>1 DEF GivenOut
        <4> QED
          BY <2>1, <4>1, <4>2, <4>3 DEF RequestInv
      <3> QED
        BY <3>1, <3>2 DEF RequestsInv
    <2> QED
      BY <2>3, <2>4, <2>5, <2>6, <2>7 DEF CredInv
  <1> QED
    BY <1>1, <1>2

\* A request that found no token draws the one it will insert.
LEMMA MintKeeps ==
    ASSUME CredInv, NEW h \in Handlers, minted < Secrets, minted' = minted + 1,
           Becomes(h, [pc |-> "insert", window |-> window, token |-> minted + 1,
                       epoch |-> 0, right |-> TRUE]),
           UNCHANGED <<rotation, window, tokens, invites, epoch, answered>>
    PROVE  CredInv'
  <1> DEFINE r == [pc |-> "insert", window |-> window, token |-> minted + 1,
                   epoch |-> 0, right |-> TRUE]
  <1>1. /\ r \in Request /\ r.pc = "insert" /\ r.window = window
        /\ r.token = minted + 1 /\ r.epoch = 0 /\ r.token \in Tokens
        /\ minted \in Nat /\ epoch \in Nat /\ window \in Nat /\ minted' \in 0 .. Secrets
    <2>1. /\ minted \in Nat /\ epoch \in Nat /\ window \in Window /\ window \in Nat
          /\ minted + 1 \in 1 .. Secrets /\ minted' \in 0 .. Secrets
      BY Kinds, CredentialBounds DEF CredInv, CredTypeOK
    <2>2. minted + 1 \in Provided
      BY <2>1 DEF Tokens, Provided
    <2> QED
      BY <2>1, <2>2, Kinds DEF Request, Tokens
  <1>2. /\ req' \in [Handlers -> Request] /\ req'[h] = r
        /\ \A g \in Handlers : g # h => req'[g] = req[g]
    BY <1>1, OneBecomes DEF CredInv
  <1>3. CredTypeOK'
    BY <1>1, <1>2 DEF CredInv, CredTypeOK, Request
  <1>4. \A t \in Tokens : t <= minted => t # r.token /\ t <= minted'
    BY <1>1, Kinds
  <1>5. RowsInv'
    BY <1>4 DEF CredInv, CredTypeOK, RowsInv
  <1>6. PendingInv'
    <2>1. \A w \in Window : tokens[w] # r.token
      BY <1>1, <1>4, Kinds DEF CredInv, CredTypeOK, RowsInv
    <2>2. r.token \notin GivenOut
      BY <1>4 DEF CredInv, CredTypeOK, AnsweredInv, GivenOut
    <2>3. \A g \in Handlers : g # h /\ req[g].pc = "insert" => req[g].token # r.token
      BY <1>4 DEF CredInv, PendingInv
    <2>4. /\ r.token <= minted'
          /\ \A g \in Handlers : req[g].pc = "insert" => req[g].token <= minted'
      BY <1>1, <1>4 DEF CredInv, PendingInv
    <2> SUFFICES ASSUME NEW g \in Handlers, req'[g].pc = "insert"
                 PROVE  /\ req'[g].token \in Tokens /\ req'[g].token <= minted'
                        /\ \A w \in Window : tokens[w] # req'[g].token
                        /\ req'[g].token \notin GivenOut
                        /\ \A f \in Handlers : f # g /\ req'[f].pc = "insert"
                                                 => req'[f].token # req'[g].token
      BY DEF PendingInv, GivenOut
    <2>5. CASE g = h
      BY <1>1, <1>2, <2>1, <2>2, <2>3, <2>4, <2>5
    <2>6. CASE g # h
      <3>1. /\ req'[g] = req[g] /\ req[g].token \in Tokens /\ req[g].token # r.token
            /\ \A w \in Window : tokens[w] # req[g].token
            /\ req[g].token \notin GivenOut
            /\ \A f \in Handlers : f # g /\ req[f].pc = "insert"
                                     => req[f].token # req[g].token
        BY <1>2, <2>3, <2>6 DEF CredInv, PendingInv
      <3> QED
        BY <1>2, <2>4, <2>6, <3>1
    <2> QED
      BY <2>5, <2>6
  <1>7. AnsweredInv'
    BY <1>4 DEF CredInv, CredTypeOK, AnsweredInv
  <1>8. RequestsInv'
    <2>1. RequestInv(h)'
      BY <1>1, <1>2 DEF RequestInv
    <2> QED
      BY <1>2, <2>1 DEF CredInv, RequestsInv, RequestInv, GivenOut
  <1> QED
    BY <1>3, <1>5, <1>6, <1>7, <1>8 DEF CredInv

\* A request reads the newest token.
LEMMA LookKeeps == ASSUME CredInv, NEW h \in Handlers, Look(h) PROVE CredInv'
  <1>1. window \in Window /\ window <= window
    BY Kinds DEF CredInv, CredTypeOK
  <1> QED
    BY <1>1, AnswerKeeps, MintKeeps DEF Look

\* A request reads the newest token again, after its insert.
LEMMA AgainKeeps == ASSUME CredInv, NEW h \in Handlers, Again(h) PROVE CredInv'
  <1>1. req[h].window \in Window /\ req[h].window <= window
    BY DEF CredInv, CredTypeOK, RequestsInv, RequestInv
  <1> QED
    BY <1>1, AnswerKeeps, EndKeeps DEF Again

\* A worker dies between two statements.
LEMMA CrashKeeps == ASSUME CredInv, NEW h \in Handlers, Crash(h) PROVE CredInv'
  BY EndKeeps DEF Crash

\* The token goes from the request that made it into the row, or is lost.
LEMMA InsertKeeps == ASSUME CredInv, NEW h \in Handlers, Insert(h) PROVE CredInv'
  <1> DEFINE v == req[h].window
             t == req[h].token
  <1>1. /\ req' \in [Handlers -> Request]
        /\ req'[h].pc = "again" /\ req'[h].window = v /\ req'[h].epoch = req[h].epoch
        /\ \A g \in Handlers : g # h => req'[g] = req[g]
    BY OneGoes DEF CredInv, Insert
  <1>2. /\ v \in Window /\ t \in Tokens /\ t <= minted /\ t # NoToken /\ t \notin GivenOut
        /\ \A w \in Window : tokens[w] # t
        /\ \A g \in Handlers : g # h /\ req[g].pc = "insert" => req[g].token # t
    BY Kinds DEF CredInv, CredTypeOK, PendingInv, Insert
  <1>3. /\ tokens' \in [Window -> Tokens \cup {NoToken}]
        /\ \A w \in Window : tokens'[w] = tokens[w] \/ tokens'[w] = t
        /\ \A w \in Window : tokens[w] # NoToken => tokens'[w] = tokens[w]
        /\ \A w \in Window : tokens'[w] = t => w = v
    BY <1>2 DEF Insert, Ignores, CredInv, CredTypeOK
  <1>4. UNCHANGED <<rotation, window, minted, invites, epoch, answered>>
    BY DEF Insert
  <1>5. CredTypeOK'
    BY <1>1, <1>3, <1>4 DEF CredInv, CredTypeOK, Request
  <1>6. RowsInv'
    BY <1>2, <1>3, <1>4 DEF CredInv, RowsInv
  <1>7. PendingInv'
    <2> SUFFICES ASSUME NEW g \in Handlers, req'[g].pc = "insert"
                 PROVE  /\ req'[g].token \in Tokens /\ req'[g].token <= minted
                        /\ \A w \in Window : tokens'[w] # req'[g].token
                        /\ req'[g].token \notin GivenOut
                        /\ \A f \in Handlers : f # g /\ req'[f].pc = "insert"
                                                 => req'[f].token # req'[g].token
      BY <1>4 DEF PendingInv, GivenOut
    <2>1. g # h /\ req'[g] = req[g]
      BY <1>1
    <2>2. /\ req[g].token \in Tokens /\ req[g].token <= minted /\ req[g].token # t
          /\ \A w \in Window : tokens[w] # req[g].token
          /\ req[g].token \notin GivenOut
          /\ \A f \in Handlers : f # g /\ req[f].pc = "insert"
                                   => req[f].token # req[g].token
      BY <1>2, <2>1 DEF CredInv, PendingInv
    <2> QED
      BY <1>1, <1>3, <2>1, <2>2
  <1>8. AnsweredInv'
    <2> SUFFICES ASSUME NEW a \in answered
                 PROVE  /\ a.token <= minted /\ a.epoch <= epoch /\ a.window <= a.at
                        /\ \A w \in Window :
                              tokens'[w] = a.token => w = a.window /\ a.epoch = epoch
                        /\ a.epoch = epoch /\ window < a.window + 2
                              => tokens'[a.window] = a.token
      BY <1>4 DEF AnsweredInv
    <2>1. a.token \in Tokens /\ a.token # NoToken /\ a.token # t /\ a.window \in Window
      BY <1>2, Kinds DEF CredInv, CredTypeOK, GivenOut
    <2> QED
      BY <1>3, <2>1 DEF CredInv, AnsweredInv
  <1>9. RequestsInv'
    <2>1. RequestInv(h)'
      BY <1>1, <1>4 DEF CredInv, RequestsInv, RequestInv
    <2> QED
      BY <1>1, <1>4, <2>1 DEF CredInv, RequestsInv, RequestInv, GivenOut
  <1> QED
    BY <1>5, <1>6, <1>7, <1>8, <1>9 DEF CredInv

\* Invites are created, revoked and counted.
LEMMA InvitesKeep ==
    ASSUME CredInv, NEW i \in Invites, CreateInvite(i) \/ RevokeInvite(i)
    PROVE  CredInv'
  <1>1. UNCHANGED <<rotation, window, tokens, minted, req, epoch, answered>>
    BY DEF CreateInvite, RevokeInvite
  <1>2. /\ invites' \in [Invites -> {"none", "active", "revoked"}]
        /\ \A j \in Invites : invites[j] # "none" =>
              /\ invites'[j] # "none"
              /\ invites'[j] = "active" => invites[j] = "active"
    BY DEF CreateInvite, RevokeInvite, CredInv, CredTypeOK
  <1>3. CredTypeOK' /\ RowsInv' /\ PendingInv' /\ AnsweredInv'
    BY <1>1, <1>2 DEF CredInv, CredTypeOK, RowsInv, PendingInv, AnsweredInv, GivenOut
  <1>4. RequestsInv'
    BY <1>1, <1>2 DEF CredInv, RequestsInv, RequestInv, GivenOut
  <1> QED
    BY <1>3, <1>4 DEF CredInv

\* An upload asks for admission.
LEMMA UploadKeeps ==
    ASSUME CredInv, NEW h \in Handlers, NEW t \in Provided, Upload(h, t)
    PROVE  CredInv'
  <1> DEFINE pc == IF rotation \/ AnyInvite THEN "rotating" ELSE "open"
             right == IF t \in Invites THEN invites[t] = "active"
                      ELSE ~rotation /\ \A i \in Invites : invites[i] = "none"
             r == [pc |-> pc, window |-> window, token |-> t, epoch |-> epoch,
                   right |-> right]
  <1>1. /\ Becomes(h, r)
        /\ UNCHANGED <<rotation, window, tokens, minted, invites, epoch, answered>>
    BY DEF Upload
  <1>2. pc \in {"rotating", "open"} /\ (pc = "open" => ~rotation /\ ~AnyInvite)
    OBVIOUS
  <1>3. right \in BOOLEAN
    <2>1. CASE t \in Invites
      BY <2>1
    <2>2. CASE t \notin Invites
      BY <2>2
    <2> QED
      BY <2>1, <2>2
  <1>4. t \in Invites => invites[t] # "none" /\ (invites[t] = "active" => right)
    BY DEF Upload
  <1>5. t \in Tokens => t \in GivenOut
    BY DEF Upload, GivenOut
  <1>6. pc = "open" /\ t \notin Invites => right
    BY <1>2 DEF AnyInvite
  <1> HIDE DEF pc, right
  <1>7. r \in Request /\ window \in Nat /\ epoch \in Nat
    BY <1>2, <1>3, Kinds, CredentialBounds DEF CredInv, CredTypeOK, Request, Over
  <1>8. /\ req' \in [Handlers -> Request] /\ req'[h] = r
        /\ \A g \in Handlers : g # h => req'[g] = req[g]
    BY <1>1, <1>7, OneBecomes DEF CredInv
  <1>9. RequestInv(h)'
    BY <1>1, <1>2, <1>4, <1>5, <1>6, <1>7, <1>8 DEF RequestInv, GivenOut
  <1> QED
    BY <1>1, <1>2, <1>8, <1>9, OnlyRequest

\* An upload is judged by the rotating token.
LEMMA CheckRotatingKeeps ==
    ASSUME CredInv, NEW h \in Handlers, CheckRotating(h)
    PROVE  CredInv'
  <1>1. /\ req' \in [Handlers -> Request] /\ req'[h].pc \in {"admitted", "invite"}
        /\ req'[h].window = req[h].window /\ req'[h].token = req[h].token
        /\ req'[h].epoch = req[h].epoch /\ req'[h].right = req[h].right
        /\ \A g \in Handlers : g # h => req'[g] = req[g]
    BY OneGoes DEF CredInv, CheckRotating, Over
  <1>2. UNCHANGED <<rotation, window, tokens, minted, invites, epoch, answered>>
    BY DEF CheckRotating
  <1>3. req[h].window \in Nat /\ RequestInv(h) /\ req[h].pc = "rotating"
    BY Kinds DEF CredInv, CredTypeOK, RequestsInv, CheckRotating
  <1>4. CASE req'[h].pc = "admitted"
    <2>1. PICK w \in Window : tokens[w] = req[h].token /\ w + 2 > req[h].window
      BY <1>1, <1>4, OneGoes DEF CredInv, CheckRotating, Valid, Over
    <2>2. req[h].token \notin Invites
      BY <2>1, Kinds DEF CredInv, CredTypeOK
    <2>3. ASSUME NEW a \in answered, req[h].token = a.token
          PROVE  req[h].epoch <= a.epoch /\ req[h].window < a.at + 2
      <3>1. w = a.window /\ a.epoch = epoch /\ a.window <= a.at
        BY <2>1, <2>3 DEF CredInv, AnsweredInv
      <3>2. w \in Nat /\ a.at \in Nat
        BY Kinds DEF CredInv, CredTypeOK
      <3> QED
        BY <1>3, <2>1, <3>1, <3>2 DEF RequestInv
    <2>4. RequestInv(h)'
      BY <1>1, <1>2, <1>3, <1>4, <2>2, <2>3 DEF RequestInv, GivenOut
    <2> QED
      BY <1>1, <1>2, <1>4, <2>4, OnlyRequest
  <1>5. CASE req'[h].pc = "invite"
    <2>1. RequestInv(h)'
      BY <1>1, <1>2, <1>3, <1>5 DEF RequestInv, GivenOut
    <2> QED
      BY <1>1, <1>2, <1>5, <2>1, OnlyRequest
  <1> QED
    BY <1>1, <1>4, <1>5

\* An upload is judged by its invite.
LEMMA CheckInviteKeeps ==
    ASSUME CredInv, NEW h \in Handlers, CheckInvite(h)
    PROVE  CredInv'
  <1>1. UNCHANGED <<rotation, window, tokens, minted, invites, epoch, answered>>
    BY DEF CheckInvite
  <1> DEFINE r == [pc |-> "admitted", window |-> 0, token |-> req[h].token,
                   epoch |-> 0, right |-> req[h].right]
  <1>2. CASE /\ req[h].token \in Invites /\ invites[req[h].token] = "active"
             /\ Becomes(h, r)
    <2>1. /\ r \in Request /\ window \in Nat /\ epoch \in Nat
      BY Kinds, CredentialBounds DEF CredInv, CredTypeOK, Request, Over
    <2>2. /\ req' \in [Handlers -> Request] /\ req'[h] = r
          /\ \A g \in Handlers : g # h => req'[g] = req[g]
      BY <1>2, <2>1, OneBecomes DEF CredInv
    <2>3. req[h].right
      BY <1>2 DEF CheckInvite, CredInv, RequestsInv, RequestInv
    <2>4. \A a \in answered : a.token # req[h].token
      BY <1>2, Kinds DEF CredInv, CredTypeOK
    <2>5. RequestInv(h)'
      BY <1>1, <1>2, <2>1, <2>2, <2>3, <2>4, Kinds DEF RequestInv
    <2> QED
      BY <1>1, <2>2, <2>5, OnlyRequest
  <1>3. CASE Becomes(h, Unused)
    BY <1>1, <1>3, EndKeeps
  <1> QED
    BY <1>2, <1>3 DEF CheckInvite

\* No step of the server breaks the invariant.
LEMMA CredInvStep == CredInv /\ [CredStep]_credVars => CredInv'
  <1> SUFFICES ASSUME CredInv, [CredStep]_credVars PROVE CredInv'
    OBVIOUS
  <1>1. CASE Tick \/ Cleanup
    BY <1>1, TickKeeps, CleanupKeeps
  <1>2. ASSUME NEW h \in Handlers,
               \/ Reveal(h) \/ Rotate(h) \/ Look(h) \/ Insert(h) \/ Again(h) \/ Crash(h)
               \/ \E t \in Provided : Upload(h, t)
               \/ CheckRotating(h) \/ CheckInvite(h)
        PROVE  CredInv'
    BY <1>2, RevealKeeps, RotateKeeps, LookKeeps, InsertKeeps, AgainKeeps, CrashKeeps,
       UploadKeeps, CheckRotatingKeeps, CheckInviteKeeps
  <1>3. ASSUME NEW i \in Invites, CreateInvite(i) \/ RevokeInvite(i) PROVE CredInv'
    BY <1>3, InvitesKeep
  <1>4. CASE UNCHANGED credVars
    BY <1>4 DEF credVars, CredInv, CredTypeOK, RowsInv, PendingInv, AnsweredInv,
                RequestsInv, RequestInv, GivenOut
  <1> QED
    BY <1>1, <1>2, <1>3, <1>4 DEF CredStep

\* The invariant the statements about tokens and invites follow from.
THEOREM CredentialsInvariant == CredSpec => []CredInv
  BY InitCredInv, CredInvStep, PTL DEF CredSpec

\* A token that was given out is accepted for its two windows, whatever workers
\* make at the same time, until the operator rotates.
THEOREM TokensStayAccepted == CredSpec => []StaysAccepted
  <1>1. CredInv => StaysAccepted
    <2> SUFFICES ASSUME CredInv, NEW a \in answered, a.epoch = epoch, window < a.window + 2
                 PROVE  Valid(window, a.token)
      BY DEF StaysAccepted
    <2>1. tokens[a.window] = a.token
      BY DEF CredInv, AnsweredInv
    <2>2. /\ a.window \in Window /\ a.window \in Nat /\ window \in Nat
          /\ a.token # NoToken
      BY Kinds DEF CredInv, CredTypeOK
    <2> QED
      BY <2>1, <2>2 DEF Valid
  <1> QED
    BY <1>1, CredentialsInvariant, PTL

\* A token that was given out admits no upload that begins after its two windows
\* or after the operator rotated.
THEOREM LeakedTokensDie == CredSpec => []SharedTokensDie
  <1>1. CredInv => SharedTokensDie
    BY DEF CredInv, RequestsInv, RequestInv, SharedTokensDie
  <1> QED
    BY <1>1, CredentialsInvariant, PTL

\* No upload is let in with an invite revoked before it began, nor without a
\* credential once there has been a token of either kind to ask for.
THEOREM NobodySlipsIn == CredSpec => []AdmittedByRight
  <1>1. CredInv => AdmittedByRight
    BY DEF CredInv, RequestsInv, RequestInv, AdmittedByRight
  <1> QED
    BY <1>1, CredentialsInvariant, PTL

-----------------------------------------------------------------------------
(* Requests under way, of all that the limits and the slots hold back.     *)

ServingType ==
    {NoRequest} \cup [pc : {"limit", "check", "release"}, client : Clients, now : Nat]

Table(f, S) == f = [x \in S |-> f[x]]

\* A request has read the time, and waits no longer than Lag for its lock.
ServingInv ==
    /\ clock \in Nat /\ serving \in [Serving -> ServingType]
    /\ \A h \in Serving : serving[h].pc \in {"limit", "check"} =>
           serving[h].now <= clock /\ clock <= serving[h].now + Lag

SlotsInv ==
    /\ slotsOf \in [Processes -> [Clients -> Nat]]
    /\ SlotsGivenBack

Holders(p, c) == {h \in Serving : HoldsSlot(h, p, c)}

LEMMA HoldersAreFinite ==
    ASSUME NEW p, NEW c
    PROVE  /\ IsFiniteSet(Serving) /\ IsFiniteSet(Holders(p, c))
           /\ Cardinality(Holders(p, c)) \in Nat
PROOF
<1>1. IsFiniteSet(Serving)
  BY ThrottleBounds, FS_Product DEF Serving
<1>2. IsFiniteSet(Holders(p, c))
  BY <1>1, FS_Subset DEF Holders
<1> QED BY <1>1, <1>2, FS_CardinalityType

LEMMA ServingTyped ==
    ASSUME NEW h \in Serving, ServingInv
    PROVE  /\ ProcessOf(h) \in Processes
           /\ serving[h] = NoRequest \/
                  serving[h] \in [pc : {"limit", "check", "release"},
                                  client : Clients, now : Nat]
           /\ NoRequest.pc = "idle"
PROOF BY DEF Serving, ProcessOf, ServingInv, ServingType, NoRequest

\* What a step does to the requests, whichever it is.
LEMMA ServingSteps ==
    ASSUME ServingInv, [ThrottleStep]_throttleVars
    PROVE  ServingInv'
PROOF
<1> USE DEF ServingInv
<1>1. ASSUME NEW h \in Serving, NEW c \in Clients, NEW pc \in {"limit", "check"},
             Arrives(h, c, pc), clock' = clock
      PROVE  ServingInv'
  <2> DEFINE r == [pc |-> pc, client |-> c, now |-> clock]
  <2>1. r \in ServingType /\ r.now = clock
    BY DEF ServingType
  <2>2. serving' = [serving EXCEPT ![h] = r]
    BY <1>1 DEF Arrives
  <2>3. Lag \in Nat
    BY ThrottleBounds
  <2> HIDE DEF r
  <2> QED BY <1>1, <2>1, <2>2, <2>3
<1>2. ASSUME NEW h \in Serving, Goes(h, "release"), serving[h].pc = "limit", clock' = clock
      PROVE  ServingInv'
  <2> DEFINE r == [serving[h] EXCEPT !.pc = "release"]
  <2>1. r \in ServingType /\ r.pc = "release"
    BY <1>2, ServingTyped DEF ServingType
  <2>2. serving' = [serving EXCEPT ![h] = r]
    BY <1>2 DEF Goes
  <2> HIDE DEF r
  <2> QED BY <1>2, <2>1, <2>2
<1>3. ASSUME NEW h \in Serving, IsOver(h), clock' = clock
      PROVE  ServingInv'
  BY <1>3, ServingTyped DEF IsOver, ServingType
<1>4. ASSUME NEW h \in Serving
      PROVE  /\ LimitChunks(h) \/ LimiterRaises(h) \/ ReleaseSlot(h) \/ CheckLimit(h)
                    => ServingInv'
             /\ \A c \in Clients : AcquireSlot(h, c) \/ Asks(h, c) => ServingInv'
  BY <1>1, <1>2, <1>3 DEF LimitChunks, LimiterRaises, ReleaseSlot, CheckLimit,
     AcquireSlot, Asks
<1>5. CASE TimePasses
  <2>1. \A h \in Serving : serving[h].pc \in {"limit", "check"} => serving[h].now \in Nat
    BY ServingTyped
  <2>2. clock' = clock + 1 /\ serving' = serving
        /\ \A h \in Serving : serving[h].pc \in {"limit", "check"} =>
              clock' <= serving[h].now + Lag
    BY <1>5 DEF TimePasses
  <2> QED BY <2>1, <2>2
<1>6. CASE PruneHits \/ UNCHANGED throttleVars
  BY <1>6 DEF PruneHits, throttleVars
<1>7. ASSUME NEW p \in Processes, Dies(p)
      PROVE  ServingInv'
  BY <1>7, ServingTyped DEF Dies, ServingType
<1> QED BY <1>4, <1>5, <1>6, <1>7 DEF ThrottleStep

-----------------------------------------------------------------------------
(* Slots.                                                                  *)

LEMMA SlotsStay ==
    ASSUME SlotsInv, slotsOf' = slotsOf,
           \A h \in Serving, p \in Processes, c \in Clients :
               HoldsSlot(h, p, c)' <=> HoldsSlot(h, p, c)
    PROVE  SlotsInv'
PROOF
<1>1. ASSUME NEW p \in Processes, NEW c \in Clients
      PROVE  {h \in Serving : HoldsSlot(h, p, c)'} = {h \in Serving : HoldsSlot(h, p, c)}
  OBVIOUS
<1> QED BY <1>1 DEF SlotsInv, SlotsGivenBack

LEMMA SlotsStep ==
    ASSUME ServingInv, SlotsInv, [ThrottleStep]_throttleVars
    PROVE  SlotsInv'
PROOF
<1>s. serving \in [Serving -> ServingType]
  BY DEF ServingInv
<1>c. slotsOf \in [Processes -> [Clients -> Nat]] /\ Slots \in Nat
  BY ThrottleBounds DEF SlotsInv
\* One client of one process gets or gives back a slot.
<1>1. ASSUME NEW p \in Processes, NEW c \in Clients, NEW n \in Nat,
             slotsOf' = [slotsOf EXCEPT ![p][c] = n], n <= Slots,
             n = Cardinality(Holders(p, c)'),
             \A q \in Processes, d \in Clients :
                 q # p \/ d # c => Holders(q, d)' = Holders(q, d)
      PROVE  SlotsInv'
  <2>1. slotsOf' \in [Processes -> [Clients -> Nat]]
    BY <1>c, <1>1
  <2>2. ASSUME NEW q \in Processes, NEW d \in Clients
        PROVE  /\ slotsOf'[q][d] = Cardinality(Holders(q, d)')
               /\ slotsOf'[q][d] <= Slots
    <3>1. CASE q = p /\ d = c
      BY <1>c, <1>1, <3>1
    <3>2. CASE q # p \/ d # c
      <4>1. slotsOf'[q][d] = slotsOf[q][d] /\ Holders(q, d)' = Holders(q, d)
        BY <1>c, <1>1, <3>2
      <4> QED BY <4>1 DEF SlotsInv, SlotsGivenBack, Holders
    <3> QED BY <3>1, <3>2
  <2> QED BY <2>1, <2>2 DEF SlotsInv, SlotsGivenBack, Holders
<1>2. ASSUME NEW h \in Serving, NEW c \in Clients, AcquireSlot(h, c)
      PROVE  SlotsInv'
  <2> DEFINE p == ProcessOf(h)
  <2>1. PICK q \in Processes : q = p
    BY ServingTyped
  <2>2. /\ serving[h].pc = "idle" /\ serving'[h].pc = "limit" /\ serving'[h].client = c
        /\ \A g \in Serving \ {h} : serving'[g] = serving[g]
    BY <1>s, <1>2 DEF AcquireSlot, Arrives, NoRequest
  <2>3. Holders(q, c)' = Holders(q, c) \cup {h} /\ h \notin Holders(q, c)
    BY <2>1, <2>2 DEF Holders, HoldsSlot
  <2>4. \A r \in Processes, d \in Clients :
            r # q \/ d # c => Holders(r, d)' = Holders(r, d)
    BY <2>1, <2>2 DEF Holders, HoldsSlot
  <2>5. slotsOf[q][c] = Cardinality(Holders(q, c)) /\ slotsOf[q][c] \in Nat
    BY <1>c DEF SlotsInv, SlotsGivenBack, Holders
  <2>6. Cardinality(Holders(q, c)') = slotsOf[q][c] + 1
    <3>1. IsFiniteSet(Holders(q, c))
      BY HoldersAreFinite
    <3> HIDE DEF p
    <3>2. Cardinality(Holders(q, c) \cup {h}) = Cardinality(Holders(q, c)) + 1
      BY <2>3, <3>1, FS_AddElement
    <3> QED BY <2>3, <2>5, <3>2
  <2>7. slotsOf[q][c] + 1 <= Slots /\ slotsOf' = [slotsOf EXCEPT ![q][c] = slotsOf[q][c] + 1]
    BY <1>2, <1>c, <2>1, <2>5 DEF AcquireSlot
  <2>8. slotsOf[q][c] + 1 \in Nat
    BY <2>5
  <2> HIDE DEF p
  <2> QED BY <1>1, <2>4, <2>6, <2>7, <2>8
<1>3. ASSUME NEW h \in Serving, ReleaseSlot(h)
      PROVE  SlotsInv'
  <2>1. PICK q \in Processes, c \in Clients : q = ProcessOf(h) /\ c = serving[h].client
    BY <1>3, ServingTyped DEF ReleaseSlot
  <2>2. /\ serving[h].pc = "release" /\ serving'[h].pc = "idle"
        /\ \A g \in Serving \ {h} : serving'[g] = serving[g]
    BY <1>s, <1>3 DEF ReleaseSlot, IsOver, NoRequest
  <2>3. Holders(q, c)' = Holders(q, c) \ {h} /\ h \in Holders(q, c)
    BY <2>1, <2>2 DEF Holders, HoldsSlot
  <2>4. \A r \in Processes, d \in Clients :
            r # q \/ d # c => Holders(r, d)' = Holders(r, d)
    BY <2>1, <2>2 DEF Holders, HoldsSlot
  <2>5. /\ slotsOf[q][c] = Cardinality(Holders(q, c)) /\ slotsOf[q][c] \in Nat
        /\ slotsOf[q][c] <= Slots
    BY <1>c DEF SlotsInv, SlotsGivenBack, Holders
  <2>6. /\ Cardinality(Holders(q, c)') = slotsOf[q][c] - 1
        /\ Cardinality(Holders(q, c)') \in Nat
    <3>1. Cardinality(Holders(q, c) \ {h}) = Cardinality(Holders(q, c)) - 1
      BY <2>3, HoldersAreFinite, FS_RemoveElement
    <3>2. IsFiniteSet(Holders(q, c) \ {h})
      BY <2>3, HoldersAreFinite, FS_RemoveElement
    <3> QED BY <2>3, <2>5, <3>1, <3>2, FS_CardinalityType
  <2>7. slotsOf' = [slotsOf EXCEPT ![q][c] = slotsOf[q][c] - 1]
    <3>1. LessOne(q, c) = slotsOf[q][c] - 1
      BY <2>5, <2>6 DEF LessOne
    <3> QED BY <1>3, <2>1, <3>1 DEF ReleaseSlot
  <2>8. slotsOf[q][c] - 1 \in Nat /\ slotsOf[q][c] - 1 <= Slots
    BY <1>c, <2>5, <2>6
  <2> QED BY <1>1, <2>4, <2>6, <2>7, <2>8
<1>4. ASSUME NEW h \in Serving, LimitChunks(h) \/ LimiterRaises(h)
      PROVE  SlotsInv'
  <2>1. /\ serving[h].pc = "limit" /\ serving'[h].pc = "release"
        /\ serving'[h].client = serving[h].client /\ slotsOf' = slotsOf
        /\ \A g \in Serving \ {h} : serving'[g] = serving[g]
    BY <1>s, <1>4, ServingTyped DEF LimitChunks, LimiterRaises, Goes
  <2> QED BY <2>1, SlotsStay DEF HoldsSlot
<1>5. ASSUME NEW h \in Serving, CheckLimit(h) \/ \E c \in Clients : Asks(h, c)
      PROVE  SlotsInv'
  <2>1. /\ serving[h].pc \in {"idle", "check"} /\ serving'[h].pc \in {"idle", "check"}
        /\ slotsOf' = slotsOf
        /\ \A g \in Serving \ {h} : serving'[g] = serving[g]
    BY <1>s, <1>5 DEF CheckLimit, Asks, Arrives, IsOver, NoRequest
  <2> QED BY <2>1, SlotsStay DEF HoldsSlot
<1>6. CASE TimePasses \/ PruneHits \/ UNCHANGED throttleVars
  BY <1>6, SlotsStay DEF TimePasses, PruneHits, HoldsSlot, throttleVars
<1>7. ASSUME NEW p \in Processes, Dies(p)
      PROVE  SlotsInv'
  <2>1. /\ slotsOf' = [slotsOf EXCEPT ![p] = [c \in Clients |-> 0]]
        /\ \A h \in Serving : serving'[h] =
               IF ProcessOf(h) = p THEN NoRequest ELSE serving[h]
    BY <1>7 DEF Dies
  <2>2. slotsOf' \in [Processes -> [Clients -> Nat]]
    BY <1>c, <2>1
  <2>3. ASSUME NEW q \in Processes, NEW d \in Clients
        PROVE  /\ slotsOf'[q][d] = Cardinality(Holders(q, d)')
               /\ slotsOf'[q][d] <= Slots
    <3>1. CASE q = p
      <4>1. Holders(q, d)' = {} /\ slotsOf'[q][d] = 0
        BY <1>c, <2>1, <3>1 DEF Holders, HoldsSlot, NoRequest
      <4> QED BY <1>c, <4>1, FS_EmptySet
    <3>2. CASE q # p
      <4>1. Holders(q, d)' = Holders(q, d) /\ slotsOf'[q][d] = slotsOf[q][d]
        BY <1>c, <2>1, <3>2 DEF Holders, HoldsSlot
      <4> QED BY <4>1 DEF SlotsInv, SlotsGivenBack, Holders
    <3> QED BY <3>1, <3>2
  <2> QED BY <2>2, <2>3 DEF SlotsInv, SlotsGivenBack, Holders
<1> QED BY <1>2, <1>3, <1>4, <1>5, <1>6, <1>7 DEF ThrottleStep

LEMMA ThrottleBegins == ThrottleInit => ServingInv /\ SlotsInv
PROOF
<1> SUFFICES ASSUME ThrottleInit PROVE ServingInv /\ SlotsInv
  OBVIOUS
<1>1. ServingInv
  BY DEF ThrottleInit, ServingInv, ServingType, NoRequest
<1>2. ASSUME NEW p \in Processes, NEW c \in Clients
      PROVE  slotsOf[p][c] = 0 /\ {h \in Serving : HoldsSlot(h, p, c)} = {}
  BY DEF ThrottleInit, NoClients, HoldsSlot, NoRequest
<1>3. slotsOf \in [Processes -> [Clients -> Nat]] /\ Slots \in Nat
  BY ThrottleBounds DEF ThrottleInit, NoClients
<1> QED BY <1>1, <1>2, <1>3, FS_EmptySet DEF SlotsInv, SlotsGivenBack

\* security.py, routes/files.py: whichever way a chunk request ends, it gives its
\* slot back once; and a worker hands out no more than there are.
THEOREM NoSlotIsLost == ThrottleSpec => []SlotsGivenBack
PROOF
<1>1. SlotsInv => SlotsGivenBack
  BY DEF SlotsInv
<1>2. ThrottleInit => ServingInv /\ SlotsInv
  BY ThrottleBegins
<1>3. ServingInv /\ SlotsInv /\ [ThrottleStep]_throttleVars => (ServingInv /\ SlotsInv)'
  BY ServingSteps, SlotsStep
<1> QED BY <1>1, <1>2, <1>3, PTL DEF ThrottleSpec

-----------------------------------------------------------------------------
(* Rates.  A bucket still has a hit for whatever was let in within the     *)
(* last k seconds, so at the limit nothing is let in; where the window of  *)
(* the limiter is longer than k by the Lag a hit may be recorded late.     *)

Remembers(hits, in, k, at) ==
    \A i \in 1 .. Len(in) : in[i] <= at /\ (in[i] + k >= at => i \in DOMAIN hits)

\* What was let in before a hit, or lost its own, is not later than that hit by
\* more than the Lag.
Witnesses(hits, in) ==
    \A n \in DOMAIN hits :
        /\ hits[n] \in Nat
        /\ \A i \in 1 .. Len(in) :
               i <= n \/ i \notin DOMAIN hits => in[i] <= hits[n] + Lag

KeepsTo(in, k, limit) == \A from \in Nat : Times(in, from, from + k) <= limit

BucketInv(hits, in, k, limit, at) ==
    /\ in \in Seq(Nat) /\ DOMAIN hits \subseteq 1 .. Len(in)
    /\ Remembers(hits, in, k, at) /\ Witnesses(hits, in) /\ KeepsTo(in, k, limit)

LEMMA BucketEmpty ==
    ASSUME NEW k \in Nat, NEW limit \in Nat, NEW at \in Nat
    PROVE  BucketInv(NoHits, <<>>, k, limit, at)
PROOF
<1>1. <<>> \in Seq(Nat) /\ Len(<<>>) = 0 /\ DOMAIN NoHits = {}
  BY EmptySeq DEF NoHits
<1>2. ASSUME NEW from \in Nat
      PROVE  Times(<<>>, from, from + k) <= limit
  <2>1. {i \in DOMAIN <<>> : <<>>[i] \in from .. from + k} = {}
    BY <1>1, LenProperties
  <2> QED BY <2>1, FS_EmptySet DEF Times
<1> QED BY <1>1, <1>2 DEF BucketInv, Remembers, Witnesses, KeepsTo

LEMMA BucketWaits ==
    ASSUME NEW hits, NEW in, NEW k \in Nat, NEW limit, NEW at \in Nat, NEW later \in Nat,
           BucketInv(hits, in, k, limit, at), at <= later
    PROVE  BucketInv(hits, in, k, limit, later)
PROOF
<1>1. \A i \in 1 .. Len(in) : in[i] \in Nat
  BY ElementOfSeq DEF BucketInv
<1>2. Remembers(hits, in, k, later)
  BY <1>1 DEF BucketInv, Remembers
<1> QED BY <1>2 DEF BucketInv

Kept(hits, width, now) == {n \in DOMAIN hits : hits[n] + width >= now}

\* Pruning by age drops nothing that was let in lately, and keeps the rest later.
LEMMA BucketPruned ==
    ASSUME NEW hits, NEW in, NEW k \in Nat, NEW limit, NEW at \in Nat,
           BucketInv(hits, in, k, limit, at),
           NEW width \in Nat, k + Lag <= width, NEW now \in Nat, now <= at
    PROVE  BucketInv(Only(hits, Kept(hits, width, now)), in, k, limit, at)
PROOF
<1> DEFINE live == Kept(hits, width, now)
<1>d. live = {n \in DOMAIN hits : hits[n] + width >= now}
  BY DEF Kept
<1> HIDE DEF live
<1>l. Lag \in Nat
  BY ThrottleBounds
<1>1. \A i \in 1 .. Len(in) : in[i] \in Nat
  BY ElementOfSeq DEF BucketInv
<1>2. DOMAIN Only(hits, live) = live /\ \A n \in live : Only(hits, live)[n] = hits[n]
  BY DEF Only
<1>3. \A n \in DOMAIN hits : hits[n] \in Nat /\ n \in 1 .. Len(in) /\ n \in Nat
  BY DEF BucketInv, Witnesses
<1>4. ASSUME NEW i \in 1 .. Len(in), in[i] + k >= at
      PROVE  i \in live
  <2>1. i \in DOMAIN hits /\ in[i] <= hits[i] + Lag /\ hits[i] \in Nat
    BY <1>3, <1>4 DEF BucketInv, Remembers, Witnesses
  <2> QED BY <1>d, <1>l, <1>1, <1>4, <2>1
<1>5. ASSUME NEW n \in live, NEW i \in 1 .. Len(in), i <= n \/ i \notin live
      PROVE  in[i] <= hits[n] + Lag
  <2>1. CASE i <= n \/ i \notin DOMAIN hits
    BY <1>d, <1>5, <2>1 DEF BucketInv, Witnesses
  <2>2. CASE i \in DOMAIN hits /\ i \notin live
    <3>1. in[i] <= hits[i] + Lag /\ hits[i] \in Nat /\ hits[n] \in Nat
      <4>1. i <= i
        OBVIOUS
      <4> QED BY <1>d, <1>3, <1>5, <2>2, <4>1 DEF BucketInv, Witnesses
    <3>2. hits[i] + width < now /\ now <= hits[n] + width
      BY <1>d, <1>5, <2>2, <3>1
    <3>3. hits[i] <= hits[n]
      BY <3>1, <3>2
    <3> QED BY <1>l, <1>1, <3>1, <3>3
  <2> QED BY <1>5, <2>1, <2>2
<1>6. BucketInv(Only(hits, live), in, k, limit, at)
  <2>1. Remembers(Only(hits, live), in, k, at)
    BY <1>2, <1>4 DEF BucketInv, Remembers
  <2>2. Witnesses(Only(hits, live), in)
    BY <1>d, <1>2, <1>3, <1>5 DEF Witnesses
  <2> QED BY <1>d, <1>2, <2>1, <2>2 DEF BucketInv
<1> QED BY <1>6 DEF live

\* A bucket whose last hit lapsed has none that counts, whatever its newest is.
LEMMA BucketSwept ==
    ASSUME NEW hits, NEW in, NEW k \in Nat, NEW limit, NEW at \in Nat,
           BucketInv(hits, in, k, limit, at),
           NEW n \in DOMAIN hits, \A m \in DOMAIN hits : m <= n,
           hits[n] + Lag + k < at
    PROVE  BucketInv(NoHits, in, k, limit, at)
PROOF
<1>l. Lag \in Nat
  BY ThrottleBounds
<1>1. \A i \in 1 .. Len(in) : in[i] \in Nat
  BY ElementOfSeq DEF BucketInv
<1>2. hits[n] \in Nat /\ \A i \in 1 .. Len(in) : in[i] <= hits[n] + Lag
  BY DEF BucketInv, Witnesses
<1>3. \A i \in 1 .. Len(in) : ~(in[i] + k >= at)
  BY <1>l, <1>1, <1>2
<1>4. DOMAIN NoHits = {}
  BY DEF NoHits
<1> QED BY <1>3, <1>4 DEF BucketInv, Remembers, Witnesses

\* What was let in before is counted by hits, so one more keeps the limit.
LEMMA BucketGrows ==
    ASSUME NEW hits, NEW in, NEW k \in Nat, NEW limit \in Nat, NEW at \in Nat,
           NEW live \in SUBSET DOMAIN hits,
           BucketInv(Only(hits, live), in, k, limit, at),
           Cardinality(live) < limit,
           NEW now \in Nat, now <= at, at <= now + Lag
    PROVE  BucketInv(WithHit(hits, live, Len(in) + 1, now), Append(in, at), k, limit, at)
PROOF
<1> DEFINE more == WithHit(hits, live, Len(in) + 1, now)
           in2 == Append(in, at)
           last == Len(in) + 1
<1>l. Lag \in Nat
  BY ThrottleBounds
<1>1. /\ in \in Seq(Nat) /\ Len(in) \in Nat
      /\ \A i \in 1 .. Len(in) : in[i] \in Nat /\ in[i] <= at
  BY ElementOfSeq, LenProperties DEF BucketInv, Remembers
<1>2. /\ in2 \in Seq(Nat) /\ Len(in2) = last /\ in2[last] = at
      /\ \A i \in 1 .. Len(in) : in2[i] = in[i]
  BY <1>1, AppendProperties
<1>3. /\ DOMAIN Only(hits, live) = live /\ \A n \in live : Only(hits, live)[n] = hits[n]
      /\ live \subseteq 1 .. Len(in)
  BY DEF Only, BucketInv
<1>4. /\ DOMAIN more = live \cup {last} /\ more[last] = now
      /\ \A n \in live : more[n] = hits[n] /\ n # last /\ n \in 1 .. Len(in)
  BY <1>1, <1>3 DEF WithHit
<1>5. \A i \in 1 .. Len(in2) : i \in 1 .. Len(in) \/ i = last
  BY <1>1, <1>2
<1> HIDE DEF more, in2
<1>6. DOMAIN more \subseteq 1 .. Len(in2)
  BY <1>1, <1>2, <1>4
<1>t. \A i \in 1 .. Len(in2) : in2[i] <= at /\ in2[i] \in Nat
  <2>1. ASSUME NEW i \in 1 .. Len(in2)
        PROVE  in2[i] <= at /\ in2[i] \in Nat
    <3>1. CASE i = last
      BY <1>2, <3>1
    <3>2. CASE i \in 1 .. Len(in)
      BY <1>1, <1>2, <3>2
    <3> QED BY <1>5, <3>1, <3>2
  <2> QED BY <2>1
<1>7. Remembers(more, in2, k, at)
  <2>1. \A i \in 1 .. Len(in) : in[i] + k >= at => i \in live
    BY <1>3 DEF BucketInv, Remembers
  <2>2. ASSUME NEW i \in 1 .. Len(in2), in2[i] + k >= at
        PROVE  i \in DOMAIN more
    <3>1. CASE i = last
      BY <1>4, <3>1
    <3>2. CASE i \in 1 .. Len(in)
      BY <1>2, <1>4, <2>1, <2>2, <3>2
    <3> QED BY <1>5, <3>1, <3>2
  <2> QED BY <1>t, <2>2 DEF Remembers
<1>8. ASSUME NEW n \in DOMAIN more
      PROVE  /\ more[n] \in Nat
             /\ \A i \in 1 .. Len(in2) :
                    i <= n \/ i \notin DOMAIN more => in2[i] <= more[n] + Lag
  <2>1. CASE n = last
    <3>1. \A i \in 1 .. Len(in2) : in2[i] <= at /\ in2[i] \in Nat
      BY <1>t
    <3> QED BY <1>l, <1>4, <2>1, <3>1
  <2>2. CASE n \in live
    <3>1. /\ hits[n] \in Nat /\ more[n] = hits[n] /\ n \in 1 .. Len(in)
          /\ \A i \in 1 .. Len(in) : i <= n \/ i \notin live => in[i] <= hits[n] + Lag
      BY <1>3, <1>4, <2>2 DEF BucketInv, Witnesses
    <3>2. ~(last <= n)
      BY <1>1, <3>1
    <3> QED BY <1>2, <1>4, <1>5, <3>1, <3>2
  <2> QED BY <1>4, <2>1, <2>2
<1>9. ASSUME NEW from \in Nat
      PROVE  Times(in2, from, from + k) <= limit
  <2> DEFINE S  == {i \in DOMAIN in : in[i] \in from .. from + k}
             S2 == {i \in DOMAIN in2 : in2[i] \in from .. from + k}
  <2>1. DOMAIN in = 1 .. Len(in) /\ DOMAIN in2 = 1 .. Len(in2)
    BY <1>1, <1>2, LenProperties
  <2>2. IsFiniteSet(S) /\ Cardinality(S) \in Nat /\ last \notin S
    <3>1. IsFiniteSet(1 .. Len(in))
      BY <1>1, FS_Interval
    <3>2. S \subseteq 1 .. Len(in)
      BY <2>1
    <3>3. IsFiniteSet(S)
      BY <3>1, <3>2, FS_Subset
    <3> QED BY <1>1, <3>2, <3>3, FS_CardinalityType
  <2>3. CASE ~(at \in from .. from + k)
    <3>1. S2 = S
      BY <1>1, <1>2, <1>5, <2>1, <2>3
    <3>2. Cardinality(S) <= limit
      BY DEF BucketInv, KeepsTo, Times
    <3> QED BY <3>1, <3>2 DEF Times
  <2>4. CASE at \in from .. from + k
    <3>1. S2 = S \cup {last}
      BY <1>1, <1>2, <1>5, <2>1, <2>4
    <3>2. S \subseteq live
      <4>1. \A i \in S : i \in 1 .. Len(in) /\ in[i] + k >= at
        BY <1>1, <2>1, <2>4
      <4> QED BY <1>3, <4>1 DEF BucketInv, Remembers
    <3>3. IsFiniteSet(live)
      <4>1. IsFiniteSet(1 .. Len(in))
        BY <1>1, FS_Interval
      <4> QED BY <1>3, <4>1, FS_Subset
    <3>4. Cardinality(S) <= Cardinality(live) /\ Cardinality(live) \in Nat
      BY <3>2, <3>3, FS_Subset, FS_CardinalityType
    <3>5. Cardinality(S2) = Cardinality(S) + 1
      BY <2>2, <3>1, FS_AddElement
    <3> QED BY <2>2, <3>4, <3>5 DEF Times
  <2> QED BY <2>3, <2>4
<1> QED BY <1>2, <1>6, <1>7, <1>8, <1>9 DEF BucketInv, Witnesses, KeepsTo, more, in2

ChunkRate == BucketInv(dbHits, chunksIn, ChunkWindow - Lag, ChunkLimit, clock)

ClientRate(p, c) ==
    BucketInv(memHits[p][c], letIn[p][c], RateWindow - Lag - 1, ClientLimit, clock)

ClientRates ==
    /\ Table(memHits, Processes) /\ \A p \in Processes : Table(memHits[p], Clients)
    /\ letIn \in [Processes -> [Clients -> Seq(Nat)]]
    /\ \A p \in Processes, c \in Clients : ClientRate(p, c)

LEMMA Widths ==
    /\ ChunkWindow - Lag \in Nat /\ RateWindow - Lag - 1 \in Nat /\ RateWindow - 1 \in Nat
    /\ {ChunkLimit, ClientLimit, ChunkWindow, RateWindow, Lag} \subseteq Nat
PROOF BY ThrottleBounds

\* rate_limit and the cleaner, whose window is no shorter.
LEMMA ChunkRateStep ==
    ASSUME ChunkWindow <= RateWindow, ServingInv, ChunkRate, [ThrottleStep]_throttleVars
    PROVE  ChunkRate'
PROOF
<1>w. /\ ChunkWindow - Lag \in Nat /\ ChunkWindow \in Nat /\ RateWindow \in Nat
      /\ ChunkLimit \in Nat /\ Lag \in Nat /\ clock \in Nat
  BY Widths DEF ServingInv
<1> DEFINE k == ChunkWindow - Lag
<1>k. k \in Nat /\ k + Lag = ChunkWindow
  BY <1>w
<1> HIDE DEF k
<1>b. BucketInv(dbHits, chunksIn, k, ChunkLimit, clock)
  BY DEF ChunkRate, k
<1>1. SUFFICES BucketInv(dbHits', chunksIn', k, ChunkLimit, clock')
  BY DEF ChunkRate, k
<1>2. ASSUME NEW h \in Serving, LimitChunks(h)
      PROVE  BucketInv(dbHits', chunksIn', k, ChunkLimit, clock')
  <2> DEFINE now == serving[h].now  live == Pruned(now, ChunkWindow)
  <2>1. now \in Nat /\ now <= clock /\ clock <= now + Lag
    BY <1>2, ServingTyped DEF LimitChunks, ServingInv
  <2>2. live = Kept(dbHits, ChunkWindow, now)
    BY DEF Pruned, Kept
  <2>3. live \in SUBSET DOMAIN dbHits
    BY <2>2 DEF Kept
  <2> HIDE DEF now, live
  <2>4. BucketInv(Only(dbHits, live), chunksIn, k, ChunkLimit, clock)
    BY <1>b, <1>k, <1>w, <2>1, <2>2, BucketPruned
  <2>5. /\ clock' = clock
        /\ \/ /\ Cardinality(live) < ChunkLimit
              /\ dbHits' = WithHit(dbHits, live, Len(chunksIn) + 1, now)
              /\ chunksIn' = Append(chunksIn, clock)
           \/ UNCHANGED <<dbHits, chunksIn>>
    BY <1>2 DEF LimitChunks, now, live
  <2>6. CASE UNCHANGED <<dbHits, chunksIn>>
    BY <1>b, <2>5, <2>6
  <2>7. CASE /\ Cardinality(live) < ChunkLimit
             /\ dbHits' = WithHit(dbHits, live, Len(chunksIn) + 1, now)
             /\ chunksIn' = Append(chunksIn, clock)
    BY <1>k, <1>w, <2>1, <2>4, <2>3, <2>5, <2>7, BucketGrows
  <2> QED BY <2>5, <2>6, <2>7
<1>3. CASE PruneHits
  <2>1. PICK now \in 0 .. clock : dbHits' = Only(dbHits, Pruned(now, RateWindow))
    BY <1>3 DEF PruneHits
  <2>2. Pruned(now, RateWindow) = Kept(dbHits, RateWindow, now)
    BY DEF Pruned, Kept
  <2>3. chunksIn' = chunksIn /\ clock' = clock /\ now \in Nat /\ now <= clock
    BY <1>3, <1>w DEF PruneHits
  <2>4. k + Lag <= RateWindow
    BY <1>k
  <2>5. BucketInv(Only(dbHits, Pruned(now, RateWindow)), chunksIn, k, ChunkLimit, clock)
    BY <1>b, <1>k, <1>w, <2>2, <2>3, <2>4, BucketPruned
  <2> QED BY <2>1, <2>3, <2>5
<1>4. CASE TimePasses
  <2>1. dbHits' = dbHits /\ chunksIn' = chunksIn /\ clock' = clock + 1
    BY <1>4 DEF TimePasses
  <2>2. clock + 1 \in Nat /\ clock <= clock + 1
    BY <1>w
  <2> QED BY <1>b, <1>k, <1>w, <2>1, <2>2, BucketWaits
<1>5. ASSUME UNCHANGED <<dbHits, chunksIn, clock>>
      PROVE  BucketInv(dbHits', chunksIn', k, ChunkLimit, clock')
  BY <1>b, <1>5
<1>6. ASSUME NEW h \in Serving
      PROVE  /\ LimiterRaises(h) \/ ReleaseSlot(h) \/ CheckLimit(h)
                    => UNCHANGED <<dbHits, chunksIn, clock>>
             /\ \A c \in Clients : AcquireSlot(h, c) \/ Asks(h, c)
                    => UNCHANGED <<dbHits, chunksIn, clock>>
  BY DEF LimiterRaises, ReleaseSlot, CheckLimit, AcquireSlot, Asks
<1>7. (\E p \in Processes : Dies(p)) \/ UNCHANGED throttleVars
          => UNCHANGED <<dbHits, chunksIn, clock>>
  BY DEF Dies, throttleVars
<1> QED BY <1>2, <1>3, <1>4, <1>5, <1>6, <1>7 DEF ThrottleStep

\* What is left after a sweep is a bucket like any other.
LEMMA SweepKeeps ==
    ASSUME ClientRates, clock \in Nat, NEW p \in Processes, NEW now \in Nat, now <= clock
    PROVE  /\ Table(Swept(p, now), Clients)
           /\ \A d \in Clients : BucketInv(Swept(p, now)[d], letIn[p][d],
                                           RateWindow - Lag - 1, ClientLimit, clock)
PROOF
<1> DEFINE k == RateWindow - Lag - 1
<1>w. k \in Nat /\ k + Lag + 1 = RateWindow /\ Lag \in Nat /\ ClientLimit \in Nat
  BY Widths
<1> HIDE DEF k
<1>1. ASSUME NEW d \in Clients
      PROVE  BucketInv(memHits[p][d], letIn[p][d], k, ClientLimit, clock)
  BY DEF ClientRates, ClientRate, k
<1>2. ASSUME NEW d \in Clients, Lapsed(memHits[p][d], now)
      PROVE  BucketInv(NoHits, letIn[p][d], k, ClientLimit, clock)
  <2>1. PICK n \in DOMAIN memHits[p][d] :
            /\ \A m \in DOMAIN memHits[p][d] : m <= n
            /\ memHits[p][d][n] + RateWindow <= now
    BY <1>2 DEF Lapsed
  <2>2. memHits[p][d][n] \in Nat
    BY <1>1 DEF BucketInv, Witnesses
  <2>3. memHits[p][d][n] + Lag + k < clock
    BY <1>w, <2>1, <2>2
  <2> QED BY <1>1, <1>w, <2>1, <2>3, BucketSwept
<1>3. Table(Swept(p, now), Clients)
  BY DEF Swept, Table, ClientRates
<1>4. ASSUME NEW d \in Clients
      PROVE  \/ Swept(p, now)[d] = memHits[p][d]
             \/ Swept(p, now)[d] = NoHits /\ Lapsed(memHits[p][d], now)
  BY DEF Swept
<1>5. ASSUME NEW d \in Clients
      PROVE  BucketInv(Swept(p, now)[d], letIn[p][d], k, ClientLimit, clock)
  BY <1>1, <1>2, <1>4
<1> QED BY <1>3, <1>5 DEF k

\* rate_limit_mem
LEMMA ClientRatesStep ==
    ASSUME ServingInv, ClientRates, [ThrottleStep]_throttleVars
    PROVE  ClientRates'
PROOF
<1> DEFINE k == RateWindow - Lag - 1
<1>w. /\ k \in Nat /\ k + Lag <= RateWindow - 1 /\ RateWindow - 1 \in Nat
      /\ RateWindow \in Nat /\ Lag \in Nat /\ ClientLimit \in Nat /\ clock \in Nat
  BY Widths DEF ServingInv
<1> HIDE DEF k
<1>b. ASSUME NEW p \in Processes, NEW c \in Clients
      PROVE  BucketInv(memHits[p][c], letIn[p][c], k, ClientLimit, clock)
  BY DEF ClientRates, ClientRate, k
<1>t. /\ Table(memHits, Processes) /\ \A p \in Processes : Table(memHits[p], Clients)
      /\ letIn \in [Processes -> [Clients -> Seq(Nat)]]
  BY DEF ClientRates
\* The worker p may change, the others do not.
<1>1. ASSUME NEW p \in Processes, NEW v, memHits' = [memHits EXCEPT ![p] = v],
             Table(v, Clients), clock' = clock,
             letIn' \in [Processes -> [Clients -> Seq(Nat)]],
             \A q \in Processes \ {p} : letIn'[q] = letIn[q],
             \A c \in Clients : BucketInv(v[c], letIn'[p][c], k, ClientLimit, clock)
      PROVE  ClientRates'
  <2>1. /\ Table(memHits', Processes) /\ memHits'[p] = v
        /\ \A q \in Processes \ {p} : memHits'[q] = memHits[q]
    BY <1>t, <1>1 DEF Table
  <2>2. \A q \in Processes : Table(memHits'[q], Clients)
    BY <1>t, <1>1, <2>1
  <2>3. ASSUME NEW q \in Processes, NEW c \in Clients
        PROVE  BucketInv(memHits'[q][c], letIn'[q][c], k, ClientLimit, clock')
    BY <1>b, <1>1, <2>1
  <2> QED BY <1>1, <2>1, <2>2, <2>3 DEF ClientRates, ClientRate, k
<1>2. ASSUME NEW h \in Serving, CheckLimit(h)
      PROVE  ClientRates'
  <2>1. PICK p \in Processes, c \in Clients, now \in Nat :
            p = ProcessOf(h) /\ c = serving[h].client /\ now = serving[h].now
    BY <1>2, ServingTyped DEF CheckLimit
  <2>2. now <= clock /\ clock <= now + Lag
    BY <1>2, <2>1 DEF CheckLimit, ServingInv
  <2> DEFINE kept == Swept(p, now)
             live == {n \in DOMAIN kept[c] : kept[c][n] + RateWindow > now}
             more == WithHit(kept[c], live, Len(letIn[p][c]) + 1, now)
  <2>3. Table(kept, Clients)
    BY <1>w, <2>2, SweepKeeps
  <2>4. ASSUME NEW d \in Clients
        PROVE  BucketInv(kept[d], letIn[p][d], k, ClientLimit, clock)
    BY <1>w, <2>2, SweepKeeps DEF k
  <2>5. \/ /\ Cardinality(live) < ClientLimit
           /\ memHits' = [memHits EXCEPT ![p] = [kept EXCEPT ![c] = more]]
           /\ letIn' = [letIn EXCEPT ![p][c] = Append(letIn[p][c], clock)]
        \/ /\ memHits' = [memHits EXCEPT ![p] = [kept EXCEPT ![c] = Only(kept[c], live)]]
           /\ letIn' = letIn
    BY <1>2, <1>t, <2>1 DEF CheckLimit
  <2>6. clock' = clock
    BY <1>2 DEF CheckLimit
  <2> HIDE DEF kept
  <2>7. live = Kept(kept[c], RateWindow - 1, now)
    <3>1. \A n \in DOMAIN kept[c] : kept[c][n] \in Nat
      BY <2>4 DEF BucketInv, Witnesses
    <3> QED BY <1>w, <3>1 DEF Kept
  <2>8. live \in SUBSET DOMAIN kept[c]
    OBVIOUS
  <2> HIDE DEF live
  <2>9. BucketInv(Only(kept[c], live), letIn[p][c], k, ClientLimit, clock)
    BY <1>w, <2>2, <2>4, <2>7, BucketPruned
  <2>10. Cardinality(live) < ClientLimit =>
             BucketInv(more, Append(letIn[p][c], clock), k, ClientLimit, clock)
    BY <1>w, <2>2, <2>8, <2>9, BucketGrows
  <2> HIDE DEF more
  <2>11. ASSUME NEW b
         PROVE  LET v == [kept EXCEPT ![c] = b] IN
                /\ Table(v, Clients) /\ v[c] = b
                /\ \A d \in Clients \ {c} : v[d] = kept[d]
    BY <2>3 DEF Table
  <2>12. CASE /\ memHits' = [memHits EXCEPT ![p] = [kept EXCEPT ![c] = Only(kept[c], live)]]
              /\ letIn' = letIn
    <3> DEFINE v == [kept EXCEPT ![c] = Only(kept[c], live)]
    <3>1. /\ Table(v, Clients) /\ v[c] = Only(kept[c], live)
          /\ \A d \in Clients \ {c} : v[d] = kept[d]
      BY <2>11
    <3> HIDE DEF v
    <3>2. \A d \in Clients : BucketInv(v[d], letIn'[p][d], k, ClientLimit, clock)
      BY <2>4, <2>9, <2>12, <3>1
    <3>3. memHits' = [memHits EXCEPT ![p] = v]
      BY <2>12 DEF v
    <3> QED BY <1>1, <1>t, <2>6, <2>12, <3>1, <3>2, <3>3
  <2>13. CASE /\ Cardinality(live) < ClientLimit
              /\ memHits' = [memHits EXCEPT ![p] = [kept EXCEPT ![c] = more]]
              /\ letIn' = [letIn EXCEPT ![p][c] = Append(letIn[p][c], clock)]
    <3> DEFINE v == [kept EXCEPT ![c] = more]
    <3>1. /\ Table(v, Clients) /\ v[c] = more
          /\ \A d \in Clients \ {c} : v[d] = kept[d]
      BY <2>11
    <3> HIDE DEF v
    <3>2. Append(letIn[p][c], clock) \in Seq(Nat)
      BY <1>t, <1>w, AppendProperties
    <3>3. /\ letIn' \in [Processes -> [Clients -> Seq(Nat)]]
          /\ letIn'[p][c] = Append(letIn[p][c], clock)
          /\ \A d \in Clients \ {c} : letIn'[p][d] = letIn[p][d]
          /\ \A q \in Processes \ {p} : letIn'[q] = letIn[q]
      BY <1>t, <2>13, <3>2
    <3>4. \A d \in Clients : BucketInv(v[d], letIn'[p][d], k, ClientLimit, clock)
      BY <2>4, <2>10, <2>13, <3>1, <3>3
    <3>5. memHits' = [memHits EXCEPT ![p] = v]
      BY <2>13 DEF v
    <3> QED BY <1>1, <2>6, <3>1, <3>3, <3>4, <3>5
  <2> QED BY <2>5, <2>12, <2>13
<1>3. ASSUME NEW p \in Processes, Dies(p)
      PROVE  ClientRates'
  <2> DEFINE v == [c \in Clients |-> NoHits]
  <2>1. /\ memHits' = [memHits EXCEPT ![p] = v] /\ clock' = clock
        /\ letIn' = [letIn EXCEPT ![p] = [c \in Clients |-> <<>>]]
    BY <1>3 DEF Dies
  <2>2. Table(v, Clients)
    BY DEF Table
  <2>3. /\ letIn' \in [Processes -> [Clients -> Seq(Nat)]]
        /\ \A q \in Processes \ {p} : letIn'[q] = letIn[q]
        /\ \A c \in Clients : letIn'[p][c] = <<>> /\ v[c] = NoHits
    BY <1>t, <2>1, EmptySeq
  <2>4. \A c \in Clients : BucketInv(v[c], letIn'[p][c], k, ClientLimit, clock)
    BY <1>w, <2>3, BucketEmpty
  <2> HIDE DEF v
  <2> QED BY <1>1, <2>1, <2>2, <2>3, <2>4
<1>4. CASE TimePasses
  <2>1. memHits' = memHits /\ letIn' = letIn /\ clock' = clock + 1
    BY <1>4 DEF TimePasses
  <2>2. clock + 1 \in Nat /\ clock <= clock + 1
    BY <1>w
  <2>3. ASSUME NEW p \in Processes, NEW c \in Clients
        PROVE  BucketInv(memHits[p][c], letIn[p][c], k, ClientLimit, clock + 1)
    BY <1>b, <1>w, <2>2, BucketWaits
  <2> QED BY <1>t, <2>1, <2>3 DEF ClientRates, ClientRate, k
<1>5. ASSUME UNCHANGED <<memHits, letIn, clock>>
      PROVE  ClientRates'
  BY <1>5 DEF ClientRates, ClientRate
<1>6. ASSUME NEW h \in Serving
      PROVE  /\ LimitChunks(h) \/ LimiterRaises(h) \/ ReleaseSlot(h)
                    => UNCHANGED <<memHits, letIn, clock>>
             /\ \A c \in Clients : AcquireSlot(h, c) \/ Asks(h, c)
                    => UNCHANGED <<memHits, letIn, clock>>
  BY DEF LimitChunks, LimiterRaises, ReleaseSlot, AcquireSlot, Asks
<1>7. PruneHits \/ UNCHANGED throttleVars => UNCHANGED <<memHits, letIn, clock>>
  BY DEF PruneHits, throttleVars
<1> QED BY <1>2, <1>3, <1>4, <1>5, <1>6, <1>7 DEF ThrottleStep

LEMMA RatesBegin == ThrottleInit => ChunkRate /\ ClientRates
PROOF
<1> SUFFICES ASSUME ThrottleInit PROVE ChunkRate /\ ClientRates
  OBVIOUS
<1>1. /\ dbHits = NoHits /\ chunksIn = <<>> /\ clock = 0
      /\ memHits = NoClients(NoHits) /\ letIn = NoClients(<<>>)
  BY DEF ThrottleInit
<1>2. ChunkRate
  BY <1>1, BucketEmpty, Widths DEF ChunkRate
<1>3. /\ Table(memHits, Processes) /\ \A p \in Processes : Table(memHits[p], Clients)
      /\ letIn \in [Processes -> [Clients -> Seq(Nat)]]
  BY <1>1, EmptySeq DEF NoClients, Table
<1>4. ASSUME NEW p \in Processes, NEW c \in Clients
      PROVE  ClientRate(p, c)
  <2>1. memHits[p][c] = NoHits /\ letIn[p][c] = <<>>
    BY <1>1 DEF NoClients
  <2> QED BY <1>1, <2>1, BucketEmpty, Widths DEF ClientRate
<1> QED BY <1>2, <1>3, <1>4 DEF ClientRates

\* security.py:24-101: although a request reads the time before it waits for its
\* turn, the cleaner prunes meanwhile, and a bucket is swept by its last hit and
\* not by its newest, no more are let in than the limits say.  The cleaner prunes
\* the chunks of an upload by RATE_WINDOW, which must not be the shorter one.
THEOREM LimitsHold ==
    ASSUME ChunkWindow <= RateWindow
    PROVE  ThrottleSpec => []RatesHold
PROOF
<1>1. ServingInv /\ ChunkRate /\ ClientRates => RatesHold
  <2> SUFFICES ASSUME ServingInv, ChunkRate, ClientRates, NEW from \in 0 .. clock
               PROVE  /\ Times(chunksIn, from, from + (ChunkWindow - Lag)) <= ChunkLimit
                      /\ \A p \in Processes, c \in Clients :
                            Times(letIn[p][c], from + 1, from + (RateWindow - Lag))
                                <= ClientLimit
    BY DEF RatesHold
  <2>1. from \in Nat /\ from + 1 \in Nat
    BY DEF ServingInv
  <2>2. (from + 1) + (RateWindow - Lag - 1) = from + (RateWindow - Lag)
    BY <2>1, Widths
  <2>3. ASSUME NEW p \in Processes, NEW c \in Clients
        PROVE  Times(letIn[p][c], from + 1, from + (RateWindow - Lag)) <= ClientLimit
    <3>1. Times(letIn[p][c], from + 1, (from + 1) + (RateWindow - Lag - 1)) <= ClientLimit
      BY <2>1 DEF ClientRates, ClientRate, BucketInv, KeepsTo
    <3> QED BY <2>2, <3>1
  <2> QED BY <2>1, <2>3 DEF ChunkRate, BucketInv, KeepsTo
<1>2. ThrottleInit => ServingInv /\ ChunkRate /\ ClientRates
  BY ThrottleBegins, RatesBegin
<1>3. ServingInv /\ ChunkRate /\ ClientRates /\ [ThrottleStep]_throttleVars
          => (ServingInv /\ ChunkRate /\ ClientRates)'
  BY ServingSteps, ChunkRateStep, ClientRatesStep
<1> QED BY <1>1, <1>2, <1>3, PTL DEF ThrottleSpec
=============================================================================
