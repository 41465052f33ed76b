------------------------ MODULE UploadRefinementProofs ------------------------
(***************************************************************************)
(* The upload path implements UploadContract, for every number of          *)
(* handlers, sessions and ids, as long as nothing is interrupted between   *)
(* an effect on the disk and its COMMIT and no finish is late.  What was   *)
(* published or lost then stays so; and the late finish is all that can    *)
(* part a published file from its blob.                                    *)
(***************************************************************************)
EXTENDS UploadRefinement, UploadDiskProofs

Good ==
    /\ TypeInv /\ SessionInv /\ FileInv /\ DataInv
    /\ ReapInv /\ PromptInv /\ ~Late

-----------------------------------------------------------------------------
(* What a session looks like through the mapping.                          *)

Alive(u) == InPartial(u) \/ Renamed(u) # {}
Unborn(u) == u \notin issued \/ Doing(u, {"init_insert"}) # {}

\* The three values of the mapping, in terms of what a sender was acknowledged.
SeenUnspoiled(u) ==
    /\ Status(u) = IF Serving(u) # {} THEN "published" ELSE IF Alive(u) THEN "open"
                   ELSE IF Unborn(u) THEN "new" ELSE "gone"
    /\ Content(u) = IF Serving(u) # {} \/ Alive(u) THEN acked[u] ELSE <<>>
    /\ NextChunk(u) = IF Serving(u) # {} \/ ~Alive(u) THEN 0
                      ELSE IF Len(acked[u]) = Expected THEN LastChunk + 1
                      ELSE pending_uploads[u].next

SeenSpoiled(u) == Status(u) = "spoiled" /\ Content(u) = <<>> /\ NextChunk(u) = 0

Seen(u) == IF late[u] > 0 THEN SeenSpoiled(u) ELSE SeenUnspoiled(u)

\* Where the bytes of a session are decides who may know of it.
Apart(u) ==
    /\ late[u] = 0 /\ Serving(u) # {} => ~Alive(u) /\ ~Unborn(u)
    /\ HasRow(u) => Serving(u) = {}
    /\ Alive(u) \/ HasRow(u) => ~Unborn(u)
    /\ late[u] = 0 /\ InPartial(u) => Renamed(u) = {}
    /\ Finishing(u) \/ Renamed(u) # {} \/ late[u] > 0 => Len(acked[u]) = Expected
    /\ late[u] \in Nat

LEMMA SessionsApart ==
    ASSUME TypeInv, SessionInv, NEW u \in Uploads
    PROVE  Apart(u)
PROOF
<1>p. LockInv /\ ChunkInv /\ CountInv /\ FreshInv /\ CompleteInv /\ IdInv
  BY DEF SessionInv
<1>n. \A g \in Handlers : req[g].pc # "idle" => req[g].u \in Uploads
  BY DEF TypeInv, ReqsOK, ReqOK
<1>i. \A g \in Handlers : Busy(g, {"insert"}) => req[g].id \in FileIds
  BY DEF TypeInv, ReqsOK, ReqOK, Busy
<1> USE DEF Serving, Alive, Unborn, InPartial, Renamed, Finishing, Doing, HasRow, Busy
<1>1. ASSUME late[u] = 0, Serving(u) # {}
      PROVE  ~Alive(u) /\ ~Unborn(u)
  <2>1. PICK id \in Published : files[id].upload = u
    BY <1>1
  <2>2. id \in Copies(u)
    BY <2>1 DEF Copies, Published
  <2>3. partial[u] = None
    BY <1>1, <2>2, SingleCopy
  <2>4. ASSUME NEW h \in Handlers, Busy(h, {"insert"}), req[h].u = u
        PROVE  FALSE
    <3>1. req[h].id \in Copies(u)
      BY <1>i, <2>4 DEF Copies
    <3>2. req[h].id \notin Published
      BY <1>p, <2>4 DEF IdInv
    <3> QED BY <1>1, <2>1, <2>2, <3>1, <3>2, SingleCopy
  <2>5. u \in issued /\ \A h \in Handlers : Busy(h, {"init_insert"}) => req[h].u # u
    BY <1>p, <2>1 DEF FreshInv
  <2> QED BY <2>3, <2>4, <2>5
<1>0. ASSUME HasRow(u)
      PROVE  Serving(u) = {} /\ ~Unborn(u)
  <2>1. u \in Rows
    BY <1>0 DEF Rows
  <2> QED BY <1>p, <2>1 DEF CompleteInv, FreshInv
<1>2. ASSUME Alive(u), Unborn(u)
      PROVE  FALSE
  <2>1. CASE u \notin issued
    BY <1>p, <1>2, <2>1 DEF FreshInv
  <2>2. ASSUME NEW h \in Handlers, req[h].pc = "init_insert", req[h].u = u
        PROVE  FALSE
    <3>1. u \notin Rows /\ \A g \in Handlers \ {h} : req[g].u # u
      BY <1>p, <2>2 DEF FreshInv
    <3> QED BY <1>2, <2>2, <3>1 DEF Rows
  <2> QED BY <1>2, <2>1, <2>2
<1>3. ASSUME late[u] = 0, InPartial(u), NEW h \in Handlers, Busy(h, {"insert"}),
             req[h].u = u
      PROVE  FALSE
  <2>1. req[h].id \in Copies(u)
    BY <1>i, <1>3 DEF Copies
  <2> QED BY <1>3, <2>1, SingleCopy
<1>4. ASSUME Finishing(u) \/ Renamed(u) # {} \/ late[u] > 0
      PROVE  Len(acked[u]) = Expected
  BY <1>p, <1>4 DEF CompleteInv, CountInv
<1>5. late[u] \in Nat
  BY DEF TypeInv, TypeOK
<1> QED BY <1>0, <1>1, <1>2, <1>3, <1>4, <1>5 DEF Apart

\* A prefix of a file is what was acknowledged when the rest was written later.
LEMMA PrefixKept ==
    ASSUME NEW S, NEW s \in Seq(S), NEW t \in Seq(S)
    PROVE  SubSeq(s \o t, 1, Len(s)) = s
PROOF
<1>1. Len(s) \in Nat
  BY LenProperties
<1>2. CASE Len(s) = 0
  <2>1. s = <<>>
    BY <1>2, EmptySeq
  <2> QED BY <1>2, <2>1, SubSeqEmpty
<1>3. CASE Len(s) # 0
  <2>1. 1 \in 1 .. Len(s) /\ Len(s) \in 1 .. Len(s)
    BY <1>1, <1>3
  <2> QED BY <2>1, SubSeqOfConcat1, SubSeqFull
<1> QED BY <1>2, <1>3

LEMMA ContentIsAcked ==
    ASSUME Good, NEW u \in Uploads, late[u] = 0, InPartial(u)
    PROVE  Content(u) = acked[u]
PROOF
<1>p. /\ CountInv /\ ChunkInv /\ PartInv /\ TypeOK /\ Apart(u)
  BY SessionsApart DEF Good, SessionInv, DataInv, TypeInv
<1> DEFINE S == Piece \cup {Zero}
<1>1. acked[u] \in Seq(S) /\ partial[u] # None
  <2>1. acked[u] \in Seq(Piece)
    BY <1>p DEF TypeOK
  <2>2. Seq(Piece) \subseteq Seq(S)
    BY SeqDef
  <2> QED BY <2>1, <2>2 DEF InPartial
<1>2. Content(u) = SubSeq(partial[u].data, 1, Len(acked[u]))
  <2>1. CASE HasRow(u)
    BY <1>p, <2>1 DEF CountInv, Rows, HasRow, Content
  <2>2. CASE ~HasRow(u)
    <3>1. Len(acked[u]) = Expected
      BY <1>p, <2>2 DEF Apart, InPartial
    <3> QED BY <2>2, <3>1 DEF Content
  <2> QED BY <2>1, <2>2
<1>3. CASE \E h \in Handlers : Writes(h) /\ req[h].u = u
  <2>1. PICK h \in Handlers : Writes(h) /\ req[h].u = u
    BY <1>3
  <2>2. partial[u].data = acked[u] \o SubSeq(req[h].data, 1, req[h].written)
    BY <1>p, <2>1 DEF PartInv
  <2>3. /\ req[h].data \in Seq(Piece) /\ req[h].written \in Nat
        /\ req[h].written <= Len(req[h].data)
    BY <2>1 DEF Good, TypeInv, ReqsOK, ReqOK, RequestType, Writes, Busy
  <2>4. SubSeq(req[h].data, 1, req[h].written) \in Seq(S)
    <3>1. \A i \in 1 .. req[h].written : req[h].data[i] \in S
      BY <2>3, ElementOfSeq, LenProperties
    <3> QED BY <2>3, <3>1, SubSeqProperties
  <2> QED BY <1>1, <1>2, <2>2, <2>4, PrefixKept
<1>4. CASE \A h \in Handlers : Writes(h) => req[h].u # u
  <2>1. partial[u].data = acked[u]
    BY <1>p, <1>1, <1>4 DEF PartInv, Whole
  <2> QED BY <1>1, <1>2, <2>1, SubSeqFull
<1> QED BY <1>3, <1>4

\* The blob of a session that has been renamed or published holds its bytes.
LEMMA BlobIsAcked ==
    ASSUME Good, NEW u \in Uploads, late[u] = 0, NEW id \in Renamed(u) \cup Serving(u)
    PROVE  blob[id].data = acked[u]
PROOF
<1>p. BlobInv /\ AgeInv /\ PromptInv /\ SweepSparesPrompt
  BY DEF Good, SessionInv, DataInv, AgeInv
<1>1. CASE id \in Renamed(u)
  <2>1. PICK h \in Handlers : Busy(h, {"insert"}) /\ req[h].u = u /\ req[h].id = id
    BY <1>1 DEF Renamed, Doing, Busy
  <2>2. blob[id] # None
    BY <1>p, <2>1 DEF Good, Late, AgeInv, At, Busy
  <2> QED BY <1>p, <2>1, <2>2 DEF BlobInv, Whole
<1>2. CASE id \in Serving(u)
  <2>1. id \in Published /\ files[id].upload = u
    BY <1>2 DEF Serving
  <2>2. blob[id] # None
    BY <1>p, <2>1 DEF PromptInv, SweepSparesPrompt
  <2> QED BY <1>p, <2>1, <2>2 DEF BlobInv, Whole
<1> QED BY <1>1, <1>2

LEMMA SessionsSeen == Good => \A u \in Uploads : Apart(u) /\ Seen(u)
PROOF
<1> SUFFICES ASSUME Good, NEW u \in Uploads
             PROVE  Apart(u) /\ Seen(u)
  OBVIOUS
<1>1. Apart(u)
  BY SessionsApart DEF Good
<1>2. CASE late[u] > 0
  BY <1>1, <1>2 DEF Seen, SeenSpoiled, Status, Content, NextChunk
<1>3. CASE late[u] = 0
  <2>1. Status(u) = IF Serving(u) # {} THEN "published" ELSE IF Alive(u) THEN "open"
                    ELSE IF Unborn(u) THEN "new" ELSE "gone"
    BY <1>3 DEF Status, Alive, Unborn
  <2>2. Content(u) = IF Serving(u) # {} \/ Alive(u) THEN acked[u] ELSE <<>>
    <3> DEFINE ids == Renamed(u) \cup Serving(u)
    <3>1. CASE InPartial(u)
      BY <1>1, <1>3, <3>1, ContentIsAcked DEF Alive
    <3>2. CASE ~InPartial(u) /\ ids = {}
      BY <1>3, <3>2 DEF Content, Alive
    <3>3. CASE ~InPartial(u) /\ ids # {}
      <4>1. (CHOOSE id \in ids : TRUE) \in ids
        BY <3>3
      <4>2. blob[CHOOSE id \in ids : TRUE].data = acked[u]
        BY <1>3, <4>1, BlobIsAcked
      <4>3. Content(u) = blob[CHOOSE id \in ids : TRUE].data
        BY <1>3, <3>3 DEF Content
      <4> QED BY <3>3, <4>2, <4>3 DEF Alive
    <3> QED BY <3>1, <3>2, <3>3
  <2>3. NextChunk(u) = IF Serving(u) # {} \/ ~Alive(u) THEN 0
                       ELSE IF Len(acked[u]) = Expected THEN LastChunk + 1
                       ELSE pending_uploads[u].next
    <3>1. HasRow(u) => (Complete(pending_uploads[u]) <=> Len(acked[u]) = Expected)
      BY DEF Good, SessionInv, CountInv, HasRow, Rows, Complete
    <3>2. ~HasRow(u) /\ Alive(u) => Len(acked[u]) = Expected
      BY <1>1 DEF Apart, Alive, InPartial
    <3> QED BY <2>1, <3>1, <3>2 DEF NextChunk
  <2>4. ~(late[u] > 0)
    BY <1>3
  <2>5. SeenUnspoiled(u)
    BY <2>1, <2>2, <2>3 DEF SeenUnspoiled
  <2> QED BY <1>1, <2>4, <2>5 DEF Seen
<1>4. late[u] > 0 \/ late[u] = 0
  BY <1>1 DEF Apart
<1> QED BY <1>2, <1>3, <1>4

-----------------------------------------------------------------------------
(* What a step does to a session through the mapping.                      *)

\* A step that a sender does not notice: nothing it could be told changes.
Same(v) ==
    /\ (Serving(v) = {})' <=> Serving(v) = {}
    /\ Alive(v)' <=> Alive(v)
    /\ Unborn(v)' <=> Unborn(v)
    /\ acked'[v] = acked[v] /\ late'[v] = late[v]
    /\ Alive(v) /\ Len(acked[v]) # Expected =>
           pending_uploads'[v].next = pending_uploads[v].next

\* A step that may take the session away, but does not change it.
Fading(v) ==
    /\ (Serving(v) = {})' <=> Serving(v) = {}
    /\ Alive(v)' => Alive(v)
    /\ Unborn(v)' => Unborn(v)
    /\ acked'[v] = acked[v] /\ late'[v] = late[v]
    /\ Alive(v)' /\ Len(acked[v]) # Expected =>
           pending_uploads'[v].next = pending_uploads[v].next

LooksSame(v) ==
    Status(v)' = Status(v) /\ Content(v)' = Content(v) /\ NextChunk(v)' = NextChunk(v)

LooksDropped(v) ==
    /\ Status(v) \in {"new", "open"} /\ Status(v)' = "gone"
    /\ Content(v)' = <<>> /\ NextChunk(v)' = 0

AllSeen == \A u \in Uploads : Apart(u) /\ Seen(u)

LEMMA SameLooksSame ==
    ASSUME AllSeen, AllSeen', NEW v \in Uploads, Same(v)
    PROVE  LooksSame(v)
PROOF
<1>1. Seen(v) /\ Seen(v)'
  BY DEF AllSeen
<1> QED BY <1>1 DEF Seen, SeenSpoiled, SeenUnspoiled, Same, LooksSame

LEMMA FadingLooksDropped ==
    ASSUME AllSeen, AllSeen', NEW v \in Uploads, Fading(v)
    PROVE  LooksSame(v) \/ LooksDropped(v)
PROOF
<1>1. Seen(v) /\ Seen(v)' /\ Apart(v) /\ Apart(v)'
  BY DEF AllSeen
<1>2. CASE late[v] > 0 \/ (Alive(v)' <=> Alive(v))
  BY <1>1, <1>2 DEF Seen, SeenSpoiled, SeenUnspoiled, Apart, Fading, LooksSame,
     LooksDropped
<1>3. CASE ~(late[v] > 0) /\ Alive(v) /\ ~Alive(v)'
  BY <1>1, <1>3 DEF Seen, SeenUnspoiled, Apart, Fading, LooksSame, LooksDropped
<1> QED BY <1>2, <1>3 DEF Fading

\* Only the session w, and requests and rows that no sender can tell apart.
Acting == {"init_insert", "exists", "allocate", "replace", "insert"}

Concerns(w) ==
    /\ \A g \in Handlers :
           \/ req'[g].pc = req[g].pc /\ req'[g].u = req[g].u
           \/ /\ req[g].u = w \/ req[g].pc \notin Acting
              /\ req'[g].u = w \/ req'[g].pc \notin Acting
    /\ \A v \in Uploads \ {w} :
           /\ partial'[v] = None <=> partial[v] = None
           /\ \/ pending_uploads'[v] = pending_uploads[v]
              \/ partial[v] = None /\ pending_uploads'[v] = None
           /\ acked'[v] = acked[v] /\ late'[v] = late[v]
           /\ v \in issued' <=> v \in issued
    /\ \A id \in FileIds :
           \/ files'[id] = files[id]
           \/ files[id] = None /\ files'[id] # None /\ files'[id].upload = w

LEMMA OthersSame ==
    ASSUME AllSeen, NEW w, Concerns(w), NEW v \in Uploads \ {w}
    PROVE  Same(v)
PROOF
<1>1. Apart(v)
  BY DEF AllSeen
<1>2. ASSUME NEW pcs, pcs \subseteq Acting
      PROVE  Doing(v, pcs)' = Doing(v, pcs)
  BY <1>2 DEF Concerns, Doing
<1>3. /\ {"init_insert"} \subseteq Acting /\ {"insert"} \subseteq Acting
      /\ {"exists", "allocate", "replace"} \subseteq Acting
  BY DEF Acting
<1>4. (Serving(v) = {})' <=> Serving(v) = {}
  BY DEF Concerns, Serving, Published
<1>5. Unborn(v)' <=> Unborn(v)
  BY <1>2, <1>3 DEF Concerns, Unborn
<1>6. (Renamed(v) = {})' <=> Renamed(v) = {}
  BY <1>2, <1>3 DEF Renamed
<1>7. Finishing(v)' <=> Finishing(v)
  BY <1>2, <1>3 DEF Finishing
<1>8. InPartial(v)' <=> InPartial(v)
  BY <1>7 DEF Concerns, InPartial, HasRow
<1>9. Alive(v)' <=> Alive(v)
  BY <1>6, <1>8 DEF Alive
<1>10. Alive(v) /\ Len(acked[v]) # Expected =>
           pending_uploads'[v].next = pending_uploads[v].next
  BY <1>1 DEF Concerns, Apart, Alive, InPartial
<1> QED BY <1>4, <1>5, <1>9, <1>10 DEF Concerns, Same

LEMMA Unnoticed ==
    ASSUME AllSeen, AllSeen', Concerns(None)
    PROVE  UNCHANGED Contract!vars
PROOF
<1>1. \A v \in Uploads : LooksSame(v)
  BY NamesAreDistinct, OthersSame, SameLooksSame
<1> QED BY <1>1 DEF LooksSame, Contract!vars

LEMMA Dropped ==
    ASSUME AllSeen, AllSeen', NEW w \in Uploads, Concerns(w), Fading(w)
    PROVE  UNCHANGED Contract!vars \/ Contract!Next
PROOF
<1>1. \A v \in Uploads \ {w} : LooksSame(v)
  BY OthersSame, SameLooksSame
<1>2. CASE LooksSame(w)
  <2>1. \A v \in Uploads : LooksSame(v)
    BY <1>1, <1>2
  <2> QED BY <2>1 DEF LooksSame, Contract!vars
<1>3. CASE LooksDropped(w)
  <2>1. Contract!Drop(w)
    BY <1>1, <1>3 DEF LooksSame, LooksDropped, Contract!Drop
  <2> QED BY <2>1 DEF Contract!Next
<1> QED BY <1>2, <1>3, FadingLooksDropped

\* A request or the cleaner gives up on w: its file goes, its row, or neither.
LEMMA Withdraws ==
    ASSUME AllSeen, AllSeen', NEW w \in Uploads,
           \A g \in Handlers :
               req'[g] = req[g] \/ (req[g].u = w /\ req'[g].pc \notin Acting),
           \A v \in Uploads :
               /\ partial'[v] = partial[v] \/ (v = w /\ partial'[v] = None)
               /\ \/ pending_uploads'[v] = pending_uploads[v]
                  \/ v = w /\ pending_uploads'[v] = None,
           UNCHANGED <<files, acked, late, issued>>
    PROVE  UNCHANGED Contract!vars \/ Contract!Next
PROOF
<1>1. Apart(w)
  BY DEF AllSeen
<1>2. Concerns(w)
  BY DEF Concerns
<1>3. ASSUME NEW pcs, pcs \subseteq Acting
      PROVE  Doing(w, pcs)' \subseteq Doing(w, pcs)
  BY <1>3 DEF Doing
<1>4. /\ {"init_insert"} \subseteq Acting /\ {"insert"} \subseteq Acting
      /\ {"exists", "allocate", "replace"} \subseteq Acting
  BY DEF Acting
<1>5. (Serving(w) = {})' <=> Serving(w) = {}
  BY DEF Serving, Published
<1>6. Unborn(w)' => Unborn(w)
  BY <1>3, <1>4 DEF Unborn
<1>7. (Renamed(w) # {})' => Renamed(w) # {}
  <2>1. Doing(w, {"insert"})' \subseteq Doing(w, {"insert"})
    BY <1>3, <1>4
  <2> QED BY <2>1 DEF Renamed
<1>8. Finishing(w)' => Finishing(w)
  <2>1. Doing(w, {"exists", "allocate", "replace"})'
            \subseteq Doing(w, {"exists", "allocate", "replace"})
    BY <1>3, <1>4
  <2> QED BY <2>1 DEF Finishing
<1>9. InPartial(w)' => InPartial(w)
  BY <1>8 DEF InPartial, HasRow
<1>10. Alive(w)' => Alive(w)
  BY <1>7, <1>9 DEF Alive
<1>11. Alive(w)' /\ Len(acked[w]) # Expected =>
           pending_uploads'[w].next = pending_uploads[w].next
  BY <1>1, <1>7, <1>8 DEF Apart, Alive, InPartial, HasRow
<1>12. Fading(w)
  BY <1>5, <1>6, <1>10, <1>11 DEF Fading
<1> QED BY <1>2, <1>12, Dropped

LEMMA InitRefines ==
    ASSUME Good, AllSeen, AllSeen', NEW h \in Handlers, NEW u \in Uploads,
           InitStart(h, u)
    PROVE  UNCHANGED Contract!vars \/ Contract!Next
PROOF
<1>1. /\ Others(h) /\ req[h].pc = "idle" /\ req'[h].pc = "init_insert" /\ req'[h].u = u
      /\ \A v \in Uploads \ {u} :
             partial'[v] = partial[v] /\ (v \in issued' <=> v \in issued)
      /\ UNCHANGED <<pending_uploads, files, acked, late>> /\ u \notin issued
  BY DEF InitStart, Arrives, At, Idle, Others, tables, Good, TypeInv, TypeOK, ReqsOK
<1>2. u \notin Rows /\ \A g \in Handlers : req[g].u # u
  BY <1>1 DEF Good, SessionInv, FreshInv
<1>3. Concerns(u)
  BY <1>1 DEF Concerns, Others, Acting
<1>4. ~Alive(u)'
  BY <1>1, <1>2
     DEF Alive, InPartial, HasRow, Rows, Renamed, Finishing, Doing, Others
<1>5. Fading(u)
  BY <1>1, <1>4 DEF Fading, Unborn, Serving, Published
<1> QED BY <1>3, <1>5, Dropped

LEMMA OpenRefines ==
    ASSUME Good, AllSeen, AllSeen', NEW h \in Handlers, InitInsert(h)
    PROVE  UNCHANGED Contract!vars \/ Contract!Next
PROOF
<1>1. PICK w \in Uploads : w = req[h].u
  BY DEF InitInsert, At, Good, TypeInv, ReqsOK, ReqOK
<1>2. /\ Leaves(h) /\ req[h].pc = "init_insert"
      /\ UNCHANGED <<partial, files, acked, late, issued>>
      /\ \A v \in Uploads \ {w} : pending_uploads'[v] = pending_uploads[v]
      /\ pending_uploads'[w] # None /\ pending_uploads'[w].next = 0
  BY <1>1, RespondLeaves, NamesAreDistinct
     DEF InitInsert, At, Good, TypeInv, TypeOK, Row, disk
<1>3. Concerns(w)
  BY <1>1, <1>2 DEF Concerns, Leaves, Others, Acting
<1>4. \A v \in Uploads \ {w} : LooksSame(v)
  BY <1>3, OthersSame, SameLooksSame
<1>5. Unborn(w) /\ ~Alive(w) /\ Serving(w) = {} /\ late[w] = 0
  <2>1. Unborn(w)
    BY <1>1, <1>2 DEF Unborn, Doing
  <2>2. late[w] = 0
    BY <1>1, <1>2 DEF Good, SessionInv, FreshInv, Busy
  <2> QED BY <2>1, <2>2 DEF AllSeen, Apart
<1>6. Alive(w)' /\ (Serving(w) = {})'
  <2>1. partial[w] # None
    BY <1>1, <1>2 DEF Good, FileInv, PartAgeInv, Busy
  <2>2. Alive(w)'
    BY <1>2, <2>1 DEF Alive, InPartial, HasRow
  <2> QED BY <1>2, <2>2 DEF AllSeen, Apart, HasRow
<1>7. acked[w] = <<>> /\ Len(acked[w]) # Expected
  <2>1. acked[w] = <<>>
    BY <1>1, <1>2 DEF Good, SessionInv, FreshInv, Busy
  <2>2. Expected # 0
    BY BodiesAreArbitrary
  <2> QED BY <2>1, <2>2, EmptySeq
<1>8. /\ Status(w) = "new" /\ Status(w)' = "open" /\ Content(w) = <<>>
      /\ Content(w)' = <<>> /\ NextChunk(w) = 0 /\ NextChunk(w)' = 0
  <2>1. Seen(w) /\ Seen(w)'
    BY DEF AllSeen
  <2> QED BY <1>2, <1>5, <1>6, <1>7, <2>1 DEF Seen, SeenUnspoiled
<1>9. Contract!Open(w)
  BY <1>4, <1>8 DEF LooksSame, Contract!Open
<1> QED BY <1>9 DEF Contract!Next

LEMMA CommitRefines ==
    ASSUME Good, Good', AllSeen, AllSeen', NEW h \in Handlers, ChunkCommit(h)
    PROVE  UNCHANGED Contract!vars \/ Contract!Next
PROOF
<1> DEFINE r == req[h]
<1>1. PICK w \in Uploads : w = r.u
  BY DEF ChunkCommit, Good, TypeInv, ReqsOK, ReqOK
<1>2. /\ req[h].pc = "append" /\ r.written = Len(r.data) /\ r.idx \in 0 .. LastChunk
      /\ r.base + r.written <= Expected /\ r.data \in Seq(Piece)
      /\ r.base \in Nat /\ r.written \in Nat
  BY DEF ChunkCommit, Good, TypeInv, ReqsOK, ReqOK, RequestType
<1>3. /\ pending_uploads[w] # None /\ pending_uploads[w].next = r.idx
      /\ r.data \in Payloads[r.idx] /\ r.base = Len(acked[w])
  <2>1. w \in Rows /\ pending_uploads[w].next = r.idx /\ pending_uploads[w].bytes = r.base
        /\ r.data \in Payloads[r.idx]
    BY <1>1, <1>2 DEF Good, SessionInv, ChunkInv, Busy
  <2>2. r.base = Len(acked[w])
    BY <2>1 DEF Good, SessionInv, CountInv
  <2> QED BY <2>1, <2>2 DEF Rows
<1>4. /\ Leaves(h) /\ UNCHANGED <<partial, files, late, issued>>
      /\ \A v \in Uploads \ {w} : pending_uploads'[v] = pending_uploads[v]
                                   /\ acked'[v] = acked[v]
      /\ acked'[w] = acked[w] \o r.data
      /\ pending_uploads'[w].next = r.idx + 1
  BY <1>1, <1>3, RespondLeaves
     DEF ChunkCommit, Progress, Good, TypeInv, TypeOK, disk
<1>5. pending_uploads'[w] # None
  <2>1. pending_uploads'[w] = [next |-> r.idx + 1, bytes |-> r.base + r.written,
                               created |-> pending_uploads[w].created]
    BY <1>1, <1>3 DEF ChunkCommit, Progress, Good, TypeInv, TypeOK
  <2>2. pending_uploads[w].created \in Nat
    BY <1>3 DEF Good, TypeInv, TypeOK, Row
  <2>3. r.idx + 1 \in Nat /\ r.base + r.written \in Nat
    BY <1>2, BodiesAreArbitrary
  <2>4. pending_uploads'[w] \in Row
    BY <2>1, <2>2, <2>3 DEF Row
  <2> QED BY <2>4, NamesAreDistinct
<1>6. Concerns(w)
  BY <1>1, <1>2, <1>4 DEF Concerns, Leaves, Others, Acting
<1>7. \A v \in Uploads \ {w} : LooksSame(v)
  BY <1>6, OthersSame, SameLooksSame
<1>8. Expected \in Nat /\ Expected > 0
  BY BodiesAreArbitrary
\* All bytes were there: nothing was added to them.
<1>9. CASE Len(acked[w]) = Expected
  <2>1. r.data = <<>>
    BY <1>2, <1>3, <1>8, <1>9, EmptySeq, LenProperties
  <2>2. acked'[w] = acked[w]
    BY <1>4, <2>1, ConcatEmptySeq DEF Good, TypeInv, TypeOK
  <2>3. /\ (Serving(w) = {})' <=> Serving(w) = {}
        /\ Unborn(w)' => Unborn(w)
        /\ Alive(w)' => Alive(w)
    <3>1. ASSUME NEW pcs, pcs \subseteq Acting
          PROVE  Doing(w, pcs)' = Doing(w, pcs)
      BY <1>2, <1>4, <3>1 DEF Leaves, Others, Doing, Acting
    <3>2. /\ {"init_insert"} \subseteq Acting /\ {"insert"} \subseteq Acting
          /\ {"exists", "allocate", "replace"} \subseteq Acting
      BY DEF Acting
    <3>3. (Serving(w) = {})' <=> Serving(w) = {}
      BY <1>4 DEF Serving, Published
    <3>4. Unborn(w)' => Unborn(w)
      BY <1>4, <3>1, <3>2 DEF Unborn
    <3>5. (Renamed(w) = {})' <=> Renamed(w) = {}
      BY <3>1, <3>2 DEF Renamed
    <3>6. InPartial(w)' => InPartial(w)
      BY <1>3, <1>4 DEF InPartial, HasRow
    <3> QED BY <3>3, <3>4, <3>5, <3>6 DEF Alive
  <2>4. Fading(w)
    BY <1>4, <1>9, <2>2, <2>3 DEF Fading
  <2> QED BY <1>6, <2>4, Dropped
<1>10. CASE Len(acked[w]) # Expected
  <2>1. late[w] = 0
    BY <1>10 DEF AllSeen, Apart
  <2>2. partial[w] # None
    <3>1. req[h].base # Expected /\ req[h].base \in Nat /\ req[h].written \in Nat
          /\ req[h].base + req[h].written <= Expected
      BY <1>2, <1>3, <1>10
    <3>2. req[h].base < Expected
      BY <1>8, <3>1
    <3>3. Writes(h)
      BY <1>2, <3>2 DEF Writes, Busy
    <3> QED BY <1>1, <3>3 DEF Good, FileInv, HeldInv
  <2>3. Alive(w) /\ Serving(w) = {} /\ Alive(w)' /\ (Serving(w) = {})'
    <3>1. Alive(w) /\ Alive(w)'
      BY <1>3, <1>4, <1>5, <2>2 DEF Alive, InPartial, HasRow
    <3> QED BY <1>3, <1>5, <3>1 DEF AllSeen, Apart, HasRow
  <2>4. SeenUnspoiled(w) /\ SeenUnspoiled(w)'
    BY <1>4, <2>1 DEF AllSeen, Seen
  <2>5. /\ Status(w) = "open" /\ Status(w)' = "open" /\ Content(w) = acked[w]
        /\ Content(w)' = Content(w) \o r.data /\ NextChunk(w) = r.idx
    BY <1>3, <1>4, <1>10, <2>3, <2>4 DEF SeenUnspoiled
  <2>6. Len(acked[w] \o r.data) = Len(acked[w]) + Len(r.data)
    <3>1. acked[w] \in Seq(Piece)
      BY DEF Good, TypeInv, TypeOK
    <3> QED BY <1>2, <3>1, ConcatProperties
  <2>7. NextChunk(w)' = IF Len(Content(w)) + Len(r.data) = Expected THEN LastChunk + 1
                        ELSE NextChunk(w) + 1
    BY <1>4, <2>3, <2>4, <2>5, <2>6 DEF SeenUnspoiled
  <2>8. Len(Content(w)) + Len(r.data) <= Expected
    BY <1>2, <1>3, <2>5
  <2>9. Contract!Take(w, r.data)
    <3>1. r.idx <= LastChunk
      BY <1>2, BodiesAreArbitrary
    <3> HIDE DEF r
    <3>2. /\ [u \in Uploads |-> Content(u)'] =
                 [[u \in Uploads |-> Content(u)] EXCEPT ![w] = @ \o r.data]
          /\ [u \in Uploads |-> NextChunk(u)'] =
                 [[u \in Uploads |-> NextChunk(u)] EXCEPT ![w] =
                     IF Len(Content(w)) + Len(r.data) = Expected THEN LastChunk + 1
                     ELSE @ + 1]
          /\ [u \in Uploads |-> Status(u)'] = [u \in Uploads |-> Status(u)]
      BY <1>7, <2>5, <2>7 DEF LooksSame
    <3> QED BY <1>3, <2>5, <2>8, <3>1, <3>2 DEF Contract!Take
  <2> QED BY <1>2, <1>3, <2>9 DEF Contract!Next
<1> QED BY <1>9, <1>10

LEMMA InsertRefines ==
    ASSUME Good, AllSeen, AllSeen', NEW h \in Handlers, FinishInsert(h)
    PROVE  UNCHANGED Contract!vars \/ Contract!Next
PROOF
<1>1. PICK w \in Uploads, id \in FileIds : w = req[h].u /\ id = req[h].id
  BY DEF FinishInsert, Good, TypeInv, ReqsOK, ReqOK
<1>2. /\ Moves(h, "record") /\ req[h].pc = "insert"
      /\ UNCHANGED <<partial, acked, late, issued>>
      /\ \A v \in Uploads \ {w} : pending_uploads'[v] = pending_uploads[v]
      /\ \A j \in FileIds \ {id} : files'[j] = files[j]
      /\ files'[id].upload = w /\ files'[id] \in FileRow
  BY <1>1, GoToMoves, StepTypeInv
     DEF FinishInsert, Good, TypeInv, TypeOK, FileRow, disk, ReqsOK, RequestType
<1>3. files[id] = None /\ files'[id] # None
  BY <1>1, <1>2, NamesAreDistinct DEF Good, SessionInv, IdInv, Published, Busy
<1>4. Concerns(w)
  BY <1>1, <1>2, <1>3 DEF Concerns, Moves, Others, Acting
<1>5. \A v \in Uploads \ {w} : LooksSame(v)
  BY <1>4, OthersSame, SameLooksSame
<1>6. CASE late[w] > 0
  <2>1. Seen(w) /\ Seen(w)'
    BY DEF AllSeen
  <2>2. LooksSame(w)
    BY <1>2, <1>6, <2>1 DEF Seen, SeenSpoiled, LooksSame
  <2>3. \A v \in Uploads : LooksSame(v)
    BY <1>5, <2>2
  <2> QED BY <2>3 DEF LooksSame, Contract!vars
<1>7. CASE ~(late[w] > 0)
  <2>1. late[w] = 0 /\ Seen(w) /\ Seen(w)' /\ Apart(w)
    BY <1>7 DEF AllSeen, Apart
  <2>2. Alive(w) /\ Serving(w) = {}
    <3>1. Alive(w)
      BY <1>1, <1>2 DEF Alive, Renamed, Doing
    <3> QED BY <2>1, <3>1 DEF Apart
  <2>3. (Serving(w) # {})'
    BY <1>2, <1>3 DEF Serving, Published
  <2>4. Len(acked[w]) = Expected
    BY <1>1, <1>2 DEF Good, SessionInv, CompleteInv, Busy
  <2>5. /\ Status(w) = "open" /\ Status(w)' = "published" /\ Content(w) = acked[w]
        /\ Content(w)' = acked[w] /\ NextChunk(w)' = 0
    BY <1>2, <2>1, <2>2, <2>3 DEF Seen, SeenUnspoiled
  <2>6. Contract!Publish(w)
    BY <1>5, <2>4, <2>5 DEF LooksSame, Contract!Publish
  <2> QED BY <2>6 DEF Contract!Next
<1> QED BY <1>6, <1>7

\* A finish that goes on, of a session it already was able to publish.
LEMMA FinishRefines ==
    ASSUME Good, AllSeen, AllSeen', NEW h \in Handlers,
           \/ \E u \in Uploads : FinishRead(h, u)
           \/ FinishExists(h) \/ FinishReplace(h)
           \/ \E id \in FileIds : FinishAllocate(h, id)
    PROVE  UNCHANGED Contract!vars \/ Contract!Next
PROOF
<1> DEFINE Goes(w, pc) ==
        /\ Others(h) /\ req'[h].pc = pc /\ req'[h].u = w
        /\ UNCHANGED <<pending_uploads, files, acked, late, issued>>
        /\ \A v \in Uploads : v # w => partial'[v] = partial[v]
        /\ pc \in {"exists", "discard", "allocate", "replace", "insert"}
        /\ req[h].pc = "idle" \/ req[h].u = w
<1>t. Good => TypeInv /\ TypeOK /\ ReqsOK
  BY DEF Good, TypeInv
<1>s. ASSUME NEW w \in Uploads, NEW pc, Goes(w, pc), Alive(w) \/ ~Alive(w)',
             Finishing(w) \/ Renamed(w) # {} \/ HasRow(w)
      PROVE  UNCHANGED Contract!vars \/ Contract!Next
  <2>1. Concerns(w)
    BY <1>s DEF Concerns, Others, Acting
  <2>2. Unborn(w)' => Unborn(w)
    BY <1>s DEF Unborn, Doing, Others
  <2>3. Fading(w)
    BY <1>s, <2>2 DEF Fading, Serving, Published
  <2> QED BY <2>1, <2>3, Dropped
<1>1. ASSUME NEW u \in Uploads, FinishRead(h, u)
      PROVE  UNCHANGED Contract!vars \/ Contract!Next
  <2>1. /\ Goes(u, req'[h].pc) /\ HasRow(u) /\ partial' = partial
    BY <1>t, <1>1
       DEF FinishRead, Arrives, At, Idle, ReqsOK, Others, HasRow, tables, disk
  <2>2. ~Alive(u) => ~Alive(u)'
    <3>1. InPartial(u)' => InPartial(u)
      BY <2>1 DEF InPartial
    <3>2. Renamed(u)' # {} => Renamed(u) # {}
      <4>1. req'[h].pc # "insert"
        BY <1>1, <1>t DEF FinishRead, Idle, Good, TypeInv, ReqsOK
      <4>2. Doing(u, {"insert"})' \subseteq Doing(u, {"insert"})
        BY <2>1, <4>1 DEF Doing, Others
      <4> QED BY <4>2 DEF Renamed
    <3> QED BY <3>1, <3>2 DEF Alive
  <2> HIDE DEF Goes
  <2> QED BY <1>s, <2>1, <2>2
<1>2. ASSUME FinishExists(h)
      PROVE  UNCHANGED Contract!vars \/ Contract!Next
  <2>1. PICK w \in Uploads : w = req[h].u
    BY <1>t, <1>2 DEF FinishExists, At, ReqsOK, ReqOK
  <2>2. /\ Goes(w, req'[h].pc) /\ partial' = partial /\ req[h].pc = "exists"
        /\ req'[h].pc = IF partial[w] = None THEN "discard" ELSE "allocate"
    BY <1>t, <1>2, <2>1, GoToMoves DEF FinishExists, At, Moves, tables, disk
  <2>3. Finishing(w)
    BY <2>1, <2>2 DEF Finishing, Doing
  <2>4. ~Alive(w) => ~Alive(w)'
    BY <2>2, <2>3 DEF Alive, InPartial, Renamed, Doing, Others
  <2> HIDE DEF Goes
  <2> QED BY <1>s, <2>2, <2>3, <2>4
<1>3. ASSUME NEW id \in FileIds, FinishAllocate(h, id)
      PROVE  UNCHANGED Contract!vars \/ Contract!Next
  <2>1. PICK w \in Uploads : w = req[h].u
    BY <1>t, <1>3 DEF FinishAllocate, At, ReqsOK, ReqOK
  <2>2. Goes(w, "replace") /\ partial' = partial /\ req[h].pc = "allocate"
        /\ req'[h].pc = "replace"
    BY <1>t, <1>3, <2>1, AllocateMoves DEF FinishAllocate, At, Moves, tables
  <2>3. Finishing(w)
    BY <2>1, <2>2 DEF Finishing, Doing
  <2>4. ~Alive(w) => ~Alive(w)'
    BY <2>2, <2>3 DEF Alive, InPartial, Renamed, Doing, Others
  <2> HIDE DEF Goes
  <2> QED BY <1>s, <2>2, <2>3, <2>4
<1>4. ASSUME FinishReplace(h)
      PROVE  UNCHANGED Contract!vars \/ Contract!Next
  <2>1. PICK w \in Uploads : w = req[h].u
    BY <1>t, <1>4 DEF FinishReplace, ReqsOK, ReqOK
  <2>2. Goes(w, "insert") /\ req[h].pc = "replace" /\ partial[w] # None
    BY <1>t, <1>4, <2>1, ReplaceMoves DEF FinishReplace, Remove, Moves, tables, TypeOK
  <2>3. Finishing(w)
    BY <2>1, <2>2 DEF Finishing, Doing
  <2>4. Alive(w)
    BY <2>2, <2>3 DEF Alive, InPartial
  <2> HIDE DEF Goes
  <2> QED BY <1>s, <2>2, <2>3, <2>4
<1> QED BY <1>1, <1>2, <1>3, <1>4

\* A late chunk makes a session's .part file anew, and spoils the session.
LEMMA RemakeRefines ==
    ASSUME Good, AllSeen, AllSeen', NEW h \in Handlers, ChunkOpen(h), Remakes(req[h])
    PROVE  UNCHANGED Contract!vars \/ Contract!Next
PROOF
<1>t. TypeInv /\ TypeOK /\ ReqsOK
  BY DEF Good, TypeInv
<1>1. PICK w \in Uploads : w = req[h].u
  BY <1>t DEF ChunkOpen, At, ReqsOK, ReqOK
<1>2. w \in Rows /\ Len(acked[w]) = Expected /\ partial[w] = None
  <2>1. w \in Rows /\ req[h].base = Len(acked[w])
    BY <1>t, <1>1, WriterCounts DEF Good, SessionInv, ChunkOpen, At, Busy
  <2> QED BY <1>1, <2>1 DEF Remakes
<1>3. /\ Moves(h, "append") /\ req[h].pc = "open"
      /\ UNCHANGED <<pending_uploads, files, acked, issued>>
      /\ late'[w] = late[w] + 1 /\ \A v \in Uploads \ {w} : late'[v] = late[v]
      /\ \A v \in Uploads \ {w} : partial'[v] = partial[v]
  <2>1. Moves(h, "append")
    BY <1>t, GoToMoves DEF ChunkOpen
  <2>2. \A v \in Uploads \ {w} : partial'[v] = partial[v]
    BY <1>t, <1>1, OpenTouches DEF Unchanged
  <2> QED BY <1>t, <1>1, <2>1, <2>2 DEF ChunkOpen, At, TypeOK, tables
<1>4. Concerns(w)
  BY <1>3 DEF Concerns, Moves, Others, Acting
<1>5. \A v \in Uploads \ {w} : LooksSame(v)
  BY <1>4, OthersSame, SameLooksSame
<1>6. Seen(w) /\ SeenSpoiled(w)' /\ Apart(w) /\ late[w] \in Nat
  <2>1. Seen(w) /\ Seen(w)' /\ Apart(w) /\ late[w] \in Nat
    BY DEF AllSeen, Apart
  <2>2. (late[w] > 0)'
    BY <1>3, <2>1
  <2> QED BY <2>1, <2>2 DEF Seen
<1>7. CASE late[w] > 0
  <2>1. LooksSame(w)
    BY <1>6, <1>7 DEF Seen, SeenSpoiled, LooksSame
  <2>2. \A v \in Uploads : LooksSame(v)
    BY <1>5, <2>1
  <2> QED BY <2>2 DEF LooksSame, Contract!vars
<1>8. CASE ~(late[w] > 0)
  <2>1. HasRow(w)
    BY <1>2 DEF HasRow, Rows
  <2>2. Serving(w) = {} /\ ~Unborn(w) /\ SeenUnspoiled(w)
    BY <1>6, <1>8, <2>1 DEF Apart, Seen
  <2>3. Status(w) = "gone" \/ (Status(w) = "open" /\ Len(Content(w)) = Expected)
    BY <1>2, <2>2 DEF SeenUnspoiled
  <2>4. Contract!Spoil(w)
    BY <1>5, <1>6, <2>3 DEF LooksSame, SeenSpoiled, Contract!Spoil
  <2> QED BY <2>4 DEF Contract!Next
<1> QED BY <1>7, <1>8

\* Chunk requests on their way change nothing else that was acknowledged.
LEMMA WritingRefines ==
    ASSUME Good, AllSeen, AllSeen', NEW h \in Handlers,
           \/ \E u \in Uploads : \E i, p : ChunkBegin(h, u, i, p)
           \/ ChunkOpen(h) \/ ChunkAppend(h) \/ ChunkRefused(h)
    PROVE  UNCHANGED Contract!vars \/ Contract!Next
PROOF
<1>t. TypeInv /\ TypeOK /\ ReqsOK
  BY DEF Good, TypeInv
<1>0. CASE ChunkOpen(h) /\ Remakes(req[h])
  BY <1>0, RemakeRefines
<1>s. SUFFICES ASSUME ~(ChunkOpen(h) /\ Remakes(req[h]))
               PROVE  UNCHANGED Contract!vars
  BY <1>0
<1>1. /\ Others(h) /\ req[h].pc \notin Acting /\ req'[h].pc \notin Acting
      /\ UNCHANGED <<pending_uploads, files, acked, late, issued>>
  <2>1. ASSUME NEW u \in Uploads, NEW i, NEW p, ChunkBegin(h, u, i, p)
        PROVE  /\ Others(h) /\ req[h].pc \notin Acting /\ req'[h].pc \notin Acting
               /\ UNCHANGED <<pending_uploads, files, acked, late, issued>>
    BY <1>t, <2>1 DEF ChunkBegin, Arrives, At, Idle, Others, Acting, tables, ReqsOK
  <2>2. CASE ChunkOpen(h)
    <3>1. late' = late
      BY <1>s, <1>t, <2>2 DEF ChunkOpen, TypeOK
    <3> QED BY <1>t, <2>2, <3>1, GoToMoves DEF ChunkOpen, At, Moves, Acting, tables
  <2>3. CASE ChunkAppend(h)
    BY <1>t, <2>3, AppendMoves DEF ChunkAppend, Moves, Acting, tables
  <2>4. CASE ChunkRefused(h)
    BY <1>t, <2>4, RespondLeaves DEF ChunkRefused, Leaves, Acting, tables
  <2> QED BY <2>1, <2>2, <2>3, <2>4
<1>2. \A v \in Uploads : partial'[v] = None <=> partial[v] = None
  <2>1. CASE \E u \in Uploads : \E i, p : ChunkBegin(h, u, i, p)
    BY <2>1 DEF ChunkBegin, disk
  <2>2. CASE ChunkOpen(h)
    <3>1. PICK w \in Uploads : w = req[h].u
      BY <1>t, <2>2 DEF ChunkOpen, At, ReqsOK, ReqOK
    <3>2. w \in Rows /\ req[h].base = Len(acked[w])
      BY <1>t, <2>2, <3>1, WriterCounts DEF Good, SessionInv, ChunkOpen, At, Busy
    <3>3. cleaner.reaped = {}
      BY <2>2, NamesAreDistinct DEF Good, SessionInv, LockInv, ChunkOpen, At, Busy
    <3>4. partial[w] # None
      BY <1>s, <2>2, <3>1, <3>2, <3>3 DEF Good, DataInv, KeepInv, Remakes
    <3> QED BY <1>t, <2>2, <3>1, <3>4, OpenTouches DEF Unchanged
  <2>3. CASE ChunkAppend(h)
    BY <1>t, <2>3, AppendKeepsFile
  <2>4. CASE ChunkRefused(h)
    BY <1>t, <2>4, RefusalTouches DEF Unchanged
  <2> QED BY <2>1, <2>2, <2>3, <2>4
<1>3. Concerns(None)
  BY <1>1, <1>2 DEF Concerns, Others
<1> QED BY <1>3, Unnoticed

\* Requests that end, and those that throw their session away.
LEMMA EndRefines ==
    ASSUME Good, AllSeen, AllSeen', NEW h \in Handlers,
           \/ InitInsertFails(h) \/ FinishDiscard(h) \/ FinishUnlink(h)
           \/ FinishReplaceFails(h) \/ FinishInsertFails(h) \/ FinishRecord(h)
           \/ FinishFails(h) \/ ChunkDbFails(h) \/ Crash(h)
    PROVE  UNCHANGED Contract!vars \/ Contract!Next
PROOF
<1> DEFINE w == req[h].u
<1>t. TypeInv /\ TypeOK /\ ReqsOK
  BY DEF Good, TypeInv
<1>1. /\ UNCHANGED <<files, acked, late, issued>> /\ Others(h) /\ req'[h].pc \notin Acting
  <2>1. CASE FinishDiscard(h)
    BY <1>t, <2>1, GoToMoves DEF FinishDiscard, Moves, Acting
  <2>2. CASE ~FinishDiscard(h)
    <3>1. Leaves(h)
      BY <1>t, <2>2, RespondLeaves
         DEF InitInsertFails, FinishUnlink, FinishReplaceFails, FinishInsertFails,
             FinishRecord, FinishFails, ChunkDbFails, Crash
    <3> QED BY <2>2, <3>1
       DEF InitInsertFails, FinishUnlink, FinishReplaceFails, FinishInsertFails,
           FinishRecord, FinishFails, ChunkDbFails, Crash, Leaves, Acting, tables
  <2> QED BY <2>1, <2>2
<1>2. \A v \in Uploads : partial'[v] = partial[v] \/ (v = w /\ partial'[v] = None)
  BY <1>t DEF InitInsertFails, FinishDiscard, FinishUnlink, FinishReplaceFails,
     FinishInsertFails, FinishRecord, FinishFails, ChunkDbFails, Crash, Remove, disk,
     TypeOK
<1>3. \A v \in Uploads : \/ pending_uploads'[v] = pending_uploads[v]
                         \/ v = w /\ pending_uploads'[v] = None
  BY <1>t DEF InitInsertFails, FinishDiscard, FinishUnlink, FinishReplaceFails,
     FinishInsertFails, FinishRecord, FinishFails, ChunkDbFails, Crash, tables, TypeOK
<1>4. CASE w \in Uploads
  BY <1>1, <1>2, <1>3, <1>4, Withdraws DEF Others
<1>5. CASE w \notin Uploads
  <2>1. req[h].pc = "idle"
    BY <1>t, <1>5 DEF ReqsOK, ReqOK
  <2>2. Concerns(None)
    BY <1>1, <1>2, <1>3, <1>5, <2>1 DEF Concerns, Others, Acting
  <2> QED BY <2>2, Unnoticed
<1> QED BY <1>4, <1>5

LEMMA CleanRefines ==
    ASSUME Good, AllSeen, AllSeen', Clean \/ CleanerCrash \/ Tick
    PROVE  UNCHANGED Contract!vars \/ Contract!Next
PROOF
<1>t. TypeInv /\ TypeOK
  BY DEF Good, TypeInv
<1>1. ASSUME NEW u \in Uploads, CleanUnlink(u) \/ CleanSweepPart(u)
      PROVE  UNCHANGED Contract!vars \/ Contract!Next
  BY <1>t, <1>1, Withdraws DEF CleanUnlink, CleanSweepPart, Remove, tables, TypeOK
<1>2. CASE CleanCommit
  <2>1. Concerns(None)
    BY <1>2 DEF CleanCommit, Concerns, Good, ReapInv, disk
  <2> QED BY <2>1, Unnoticed
<1>3. CASE UNCHANGED <<req, partial, pending_uploads, acked, late, issued, files>>
  <2>1. Concerns(None)
    BY <1>3 DEF Concerns
  <2> QED BY <2>1, Unnoticed
<1> QED BY <1>1, <1>2, <1>3
   DEF Clean, CleanWake, CleanLock, CleanFails, CleanKnownBlobs, CleanKnownParts,
       CleanDone, CleanSweepBlob, CleanerCrash, Tick, tables, disk

LEMMA StepRefines ==
    Good /\ Good' /\ AllSeen /\ AllSeen' /\ [Next]_vars
        => [Contract!Next]_(Contract!vars)
PROOF
<1> SUFFICES ASSUME Good, Good', AllSeen, AllSeen', [Next]_vars
             PROVE  UNCHANGED Contract!vars \/ Contract!Next
  OBVIOUS
<1>1. CASE UNCHANGED vars
  <2>1. Concerns(None)
    BY <1>1 DEF vars, Concerns
  <2> QED BY <2>1, Unnoticed
<1>2. CASE Clean \/ CleanerCrash \/ Tick
  BY <1>2, CleanRefines
<1>3. ASSUME NEW h \in Handlers, Request(h)
      PROVE  UNCHANGED Contract!vars \/ Contract!Next
  BY <1>3, InitRefines, WritingRefines, FinishRefines DEF Request
<1>4. ASSUME NEW h \in Handlers, Handle(h)
      PROVE  UNCHANGED Contract!vars \/ Contract!Next
  BY <1>4, OpenRefines, CommitRefines, InsertRefines, WritingRefines, FinishRefines,
     EndRefines DEF Handle
<1>5. ASSUME NEW h \in Handlers, Crash(h)
      PROVE  UNCHANGED Contract!vars \/ Contract!Next
  BY <1>5, EndRefines
<1> QED BY <1>1, <1>2, <1>3, <1>4, <1>5 DEF Next

-----------------------------------------------------------------------------
(* The invariant behind the mapping.                                       *)

\* Rows of files are inserted in one place.
LEMMA RequestsKeepFiles ==
    ASSUME NEW h \in Handlers, Request(h) \/ Handle(h) \/ Crash(h)
    PROVE  UNCHANGED files \/ FinishInsert(h)
PROOF
<1>1. CASE Request(h) \/ Crash(h)
  BY <1>1 DEF Request, InitStart, ChunkBegin, FinishRead, Crash, tables
<1>2. CASE Handle(h) /\ ~FinishInsert(h)
  BY <1>2
     DEF Handle, InitInsert, InitInsertFails, ChunkOpen, ChunkAppend, ChunkRefused,
         ChunkCommit, ChunkDbFails, FinishExists, FinishDiscard, FinishUnlink,
         FinishAllocate, FinishReplace, FinishReplaceFails, FinishInsertFails,
         FinishRecord, FinishFails, tables
<1> QED BY <1>1, <1>2

\* Under the lock of a pass, only the pass itself changes what it reaps.
LEMMA StepReapInv ==
    TypeInv /\ SessionInv /\ SessionInv' /\ FileInv /\ ReapInv /\ [Next]_vars => ReapInv'
PROOF
<1> SUFFICES ASSUME TypeInv, SessionInv, SessionInv', FileInv, ReapInv, [Next]_vars
             PROVE  ReapInv'
  OBVIOUS
<1>t. TypeOK /\ LockInv /\ LockInv' /\ HeldInv
  BY DEF TypeInv, SessionInv, FileInv
<1>1. CASE cleaner'.pc # "reap"
  <2>1. cleaner'.reaped = {}
    BY <1>t, <1>1 DEF LockInv
  <2> QED BY <2>1 DEF ReapInv
<1>2. CASE cleaner.pc # "reap" /\ cleaner'.pc = "reap"
  <2>1. cleaner.reaped = {}
    BY <1>t, <1>2 DEF LockInv
  <2>2. CleanLock
    BY <1>t, <1>2, PassBegins
  <2>3. cleaner'.reaped = {}
    BY <1>t, <2>1, <2>2 DEF CleanLock, TypeOK, CleanerType
  <2> QED BY <2>3 DEF ReapInv
<1>3. CASE cleaner.pc = "reap" /\ cleaner'.pc = "reap"
  <2>1. lock = Cleaner /\ lock' = Cleaner
    BY <1>t, <1>3 DEF LockInv
  <2>2. \A h \in Handlers : req[h].pc \notin {"open", "append"}
    BY <1>t, <2>1, NamesAreDistinct DEF LockInv, Busy
  <2>3. ASSUME cleaner' = cleaner, pending_uploads' = pending_uploads,
               \A u \in Rows : partial'[u] = partial[u] \/ partial'[u] = None
        PROVE  ReapInv'
    BY <2>3 DEF ReapInv, Rows
  <2>4. CASE \E u \in Uploads : CleanUnlink(u)
    BY <1>t, <2>4, <1>3
       DEF CleanUnlink, ReapInv, HeldInv, Remove, TypeOK, CleanerType, Rows, tables
  <2>5. CASE \E h \in Handlers : \E u \in Uploads : InitStart(h, u)
    <3>1. PICK h \in Handlers, u \in Uploads : InitStart(h, u)
      BY <2>5
    <3>2. u \notin Rows
      BY <3>1 DEF SessionInv, FreshInv, InitStart
    <3> QED BY <1>t, <2>3, <3>1, <3>2 DEF InitStart, tables, TypeOK, Rows
  <2>6. CASE \E h \in Handlers : Request(h) /\ ~\E u \in Uploads : InitStart(h, u)
    BY <2>3, <2>6 DEF Request, ChunkBegin, FinishRead, tables, disk
  <2>7. CASE \E h \in Handlers : Handle(h)
    BY <1>t, <2>1, <2>2, <2>3, <2>7, NamesAreDistinct
       DEF Handle, At, Free, Remove, tables, disk, InitInsert, InitInsertFails, ChunkOpen,
           ChunkAppend, ChunkRefused, ChunkCommit, ChunkDbFails, FinishExists,
           FinishDiscard, FinishUnlink, FinishAllocate, FinishReplace,
           FinishReplaceFails, FinishInsert, FinishInsertFails, FinishRecord,
           FinishFails, TypeOK, Rows
  <2>8. CASE \E h \in Handlers : Crash(h)
    BY <2>3, <2>8 DEF Crash, tables, disk
  <2>9. CASE Tick \/ UNCHANGED vars
    BY <2>3, <2>9 DEF Tick, vars, tables, disk
  <2>10. CASE (Clean /\ ~\E u \in Uploads : CleanUnlink(u)) \/ CleanerCrash
    <3>1. ASSUME cleaner' = Asleep
          PROVE  FALSE
      BY <1>3, <3>1 DEF Asleep
    <3>2. ~CleanCommit
      BY <1>t, <1>3 DEF CleanCommit, TypeOK, CleanerType
    <3> QED BY <1>3, <2>10, <3>1, <3>2
       DEF Clean, CleanWake, CleanLock, CleanFails, CleanSweepPart, CleanKnownBlobs,
           CleanKnownParts, CleanDone, CleanSweepBlob, CleanerCrash
  <2> QED BY <2>4, <2>5, <2>6, <2>7, <2>8, <2>9, <2>10 DEF Next
<1> QED BY <1>1, <1>2, <1>3

LEMMA StepPromptInv ==
    TypeInv /\ PromptInv /\ [Next]_vars /\ [~PublishesLate]_vars => PromptInv'
PROOF
<1> SUFFICES ASSUME TypeInv, PromptInv, [Next]_vars, [~PublishesLate]_vars
             PROVE  PromptInv'
  OBVIOUS
<1>1. ASSUME NEW h \in Handlers, FinishInsert(h)
      PROVE  PromptInv'
  <2> DEFINE r == req[h]
             row == [upload |-> r.u, mtime |-> r.mtime, inserted |-> clock]
  <2>1. /\ r.pc = "insert" /\ r.mtime \in Nat /\ clock \in Nat /\ Grace \in Nat
    BY <1>1, BoundsAreNaturals DEF FinishInsert, TypeInv, TypeOK, ReqsOK, RequestType
  <2>2. clock < r.mtime + Grace
    <3>1. ~PublishesLate
      <4>1. Moves(h, "record")
        BY <1>1, GoToMoves DEF FinishInsert
      <4>2. req' # req
        BY <2>1, <4>1 DEF Moves
      <4> QED BY <4>2 DEF vars
    <3> QED BY <1>1, <2>1, <3>1 DEF PublishesLate
  <2>3. files' = [files EXCEPT ![r.id] = row] /\ files \in [FileIds -> FileRow \cup {None}]
    BY <1>1 DEF FinishInsert, TypeInv, TypeOK
  <2>4. row.inserted = clock /\ row.mtime = r.mtime
    OBVIOUS
  <2> HIDE DEF row
  <2> QED BY <2>2, <2>3, <2>4 DEF PromptInv, Published
<1>2. CASE UNCHANGED files
  BY <1>2 DEF PromptInv, Published
<1>3. UNCHANGED files \/ \E h \in Handlers : FinishInsert(h)
  <2>1. ASSUME NEW h \in Handlers, Request(h) \/ Handle(h) \/ Crash(h)
        PROVE  UNCHANGED files \/ FinishInsert(h)
    BY <2>1, RequestsKeepFiles
  <2>2. CASE Clean \/ CleanerCrash
    BY <2>2
       DEF Clean, CleanWake, CleanLock, CleanCommit, CleanFails, CleanUnlink,
           CleanSweepPart, CleanKnownBlobs, CleanKnownParts, CleanDone, CleanSweepBlob,
           CleanerCrash, tables
  <2>3. CASE Tick \/ UNCHANGED vars
    BY <2>3 DEF Tick, vars, tables
  <2> QED BY <2>1, <2>2, <2>3 DEF Next
<1> QED BY <1>1, <1>2, <1>3

LEMMA InitGood == Init /\ ~Late => Good
PROOF
<1>1. Init => ReapInv /\ PromptInv
  BY DEF Init, ReapInv, PromptInv, Asleep, Published
<1> QED BY <1>1, InitTypeInv, InitSessionInv, InitFileInv, InitDataInv DEF Good

LEMMA StepGood ==
    Good /\ [Next]_vars /\ [~Interrupted]_vars /\ (~Late)' => Good'
PROOF
<1> SUFFICES ASSUME Good, [Next]_vars, [~Interrupted]_vars, (~Late)'
             PROVE  Good'
  OBVIOUS
<1>1. TypeInv' /\ SessionInv' /\ FileInv' /\ DataInv'
  BY StepTypeInv, StepSessionInv, StepFileInv, StepDataInv DEF Good
<1>2. ReapInv' /\ PromptInv'
  <2>1. ~PublishesLate
    BY DEF PublishesLate, FinishInsert, Late, At, Good
  <2> QED BY <1>1, <2>1, StepReapInv, StepPromptInv DEF Good
<1> QED BY <1>1, <1>2 DEF Good

\* files.py:178-434 with cleanup.py:64-103: per session, handlers, lock, disk and
\* cleaner do what UploadContract says, each of their steps one step of it or none
\* (a chunk that makes the .part file anew after a rename spoils its session), unless
\* a fault strikes between an effect on the disk and its COMMIT (the finding
\* upload_drift) or a finish is later than the grace period (upload_late_finish).
THEOREM UploadKeepsContract ==
    Spec /\ [][~Interrupted]_vars /\ [](~Late) => ImplementsContract
PROOF
<1>1. Init => Contract!Init
  BY DEF Init, Contract!Init, Status, Content, NextChunk, Serving, InPartial, Renamed,
     Doing, Published, Idle
<1>2. Good => AllSeen
  BY SessionsSeen DEF AllSeen
<1>3. Good /\ Good' /\ AllSeen /\ AllSeen' /\ [Next]_vars
          => [Contract!Next]_(Contract!vars)
  BY StepRefines
<1> QED BY <1>1, <1>2, <1>3, InitGood, StepGood, PTL
   DEF Spec, ImplementsContract, Contract!Spec

\* cleanup.py:20-23 with files.py:408-434: whatever crashes or fails, a row of the
\* files table has its blob as long as no finish inserts it later than the grace
\* period after the last append, so the lateness the run upload_late_finish shows
\* is all that can part the two.
THEOREM BlobKeptUnlessLate ==
    Spec /\ [][~PublishesLate]_vars => []PublishedBlobKept
PROOF
<1>1. SessionInv /\ PromptInv => PublishedBlobKept
  BY DEF SessionInv, AgeInv, SweepSparesPrompt, PromptInv, PublishedBlobKept
<1>2. Init => PromptInv
  BY DEF Init, PromptInv, Published
<1> QED BY <1>1, <1>2, InitTypeInv, StepTypeInv, InitSessionInv, StepSessionInv,
           StepPromptInv, PTL DEF Spec

\* What has become of a session is final: published, it holds what it held, all of
\* it; gone, it holds nothing and no retry brings it back, and if a late chunk
\* spoils it, it stays spoiled.
OutcomeIsFinal ==
    [][\A u \in Uploads : Status(u) \in {"published", "gone", "spoiled"} =>
           /\ Status(u)' = Status(u) \/ (Status(u) = "gone" /\ Status(u)' = "spoiled")
           /\ Content(u)' = Content(u)]_vars

LEMMA StepOutcome ==
    ASSUME AllSeen, AllSeen', [Contract!Next]_(Contract!vars)
    PROVE  \A u \in Uploads : Status(u) \in {"published", "gone", "spoiled"} =>
               /\ Status(u)' = Status(u) \/ (Status(u) = "gone" /\ Status(u)' = "spoiled")
               /\ Content(u)' = Content(u)
PROOF
<1> DEFINE status == [u \in Uploads |-> Status(u)]
           content == [u \in Uploads |-> Content(u)]
<1> SUFFICES ASSUME NEW u \in Uploads, status[u] \in {"published", "gone", "spoiled"}
             PROVE  /\ \/ status'[u] = status[u]
                       \/ status[u] = "gone" /\ status'[u] = "spoiled"
                    /\ content'[u] = content[u]
  OBVIOUS
<1>d. DOMAIN status = Uploads /\ DOMAIN content = Uploads
  OBVIOUS
<1>1. CASE UNCHANGED Contract!vars
  BY <1>1 DEF Contract!vars
<1>2. ASSUME NEW v \in Uploads, v # u,
             Contract!Open(v) \/ Contract!Publish(v) \/ Contract!Drop(v)
                 \/ Contract!Spoil(v) \/ \E p : Contract!Take(v, p)
      PROVE  status'[u] = status[u] /\ content'[u] = content[u]
  <2>1. /\ status' = status \/ \E x : status' = [status EXCEPT ![v] = x]
        /\ content' = content \/ \E x : content' = [content EXCEPT ![v] = x]
    BY <1>2 DEF Contract!Open, Contract!Publish, Contract!Drop, Contract!Spoil,
       Contract!Take
  <2> HIDE DEF status, content
  <2> QED BY <1>d, <1>2, <2>1
<1>3. ASSUME Contract!Open(u) \/ Contract!Publish(u) \/ Contract!Drop(u)
                 \/ \E p : Contract!Take(u, p)
      PROVE  FALSE
  <2>1. status[u] \in {"new", "open"}
    BY <1>3 DEF Contract!Open, Contract!Publish, Contract!Drop, Contract!Take
  <2> QED BY <2>1
<1>4. CASE Contract!Spoil(u)
  <2>1. status[u] = "gone"
    BY <1>4 DEF Contract!Spoil
  <2>2. /\ status' = [status EXCEPT ![u] = "spoiled"]
        /\ content' = [content EXCEPT ![u] = <<>>]
    BY <1>4 DEF Contract!Spoil
  <2>3. content[u] = <<>>
    BY <2>1 DEF AllSeen, Seen, SeenSpoiled, SeenUnspoiled
  <2> HIDE DEF status, content
  <2> QED BY <1>d, <2>1, <2>2, <2>3
<1> QED BY <1>1, <1>2, <1>3, <1>4 DEF Contract!Next

\* files.py:178-434 with cleanup.py:64-103, where UploadKeepsContract applies: an
\* upload that was published, lost or spoiled stays so, with the content it had,
\* except that a late chunk may still spoil one that was lost.
THEOREM OutcomesAreFinal ==
    Spec /\ [][~Interrupted]_vars /\ [](~Late) => OutcomeIsFinal
PROOF
<1>1. AllSeen /\ AllSeen' /\ [Contract!Next]_(Contract!vars) =>
          [\A u \in Uploads : Status(u) \in {"published", "gone", "spoiled"} =>
               /\ Status(u)' = Status(u)
                  \/ (Status(u) = "gone" /\ Status(u)' = "spoiled")
               /\ Content(u)' = Content(u)]_vars
  BY StepOutcome
<1>2. Good => AllSeen
  BY SessionsSeen DEF AllSeen
<1> QED BY <1>1, <1>2, InitGood, StepGood, UploadKeepsContract, PTL
   DEF Spec, ImplementsContract, Contract!Spec, OutcomeIsFinal
=============================================================================
