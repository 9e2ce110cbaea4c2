--------------------------- MODULE WebsiteProofs ----------------------------
(***************************************************************************)
(* Proofs about the website beside the tournament: the uploads, for any    *)
(* number of pages, contents, rows and failures; and the tables of the     *)
(* rounds with the scoreboard that reads them, for any teams and any number*)
(* of rounds, games and failures.                                          *)
(***************************************************************************)
EXTENDS Uploads, Scoreboard, TLAPS

-----------------------------------------------------------------------------
(* Uploads                                                                 *)

LEMMA IdleType ==
    /\ Idle \in PageType /\ Idle.at = "idle" /\ Idle.says = ""
    /\ [Idle EXCEPT !.says = "error"] \in PageType
    /\ [Idle EXCEPT !.says = "error"].at = "idle"
    /\ [Idle EXCEPT !.says = "error"].says = "error"
BY DEF Idle, PageType, States

LEMMA WaitingType == Waiting \in CheckType /\ Waiting.at = "down"
BY DEF Waiting, CheckType

LEMMA UploadStarts == UploadInit => UploadsInStep
<1> SUFFICES ASSUME UploadInit PROVE UploadsInStep
  OBVIOUS
<1>0. /\ page \in [Pages -> PageType] /\ temp \in [Pages -> {Null}]
      /\ \A p \in Pages : page[p] = Idle /\ temp[p] = Null
  BY IdleType DEF UploadInit
<1>1. rows \in Seq(BinaryType) /\ DOMAIN rows = {} /\ queue = {} /\ early = {}
  BY DEF UploadInit
<1>2. UploadTypes
  <2>1. dir \in [Contents -> {Absent, "readable", "executable"}]
    BY DEF UploadInit
  <2>. QED  BY <1>0, <1>1, <2>1, WaitingType DEF UploadTypes, UploadInit
<1>3. ASSUME NEW p \in Pages
      PROVE  PageInStep(p)
  BY <1>0, IdleType DEF PageInStep
<1>4. RowsInStep
  BY <1>1 DEF RowsInStep
<1>5. JudgedFairly
  <2>1. \A c \in Contents : dir[c] # "readable"
    BY DEF UploadInit, Absent
  <2>. QED  BY <1>1, <2>1 DEF JudgedFairly
<1>. QED  BY <1>2, <1>3, <1>4, <1>5 DEF UploadsInStep

-----------------------------------------------------------------------------
(* The directory and the table only grow                                   *)

Onward ==
    /\ \A c \in Contents : /\ dir[c] # Absent => dir'[c] # Absent
                           /\ dir[c] = "executable" => dir'[c] = "executable"
    /\ \A n \in DOMAIN rows : /\ n \in DOMAIN rows'
                              /\ rows'[n].file = rows[n].file
                              /\ rows'[n].moved = rows[n].moved
    /\ mishaps' = 0 => mishaps = 0

LEMMA PageStays ==
    ASSUME Onward, NEW p \in Pages, PageInStep(p),
           page'[p] = page[p], temp'[p] = temp[p]
    PROVE  PageInStep(p)'
BY DEF Onward, PageInStep, Absent

LEMMA AppendRow ==
    ASSUME NEW table \in Seq(BinaryType), NEW row \in BinaryType
    PROVE  /\ Append(table, row) \in Seq(BinaryType)
           /\ DOMAIN Append(table, row) = DOMAIN table \cup {Len(table) + 1}
           /\ Len(table) + 1 \notin DOMAIN table
           /\ Append(table, row)[Len(table) + 1] = row
           /\ \A n \in DOMAIN table : Append(table, row)[n] = table[n]
OBVIOUS

(* A row inserted is one of a file in place.                               *)
LEMMA RowInPlace ==
    ASSUME UploadsInStep, NEW p \in Pages, page[p].at = "inserting"
    PROVE  /\ Row(p) \in BinaryType /\ Row(p).verdict = Null
           /\ Row(p).file = page[p].file /\ dir[Row(p).file] # Absent
           /\ Row(p).moved => dir[Row(p).file] = "executable"
<1>1. page[p] \in PageType /\ PageInStep(p)
  BY DEF UploadsInStep, UploadTypes
<1>. QED  BY <1>1 DEF Row, BinaryType, PageType, PageInStep

(* What is left to show of a step of page p.                               *)
LEMMA UploadStep ==
    ASSUME UploadsInStep, NEW p \in Pages, UploadTypes', Onward, PageInStep(p)',
           UNCHANGED checker,
           \A q \in Pages \ {p} : page'[q] = page[q] /\ temp'[q] = temp[q],
           \/ rows' = rows
           \/ page[p].at = "inserting" /\ rows' = Append(rows, Row(p)),
           \A c \in Contents : dir'[c] = "readable" =>
              \/ \E q \in Pages : page'[q].at = "granting" /\ page'[q].file = c
              \/ mishaps' > 0
    PROVE  UploadsInStep'
<1>1. ASSUME NEW q \in Pages
      PROVE  PageInStep(q)'
  BY PageStays DEF UploadsInStep
<1>2. rows \in Seq(BinaryType) /\ queue \subseteq DOMAIN rows /\ early \subseteq DOMAIN rows
  BY DEF UploadsInStep, UploadTypes
<1>3. /\ \A n \in DOMAIN rows : n \in DOMAIN rows' /\ rows'[n] = rows[n]
      /\ \A n \in DOMAIN rows' \ DOMAIN rows :
            /\ rows'[n].verdict = Null /\ dir[rows'[n].file] # Absent
            /\ rows'[n].moved => dir[rows'[n].file] = "executable"
  <2>1. CASE rows' = rows
    BY <2>1
  <2>2. CASE page[p].at = "inserting" /\ rows' = Append(rows, Row(p))
    BY <1>2, <2>2, RowInPlace, AppendRow
  <2>. QED  BY <2>1, <2>2
<1>4. \A n \in DOMAIN rows' : rows'[n] \in BinaryType
  <2>1. rows' \in Seq(BinaryType)
    BY DEF UploadTypes
  <2>. QED  BY <2>1
<1>5. RowsInStep'
  <2>1. ASSUME NEW n \in DOMAIN rows'
        PROVE  /\ dir'[rows'[n].file] # Absent
               /\ rows'[n].moved => dir'[rows'[n].file] = "executable"
    <3>1. /\ dir[rows'[n].file] # Absent
          /\ rows'[n].moved => dir[rows'[n].file] = "executable"
      BY <1>3 DEF UploadsInStep, RowsInStep
    <3>2. rows'[n].file \in Contents
      BY <1>4 DEF BinaryType
    <3>. QED  BY <3>1, <3>2 DEF Onward
  <2>. QED  BY <1>2, <1>3, <2>1 DEF UploadsInStep, RowsInStep, checker, IsFirst
<1>6. JudgedFairly'
  BY <1>2, <1>3 DEF UploadsInStep, JudgedFairly, checker
<1>. QED  BY <1>1, <1>5, <1>6 DEF UploadsInStep

(* Most steps of a page leave the directory and the table alone.           *)
LEMMA QuietStep ==
    ASSUME UploadsInStep, NEW p \in Pages, UNCHANGED << dir, rows, checker >>,
           mishaps' = mishaps \/ mishaps' = mishaps + 1,
           page' \in [Pages -> PageType],
           temp' \in [Pages -> Contents \cup {Null, "partial"}],
           \A q \in Pages \ {p} : page'[q] = page[q] /\ temp'[q] = temp[q],
           page[p].at # "granting" \/ mishaps' = mishaps + 1, PageInStep(p)'
    PROVE  UploadsInStep'
<1>1. UploadTypes
  BY DEF UploadsInStep
<1>2. UploadTypes'
  BY <1>1 DEF UploadTypes, checker
<1>3. Onward
  BY <1>1 DEF Onward, UploadTypes
<1>4. ASSUME NEW c \in Contents, dir'[c] = "readable"
      PROVE  \/ \E q \in Pages : page'[q].at = "granting" /\ page'[q].file = c
             \/ mishaps' > 0
  <2>1. \/ \E q \in Pages : page[q].at = "granting" /\ page[q].file = c
        \/ mishaps > 0
    BY <1>4 DEF UploadsInStep, JudgedFairly
  <2>. QED  BY <1>1, <2>1 DEF UploadTypes
<1>. QED  BY <1>2, <1>3, <1>4, UploadStep

LEMMA GoesTo ==
    ASSUME UploadTypes, NEW p \in Pages, NEW to \in States,
           page' = [page EXCEPT ![p].at = to]
    PROVE  /\ page' \in [Pages -> PageType]
           /\ page'[p].at = to /\ page'[p].file = page[p].file
           /\ page'[p].moved = page[p].moved /\ page'[p].says = page[p].says
           /\ \A q \in Pages \ {p} : page'[q] = page[q]
<1>1. page \in [Pages -> PageType] /\ page[p] \in PageType
  BY DEF UploadTypes
<1>2. page' = [page EXCEPT ![p] = [page[p] EXCEPT !.at = to]]
  BY <1>1
<1>3. DEFINE r == [page[p] EXCEPT !.at = to]
<1>4. /\ r \in PageType /\ r.at = to /\ r.file = page[p].file
      /\ r.moved = page[p].moved /\ r.says = page[p].says
  BY <1>1 DEF PageType
<1> HIDE DEF r
<1>5. page' = [page EXCEPT ![p] = r]
  BY <1>2 DEF r
<1>. QED  BY <1>1, <1>4, <1>5

LEMMA FailsIdle ==
    ASSUME UploadTypes, NEW p \in Pages, Fails(p)
    PROVE  /\ page' \in [Pages -> PageType]
           /\ page'[p].at = "idle" /\ page'[p].says = "error"
           /\ \A q \in Pages \ {p} : page'[q] = page[q]
BY IdleType DEF UploadTypes, Fails

LEMMA RefuseIInv == ASSUME UploadsInStep, NEW p \in Pages, Refuse(p) PROVE UploadsInStep'
<1>1. UploadTypes /\ PageInStep(p)
  BY DEF UploadsInStep
<1>2. temp' = temp /\ dir' = dir /\ mishaps' = mishaps /\ page[p].at = "idle"
  BY DEF Refuse
<1>3. /\ page' \in [Pages -> PageType]
      /\ page'[p].at = "idle" /\ page'[p].says = "error"
      /\ \A q \in Pages \ {p} : page'[q] = page[q]
  BY <1>1, FailsIdle DEF Refuse
<1>4. PageInStep(p)'
  BY <1>1, <1>2, <1>3 DEF PageInStep
<1>. QED  BY <1>1, <1>2, <1>3, <1>4, QuietStep DEF Refuse, UploadTypes

LEMMA BeginIInv ==
    ASSUME UploadsInStep, NEW p \in Pages, NEW c \in Contents, Begin(p, c) PROVE UploadsInStep'
<1>1. UploadTypes /\ PageInStep(p)
  BY DEF UploadsInStep
<1>2. /\ page' \in [Pages -> PageType]
      /\ page'[p].at = "writing" /\ page'[p].says = "" /\ page'[p].file = c
      /\ ~page'[p].moved
      /\ \A q \in Pages \ {p} : page'[q] = page[q]
  <2>1. DEFINE r == [Idle EXCEPT !.at = "writing", !.file = c]
  <2>2. /\ r \in PageType /\ r.at = "writing" /\ r.says = "" /\ r.file = c
        /\ ~r.moved
    BY DEF Idle, PageType, States
  <2>3. page' = [page EXCEPT ![p] = r]
    BY DEF Begin
  <2> HIDE DEF r
  <2>. QED  BY <1>1, <2>2, <2>3 DEF UploadTypes
<1>3. /\ temp' \in [Pages -> Contents \cup {Null, "partial"}]
      /\ \A q \in Pages \ {p} : temp'[q] = temp[q]
  BY <1>1 DEF Begin, UploadTypes
<1>4. PageInStep(p)'
  BY <1>2 DEF PageInStep
<1>5. page[p].at = "idle"
  BY DEF Begin
<1>. QED  BY <1>2, <1>3, <1>4, <1>5, QuietStep DEF Begin

LEMMA UploadGiveUp == ASSUME UploadsInStep, NEW p \in Pages, LosePage(p) PROVE UploadsInStep'
<1>1. UploadTypes
  BY DEF UploadsInStep
<1>2. /\ page' \in [Pages -> PageType]
      /\ page'[p].at = "idle" /\ page'[p].says = "error"
      /\ \A q \in Pages \ {p} : page'[q] = page[q]
  BY <1>1, FailsIdle DEF LosePage
<1>3. /\ temp' \in [Pages -> Contents \cup {Null, "partial"}] /\ temp'[p] = Null
      /\ \A q \in Pages \ {p} : temp'[q] = temp[q]
  BY <1>1 DEF LosePage, UploadTypes
<1>4. PageInStep(p)'
  BY <1>2, <1>3 DEF PageInStep
<1>5. page[p].at = "writing"
  BY DEF LosePage
<1>. QED  BY <1>2, <1>3, <1>4, <1>5, QuietStep DEF LosePage

LEMMA WrittenIInv == ASSUME UploadsInStep, NEW p \in Pages, Written(p) PROVE UploadsInStep'
<1>1. UploadTypes /\ PageInStep(p) /\ page[p].at = "writing"
  BY DEF UploadsInStep, Written, Goes
<1>2. /\ page' \in [Pages -> PageType]
      /\ page'[p].at = "looking" /\ page'[p].file = page[p].file
      /\ page'[p].moved = page[p].moved /\ page'[p].says = page[p].says
      /\ \A q \in Pages \ {p} : page'[q] = page[q]
  BY <1>1, GoesTo DEF Written, Goes, States
<1>3. page[p].file \in Contents
  BY <1>1 DEF PageInStep
<1>4. /\ temp' \in [Pages -> Contents \cup {Null, "partial"}]
      /\ temp'[p] = page[p].file
      /\ \A q \in Pages \ {p} : temp'[q] = temp[q]
  BY <1>1, <1>3 DEF Written, UploadTypes
<1>5. PageInStep(p)'
  BY <1>1, <1>2, <1>4 DEF PageInStep
<1>. QED  BY <1>1, <1>2, <1>4, <1>5, QuietStep DEF Written

LEMMA LookIInv == ASSUME UploadsInStep, NEW p \in Pages, Look(p) PROVE UploadsInStep'
<1>1. UploadTypes /\ PageInStep(p) /\ page[p].at = "looking"
  BY DEF UploadsInStep, Look
<1>2. PICK to \in {"moving", "deleting"} :
        /\ page' = [page EXCEPT ![p].at = to]
        /\ to = "deleting" => dir[page[p].file] # Absent
  BY DEF Look
<1>3. /\ page' \in [Pages -> PageType]
      /\ page'[p].at = to /\ page'[p].file = page[p].file
      /\ page'[p].moved = page[p].moved /\ page'[p].says = page[p].says
      /\ \A q \in Pages \ {p} : page'[q] = page[q]
  BY <1>1, <1>2, GoesTo DEF States
<1>4. temp' = temp /\ dir' = dir /\ rows' = rows
  BY DEF Look
<1>5. PageInStep(p)'
  BY <1>1, <1>2, <1>3, <1>4 DEF PageInStep
<1>. QED  BY <1>1, <1>3, <1>4, <1>5, QuietStep DEF Look, UploadTypes

LEMMA DeleteIInv == ASSUME UploadsInStep, NEW p \in Pages, Delete(p) PROVE UploadsInStep'
<1>1. UploadTypes /\ PageInStep(p) /\ page[p].at = "deleting"
  BY DEF UploadsInStep, Delete, Goes
<1>2. /\ page' \in [Pages -> PageType]
      /\ page'[p].at = "inserting" /\ page'[p].file = page[p].file
      /\ page'[p].moved = page[p].moved /\ page'[p].says = page[p].says
      /\ \A q \in Pages \ {p} : page'[q] = page[q]
  BY <1>1, GoesTo DEF Delete, Goes, States
<1>3. /\ temp' \in [Pages -> Contents \cup {Null, "partial"}] /\ temp'[p] = Null
      /\ \A q \in Pages \ {p} : temp'[q] = temp[q]
  BY <1>1 DEF Delete, UploadTypes
<1>4. dir' = dir
  BY DEF Delete
<1>5. PageInStep(p)'
  BY <1>1, <1>2, <1>3, <1>4 DEF PageInStep
<1>. QED  BY <1>1, <1>2, <1>3, <1>5, QuietStep DEF Delete

LEMMA SucceedIInv == ASSUME UploadsInStep, NEW p \in Pages, Succeed(p) PROVE UploadsInStep'
<1>1. UploadTypes /\ PageInStep(p) /\ page[p].at = "reading"
  BY DEF UploadsInStep, Succeed
<1>2. UNCHANGED << temp, dir, rows, mishaps >>
  BY DEF Succeed
<1>3. /\ page' \in [Pages -> PageType]
      /\ page'[p].at = "idle" /\ page'[p].file = page[p].file
      /\ \A q \in Pages \ {p} : page'[q] = page[q]
  <2>1. DEFINE r == [page[p] EXCEPT !.at = "idle", !.says = "succeeded"]
  <2>2. page \in [Pages -> PageType] /\ page[p] \in PageType
    BY <1>1 DEF UploadTypes
  <2>3. r \in PageType /\ r.at = "idle" /\ r.file = page[p].file
    BY <2>2 DEF PageType, States
  <2>4. page' = [page EXCEPT ![p] = r]
    BY <2>2 DEF Succeed
  <2> HIDE DEF r
  <2>. QED  BY <2>2, <2>3, <2>4
<1>4. PageInStep(p)'
  BY <1>1, <1>2, <1>3 DEF PageInStep
<1>. QED  BY <1>1, <1>2, <1>3, <1>4, QuietStep DEF Succeed, UploadTypes

(* The file arrives in the directory, or another upload has put it there.  *)
LEMMA MoveIInv == ASSUME UploadsInStep, NEW p \in Pages, Move(p) PROVE UploadsInStep'
<1>1. UploadTypes /\ PageInStep(p) /\ page[p].at = "moving"
  BY DEF UploadsInStep, Move
<1>2. CASE Fails(p) /\ UNCHANGED << dir, temp >> /\ dir[page[p].file] # Absent
  <2>1. UNCHANGED << temp, dir, rows, mishaps, checker >>
    BY <1>2 DEF Move
  <2>2. /\ page' \in [Pages -> PageType]
        /\ page'[p].at = "idle" /\ page'[p].says = "error"
        /\ \A q \in Pages \ {p} : page'[q] = page[q]
    BY <1>1, <1>2, FailsIdle
  <2>3. PageInStep(p)'
    BY <1>1, <1>2, <2>1, <2>2 DEF PageInStep
  <2>. QED  BY <1>1, <2>1, <2>2, <2>3, QuietStep DEF UploadTypes
<1>3. CASE /\ dir[page[p].file] = Absent
           /\ dir' = [dir EXCEPT ![page[p].file] = "readable"]
           /\ temp' = [temp EXCEPT ![p] = Null]
           /\ page' = [page EXCEPT ![p].at = "granting", ![p].moved = TRUE]
  <2> DEFINE file == page[p].file
  <2>1. file \in Contents
    BY <1>1 DEF PageInStep
  <2>2. UNCHANGED << rows, mishaps, checker >>
    BY DEF Move
  <2>3. /\ page' \in [Pages -> PageType]
        /\ page'[p].at = "granting" /\ page'[p].file = file
        /\ page'[p].says = page[p].says
        /\ \A q \in Pages \ {p} : page'[q] = page[q]
    <3>1. DEFINE r == [page[p] EXCEPT !.at = "granting", !.moved = TRUE]
    <3>2. page \in [Pages -> PageType] /\ page[p] \in PageType
      BY <1>1 DEF UploadTypes
    <3>3. r \in PageType /\ r.at = "granting" /\ r.file = file /\ r.says = page[p].says
      BY <3>2 DEF PageType, States
    <3>4. page' = [page EXCEPT ![p] = r]
      BY <3>2, <1>3
    <3> HIDE DEF r
    <3>. QED  BY <3>2, <3>3, <3>4
  <2>4. /\ dir' \in [Contents -> {Absent, "readable", "executable"}]
        /\ dir'[file] = "readable" /\ dir[file] = Absent
        /\ \A c \in Contents \ {file} : dir'[c] = dir[c]
    BY <1>1, <1>3, <2>1 DEF UploadTypes
  <2>5. /\ temp' \in [Pages -> Contents \cup {Null, "partial"}] /\ temp'[p] = Null
        /\ \A q \in Pages \ {p} : temp'[q] = temp[q]
    BY <1>1, <1>3 DEF UploadTypes
  <2>6. UploadTypes'
    BY <1>1, <2>2, <2>3, <2>4, <2>5 DEF UploadTypes, checker
  <2> HIDE DEF file
  <2>7. Onward
    BY <2>2, <2>4 DEF Onward, Absent
  <2>8. PageInStep(p)'
    BY <1>1, <2>1, <2>3, <2>4, <2>5 DEF PageInStep, Absent
  <2>9. ASSUME NEW c \in Contents, dir'[c] = "readable"
        PROVE  \/ \E q \in Pages : page'[q].at = "granting" /\ page'[q].file = c
               \/ mishaps' > 0
    <3>1. CASE c = file
      BY <3>1, <2>3
    <3>2. CASE c # file
      <4>1. \/ \E q \in Pages : page[q].at = "granting" /\ page[q].file = c
            \/ mishaps > 0
        BY <2>4, <2>9, <3>2 DEF UploadsInStep, JudgedFairly
      <4>. QED  BY <1>1, <2>2, <2>3, <4>1
    <3>. QED  BY <3>1, <3>2
  <2>. QED  BY <2>2, <2>3, <2>5, <2>6, <2>7, <2>8, <2>9, UploadStep
<1>. QED  BY <1>2, <1>3 DEF Move

(* From here on the file can be executed.                                  *)
LEMMA GrantIInv == ASSUME UploadsInStep, NEW p \in Pages, Grant(p) PROVE UploadsInStep'
<1>1. UploadTypes /\ PageInStep(p) /\ page[p].at = "granting"
  BY DEF UploadsInStep, Grant, Goes
<1> DEFINE file == page[p].file
<1>2. file \in Contents
  BY <1>1 DEF PageInStep
<1>3. UNCHANGED << temp, rows, mishaps, checker >>
  BY DEF Grant
<1>4. /\ page' \in [Pages -> PageType]
      /\ page'[p].at = "inserting" /\ page'[p].file = file
      /\ page'[p].moved = page[p].moved /\ page'[p].says = page[p].says
      /\ \A q \in Pages \ {p} : page'[q] = page[q]
  BY <1>1, GoesTo DEF Grant, Goes, States
<1>5. /\ dir' \in [Contents -> {Absent, "readable", "executable"}]
      /\ dir'[file] = "executable"
      /\ \A c \in Contents \ {file} : dir'[c] = dir[c]
  BY <1>1, <1>2 DEF Grant, UploadTypes
<1>6. UploadTypes'
  BY <1>1, <1>3, <1>4, <1>5 DEF UploadTypes, checker
<1>7. PageInStep(p)'
  BY <1>1, <1>3, <1>4, <1>5 DEF PageInStep, Absent
<1> HIDE DEF file
<1>8. Onward
  BY <1>3, <1>5 DEF Onward, Absent
<1>9. ASSUME NEW c \in Contents, dir'[c] = "readable"
      PROVE  \/ \E q \in Pages : page'[q].at = "granting" /\ page'[q].file = c
             \/ mishaps' > 0
  <2>1. c # file /\ dir[c] = "readable"
    BY <1>5, <1>9
  <2>2. \/ \E q \in Pages : page[q].at = "granting" /\ page[q].file = c
        \/ mishaps > 0
    BY <2>1 DEF UploadsInStep, JudgedFairly
  <2>. QED  BY <1>3, <1>4, <2>1, <2>2 DEF file
<1>. QED  BY <1>3, <1>4, <1>6, <1>7, <1>8, <1>9, UploadStep

(* What a row inserted does to the rest.                                   *)
LEMMA InsertRow ==
    ASSUME UploadsInStep, NEW p \in Pages, page[p].at = "inserting", UNCHANGED << dir, checker >>,
           mishaps' = mishaps \/ mishaps' = mishaps + 1,
           rows' = Append(rows, Row(p))
    PROVE  /\ rows' \in Seq(BinaryType) /\ Onward
           /\ \E n \in DOMAIN rows' : rows'[n].file = page[p].file
           /\ queue' \subseteq DOMAIN rows' /\ early' \subseteq DOMAIN rows'
<1>1. rows \in Seq(BinaryType) /\ mishaps \in Nat
      /\ queue \subseteq DOMAIN rows /\ early \subseteq DOMAIN rows
  BY DEF UploadsInStep, UploadTypes
<1>2. Row(p) \in BinaryType /\ Row(p).file = page[p].file
  BY RowInPlace
<1>3. /\ rows' \in Seq(BinaryType)
      /\ DOMAIN rows' = DOMAIN rows \cup {Len(rows) + 1}
      /\ rows'[Len(rows) + 1] = Row(p)
      /\ \A n \in DOMAIN rows : rows'[n] = rows[n]
  BY <1>1, <1>2, AppendRow
<1>. QED  BY <1>1, <1>2, <1>3 DEF Onward, checker

LEMMA InsertIInv == ASSUME UploadsInStep, NEW p \in Pages, Insert(p) PROVE UploadsInStep'
<1>1. UploadTypes /\ PageInStep(p) /\ page[p].at = "inserting"
  BY DEF UploadsInStep, Insert, Goes
<1>2. UNCHANGED << temp, dir, mishaps, checker >> /\ rows' = Append(rows, Row(p))
  BY DEF Insert
<1>3. /\ page' \in [Pages -> PageType]
      /\ page'[p].at = "reading" /\ page'[p].file = page[p].file
      /\ page'[p].moved = page[p].moved /\ page'[p].says = page[p].says
      /\ \A q \in Pages \ {p} : page'[q] = page[q]
  BY <1>1, GoesTo DEF Insert, Goes, States
<1>4. /\ rows' \in Seq(BinaryType) /\ Onward
      /\ \E n \in DOMAIN rows' : rows'[n].file = page[p].file
      /\ queue' \subseteq DOMAIN rows' /\ early' \subseteq DOMAIN rows'
  BY <1>1, <1>2, InsertRow
<1>5. UploadTypes'
  BY <1>1, <1>2, <1>3, <1>4 DEF UploadTypes, checker
<1>6. PageInStep(p)'
  BY <1>1, <1>2, <1>3, <1>4 DEF PageInStep
<1>7. ASSUME NEW c \in Contents, dir'[c] = "readable"
      PROVE  \/ \E q \in Pages : page'[q].at = "granting" /\ page'[q].file = c
             \/ mishaps' > 0
  <2>1. \/ \E q \in Pages : page[q].at = "granting" /\ page[q].file = c
        \/ mishaps > 0
    BY <1>2, <1>7 DEF UploadsInStep, JudgedFairly
  <2>. QED  BY <1>1, <1>2, <1>3, <2>1
<1>. QED  BY <1>1, <1>2, <1>3, <1>4, <1>5, <1>6, <1>7, UploadStep

(* A call that throws, perhaps behind its effect.                          *)
LEMMA UploadFailsIInv == ASSUME UploadsInStep, NEW p \in Pages, UploadFails(p) PROVE UploadsInStep'
<1>1. UploadTypes /\ PageInStep(p) /\ mishaps \in Nat /\ mishaps' = mishaps + 1
  BY DEF UploadsInStep, UploadTypes, UploadFails, MayMiss
<1>2. /\ page' \in [Pages -> PageType]
      /\ page'[p].at = "idle" /\ page'[p].says = "error"
      /\ \A q \in Pages \ {p} : page'[q] = page[q]
  BY <1>1, FailsIdle DEF UploadFails
<1>3. UNCHANGED << temp, dir, checker >>
  BY DEF UploadFails
<1>4. PageInStep(p)'
  <2>1. mishaps' # 0
    BY <1>1
  <2>. QED  BY <1>2, <2>1 DEF PageInStep
<1>5. CASE rows' = rows
  BY <1>1, <1>2, <1>3, <1>4, <1>5, QuietStep DEF UploadTypes
<1>6. CASE page[p].at = "inserting" /\ rows' = Append(rows, Row(p))
  <2>1. /\ rows' \in Seq(BinaryType) /\ Onward
        /\ queue' \subseteq DOMAIN rows' /\ early' \subseteq DOMAIN rows'
    BY <1>1, <1>3, <1>6, InsertRow
  <2>2. UploadTypes'
    BY <1>1, <1>2, <1>3, <2>1 DEF UploadTypes, checker
  <2>3. mishaps' > 0
    BY <1>1
  <2>. QED  BY <1>2, <1>3, <1>4, <1>6, <2>1, <2>2, <2>3, UploadStep
<1>. QED  BY <1>5, <1>6 DEF UploadFails

(* The web server dies with all circuits.                                  *)
LEMMA WebCrashIInv == ASSUME UploadsInStep, WebCrash PROVE UploadsInStep'
<1>1. UploadTypes /\ mishaps \in Nat /\ mishaps' = mishaps + 1
  BY DEF UploadsInStep, UploadTypes, WebCrash, MayMiss
<1>2. UNCHANGED << temp, dir, rows, checker >>
  BY DEF WebCrash
<1>3. \A p \in Pages : page'[p] \in PageType /\ page'[p].at = "idle"
                       /\ page'[p].says = ""
  BY IdleType DEF WebCrash
<1>4. UploadTypes'
  <2>1. page' \in [Pages -> PageType]
    BY IdleType DEF WebCrash
  <2>. QED  BY <1>1, <1>2, <2>1 DEF UploadTypes, checker
<1>5. ASSUME NEW p \in Pages
      PROVE  PageInStep(p)'
  <2>1. mishaps' # 0
    BY <1>1
  <2>. QED  BY <1>3, <2>1 DEF PageInStep
<1>6. RowsInStep'
  BY <1>2 DEF UploadsInStep, RowsInStep, checker, IsFirst
<1>7. JudgedFairly'
  <2>1. mishaps' > 0
    BY <1>1
  <2>. QED  BY <1>2, <2>1 DEF UploadsInStep, JudgedFairly, checker
<1>. QED  BY <1>4, <1>5, <1>6, <1>7 DEF UploadsInStep

-----------------------------------------------------------------------------
(* The sanity checks                                                       *)

(* Most steps of the checks leave uploads and rows alone.                  *)
LEMMA CheckStep ==
    ASSUME UploadsInStep, UNCHANGED << uploads, rows >>, mishaps' = mishaps \/ mishaps' = mishaps + 1,
           check' \in CheckType, early' = early, RowsInStep',
           queue' \subseteq DOMAIN rows
    PROVE  UploadsInStep'
<1>1. UploadTypes /\ mishaps \in Nat
  BY DEF UploadsInStep, UploadTypes
<1>2. UploadTypes'
  BY <1>1 DEF UploadTypes, uploads
<1>3. mishaps' = 0 => mishaps = 0
  BY <1>1
<1>4. ASSUME NEW p \in Pages
      PROVE  PageInStep(p)'
  <2>1. PageInStep(p)
    BY DEF UploadsInStep
  <2>. QED  BY <1>3, <2>1 DEF PageInStep, uploads
<1>5. JudgedFairly'
  <2>1. mishaps > 0 => mishaps' > 0
    BY <1>1
  <2>. QED  BY <2>1 DEF UploadsInStep, JudgedFairly, uploads
<1>. QED  BY <1>2, <1>4, <1>5 DEF UploadsInStep

(* With an empty queue there is nothing to be known about it.              *)
LEMMA EmptyQueue ==
    ASSUME UploadsInStep, UNCHANGED << dir, rows >>, queue' = {}
    PROVE  RowsInStep'
BY DEF UploadsInStep, RowsInStep

LEMMA ConnectIInv == ASSUME UploadsInStep, Connect PROVE UploadsInStep'
<1>1. UploadTypes
  BY DEF UploadsInStep
<1>2. check' \in CheckType /\ check'.at = "asking"
  BY <1>1 DEF Connect, UploadTypes, CheckType
<1>3. RowsInStep'
  BY <1>2 DEF UploadsInStep, RowsInStep, Connect, uploads
<1>. QED  BY <1>1, <1>2, <1>3, CheckStep DEF Connect, UploadTypes

LEMMA AskIInv == ASSUME UploadsInStep, Ask PROVE UploadsInStep'
<1>1. UploadTypes
  BY DEF UploadsInStep
<1>2. check' \in CheckType /\ check'.at = "playing"
  BY <1>1 DEF Ask, UploadTypes, CheckType
<1>3. queue' \subseteq DOMAIN rows /\ \A n \in queue' : rows[n].verdict = Null
  BY DEF Ask, Unvalidated
<1>4. RowsInStep'
  BY <1>2, <1>3 DEF UploadsInStep, RowsInStep, Ask, uploads
<1>. QED  BY <1>2, <1>3, <1>4, CheckStep DEF Ask

LEMMA PlayThrowsIInv == ASSUME UploadsInStep, PlayThrows PROVE UploadsInStep'
<1>1. RowsInStep'
  BY EmptyQueue DEF PlayThrows, uploads
<1>. QED  BY <1>1, CheckStep, WaitingType DEF PlayThrows

(* Only the file of a row of this upload's own making is sure to be        *)
(* executable; a row whose file is not was found in place.                 *)
LEMMA PlayIInv == ASSUME UploadsInStep, Play PROVE UploadsInStep'
<1>1. UploadTypes /\ UNCHANGED << uploads, rows, queue, mishaps >>
  BY DEF UploadsInStep, Play
<1>2. PICK first \in queue :
        /\ IsFirst(first)
        /\ check' = [at |-> "saving", success |-> dir[rows[first].file] = "executable"
                                                 /\ rows[first].file \in Good]
        /\ early' = IF dir[rows[first].file] = "executable" THEN early
                    ELSE early \cup {first}
  BY DEF Play
<1>3. queue \subseteq DOMAIN rows /\ DOMAIN rows \subseteq Int /\ early \subseteq DOMAIN rows
  <2>1. rows \in Seq(BinaryType)
    BY <1>1 DEF UploadTypes
  <2>. QED  BY <1>1, <2>1 DEF UploadTypes
<1>4. /\ check' \in CheckType
      /\ check'.success <=> (dir[rows[first].file] = "executable" /\ rows[first].file \in Good)
  BY <1>2 DEF CheckType
<1>5. early \subseteq early' /\ early' \subseteq DOMAIN rows
      /\ (dir[rows[first].file] # "executable" => first \in early')
      /\ \A n \in early' : n \in early \/ (n = first /\ dir[rows[n].file] # "executable")
  BY <1>2, <1>3
<1>6. UploadTypes'
  BY <1>1, <1>4, <1>5 DEF UploadTypes, uploads
<1>7. ASSUME NEW p \in Pages
      PROVE  PageInStep(p)'
  <2>1. PageInStep(p)
    BY DEF UploadsInStep
  <2>. QED  BY <1>1, <2>1 DEF PageInStep, uploads
<1>8. RowsInStep'
  <2>1. ASSUME NEW n \in queue, IsFirst(n)
        PROVE  n = first
    BY <1>2, <1>3, <2>1 DEF IsFirst
  <2>2. (check'.success <=> (rows[first].file \in Good)) \/ first \in early'
    BY <1>4, <1>5
  <2>3. /\ \A n \in DOMAIN rows : /\ dir[rows[n].file] # Absent
                                  /\ rows[n].moved => dir[rows[n].file] = "executable"
        /\ \A n \in queue : rows[n].verdict = Null
    BY DEF UploadsInStep, RowsInStep
  <2>4. \A n \in queue : IsFirst(n)' => IsFirst(n)
    BY <1>1 DEF IsFirst
  <2>. QED  BY <1>1, <2>1, <2>2, <2>3, <2>4 DEF RowsInStep, uploads
<1>9. JudgedFairly'
  <2>1. \A n \in early' : ~rows[n].moved
    <3>1. \A n \in early : ~rows[n].moved
      BY DEF UploadsInStep, JudgedFairly
    <3>2. rows[first].moved => dir[rows[first].file] = "executable"
      BY <1>3 DEF UploadsInStep, RowsInStep
    <3>. QED  BY <1>5, <3>1, <3>2
  <2>2. \A n \in DOMAIN rows : rows[n].verdict # Null =>
          \/ (rows[n].verdict = "passed") <=> (rows[n].file \in Good)
          \/ n \in early' /\ ~rows[n].moved
    BY <1>5 DEF UploadsInStep, JudgedFairly
  <2>. QED  BY <1>1, <2>1, <2>2 DEF UploadsInStep, JudgedFairly, uploads
<1>. QED  BY <1>6, <1>7, <1>8, <1>9 DEF UploadsInStep

(* The verdict of the game that was played goes to the first row.          *)
LEMMA VerdictGiven ==
    ASSUME UploadsInStep, NEW n, SaveVerdict(n)
    PROVE  /\ n \in DOMAIN rows /\ rows' \in Seq(BinaryType) /\ DOMAIN rows' = DOMAIN rows
           /\ rows[n].verdict = Null
           /\ rows'[n].verdict = IF check.success THEN "passed" ELSE "failed"
           /\ \A m \in DOMAIN rows : /\ rows'[m].file = rows[m].file
                                     /\ rows'[m].moved = rows[m].moved
                                     /\ m # n => rows'[m] = rows[m]
<1>1. n \in DOMAIN rows /\ rows \in Seq(BinaryType) /\ rows[n].verdict = Null
  BY DEF UploadsInStep, UploadTypes, RowsInStep, SaveVerdict
<1>2. rows[n] \in BinaryType
  BY <1>1
<1> DEFINE verdict == IF check.success THEN "passed" ELSE "failed"
           r == [rows[n] EXCEPT !.verdict = verdict]
<1>3. r \in BinaryType /\ r.verdict = verdict /\ r.file = rows[n].file /\ r.moved = rows[n].moved
  BY <1>2 DEF BinaryType
<1>4. rows' = [rows EXCEPT ![n] = r]
  BY <1>1 DEF SaveVerdict
<1> HIDE DEF r
<1>5. /\ rows' \in Seq(BinaryType) /\ DOMAIN rows' = DOMAIN rows /\ rows'[n] = r
      /\ \A m \in DOMAIN rows : m # n => rows'[m] = rows[m]
  BY <1>1, <1>3, <1>4
<1>. QED  BY <1>1, <1>3, <1>5

LEMMA VerdictStep ==
    ASSUME UploadsInStep, NEW n, SaveVerdict(n), check.at = "saving", UNCHANGED << uploads, early >>,
           mishaps' = mishaps \/ mishaps' = mishaps + 1, check' \in CheckType,
           check'.at # "saving", queue' \subseteq queue \ {n}
    PROVE  UploadsInStep'
<1>1. UploadTypes /\ mishaps \in Nat /\ queue \subseteq DOMAIN rows
      /\ \A p \in Pages : page[p] \in PageType
  BY DEF UploadsInStep, UploadTypes
<1>2. /\ n \in DOMAIN rows /\ rows' \in Seq(BinaryType) /\ DOMAIN rows' = DOMAIN rows
      /\ rows'[n].verdict = IF check.success THEN "passed" ELSE "failed"
      /\ \A m \in DOMAIN rows : /\ rows'[m].file = rows[m].file
                                /\ rows'[m].moved = rows[m].moved
                                /\ m # n => rows'[m] = rows[m]
  BY VerdictGiven
<1>3. UploadTypes'
  BY <1>1, <1>2 DEF UploadTypes, uploads
<1>4. ASSUME NEW p \in Pages
      PROVE  PageInStep(p)'
  <2>1. PageInStep(p)
    BY DEF UploadsInStep
  <2>2. Onward
    BY <1>1, <1>2 DEF Onward, uploads
  <2>. QED  BY <2>1, <2>2, PageStays DEF uploads
<1>5. RowsInStep'
  BY <1>1, <1>2 DEF UploadsInStep, RowsInStep, uploads
<1>6. JudgedFairly'
  <2>1. ASSUME NEW m \in DOMAIN rows, rows'[m].verdict # Null
        PROVE  \/ (rows'[m].verdict = "passed") <=> (rows'[m].file \in Good)
               \/ m \in early' /\ ~rows'[m].moved
    <3>1. CASE m = n
      <4>1. (check.success <=> (rows[n].file \in Good)) \/ n \in early
        BY DEF UploadsInStep, RowsInStep, SaveVerdict
      <4>2. n \in early => ~rows[n].moved
        BY DEF UploadsInStep, JudgedFairly
      <4>. QED  BY <1>2, <3>1, <4>1, <4>2
    <3>2. CASE m # n
      BY <1>2, <2>1, <3>2 DEF UploadsInStep, JudgedFairly
    <3>. QED  BY <3>1, <3>2
  <2>2. \A m \in early' : ~rows'[m].moved
    BY <1>1, <1>2 DEF UploadsInStep, JudgedFairly, UploadTypes
  <2>3. mishaps > 0 => mishaps' > 0
    BY <1>1
  <2>4. \A c \in Contents : dir'[c] = "readable" =>
          \/ \E p \in Pages : page'[p].at = "granting" /\ page'[p].file = c
          \/ mishaps' > 0
    BY <2>3 DEF UploadsInStep, JudgedFairly, uploads
  <2>. QED  BY <1>2, <2>1, <2>2, <2>4 DEF JudgedFairly
<1>. QED  BY <1>3, <1>4, <1>5, <1>6 DEF UploadsInStep

LEMMA SaveIInv == ASSUME UploadsInStep, Save PROVE UploadsInStep'
<1>1. UploadTypes /\ check.at = "saving" /\ UNCHANGED << uploads, early, mishaps >>
  BY DEF UploadsInStep, Save
<1>2. PICK n \in queue : SaveVerdict(n) /\ queue' = queue \ {n}
  BY DEF Save
<1>3. check' \in CheckType /\ check'.at # "saving"
  BY <1>1 DEF Save, UploadTypes, CheckType
<1>. QED  BY <1>1, <1>2, <1>3, VerdictStep

LEMMA CheckFailsIInv == ASSUME UploadsInStep, CheckFails PROVE UploadsInStep'
<1>1. /\ UNCHANGED << uploads, early >> /\ mishaps' = mishaps + 1
      /\ check' = Waiting /\ queue' = {}
  BY DEF CheckFails, MayMiss
<1>2. CASE UNCHANGED rows
  <2>1. RowsInStep'
    BY <1>1, <1>2, EmptyQueue DEF uploads
  <2>. QED  BY <1>1, <1>2, <2>1, CheckStep, WaitingType
<1>3. CASE check.at = "saving" /\ \E n \in queue : SaveVerdict(n)
  <2>1. check' \in CheckType /\ check'.at # "saving"
    BY <1>1, WaitingType
  <2>2. PICK n \in queue : SaveVerdict(n)
    BY <1>3
  <2>3. queue' \subseteq queue \ {n}
    BY <1>1
  <2>. QED  BY <1>1, <1>3, <2>1, <2>2, <2>3, VerdictStep
<1>. QED  BY <1>2, <1>3 DEF CheckFails

-----------------------------------------------------------------------------

LEMMA UploadIInv == ASSUME UploadsInStep, NEW p \in Pages, Upload(p) PROVE UploadsInStep'
BY RefuseIInv, BeginIInv, UploadGiveUp, WrittenIInv, LookIInv, DeleteIInv, MoveIInv,
   GrantIInv, InsertIInv, SucceedIInv, UploadFailsIInv DEF Upload

LEMMA StutterIInv == ASSUME UploadsInStep, UNCHANGED uploadVars PROVE UploadsInStep'
<1>1. UNCHANGED << uploads, checker, rows, mishaps >>
  BY DEF uploadVars, uploads, checker
<1>2. UploadTypes' /\ RowsInStep' /\ JudgedFairly'
  BY <1>1 DEF UploadsInStep, UploadTypes, RowsInStep, JudgedFairly, uploads, checker, IsFirst
<1>3. ASSUME NEW p \in Pages
      PROVE  PageInStep(p)'
  <2>1. PageInStep(p)
    BY DEF UploadsInStep
  <2>. QED  BY <1>1, <2>1 DEF PageInStep, uploads
<1>. QED  BY <1>2, <1>3 DEF UploadsInStep

LEMMA NextIInv == UploadsInStep /\ [UploadNext]_uploadVars => UploadsInStep'
BY UploadIInv, WebCrashIInv, ConnectIInv, AskIInv, PlayIInv, PlayThrowsIInv, SaveIInv,
   CheckFailsIInv, StutterIInv DEF UploadNext

(* At every point of an upload and of a pass of the checks, what the       *)
(* invariant says of it holds.                                             *)
THEOREM UploadsStayInStep == UploadSpec => []UploadsInStep
BY UploadStarts, NextIInv, PTL DEF UploadSpec

(* What a team was told of its upload is true: its binary is in the table, *)
(* and every binary in the table is in its place (Upload.razor.cs:99-124). *)
THEOREM AcknowledgedUploadsAreKept == UploadSpec => []UploadsAreKept
<1>1. ASSUME UploadsInStep PROVE UploadsAreKept
  <2>1. ASSUME NEW p \in Pages, page[p].says = "succeeded"
        PROVE  \E n \in DOMAIN rows : rows[n].file = page[p].file
    BY <1>1, <2>1 DEF UploadsInStep, PageInStep
  <2>. QED  BY <1>1, <2>1 DEF UploadsAreKept, UploadsInStep, Acknowledged
<1>. QED  BY <1>1, UploadsStayInStep, PTL

(* No row is judged twice, also when the engine dies behind the update and *)
(* comes back (SanityCheckRunner.cs:17-53).                                *)
LEMMA BinariesAreJudgedOnce == UploadSpec => JudgedOnce
<1> DEFINE Final == \A n \in DOMAIN rows : rows[n].verdict # Null => rows'[n] = rows[n]
<1>1. ASSUME UploadsInStep, [UploadNext]_uploadVars PROVE Final
  <2>1. CASE UNCHANGED rows
    BY <2>1
  <2>2. ASSUME NEW n, SaveVerdict(n) PROVE Final
    BY <1>1, <2>2, VerdictGiven
  <2>3. ASSUME NEW p \in Pages, page[p].at = "inserting", rows' = Append(rows, Row(p))
        PROVE  Final
    <3>1. rows \in Seq(BinaryType)
      BY <1>1 DEF UploadsInStep, UploadTypes
    <3>2. Row(p) \in BinaryType
      BY <1>1, <2>3, RowInPlace
    <3>. QED  BY <2>3, <3>1, <3>2, AppendRow
  <2> HIDE DEF Final
  <2>4. ASSUME NEW p \in Pages, Upload(p) PROVE Final
    BY <2>1, <2>3, <2>4 DEF Upload, Refuse, Begin, LosePage, Written, Look, Delete, Move,
       Grant, Insert, Succeed, UploadFails, Goes
  <2>5. CASE WebCrash \/ Connect \/ Ask \/ Play \/ PlayThrows \/ UNCHANGED uploadVars
    BY <2>1, <2>5 DEF WebCrash, Connect, Ask, Play, PlayThrows, uploadVars
  <2>6. CASE Save \/ CheckFails
    BY <2>1, <2>2, <2>6 DEF Save, CheckFails
  <2>. QED  BY <1>1, <2>4, <2>5, <2>6 DEF UploadNext
<1>. QED  BY <1>1, UploadsStayInStep, PTL DEF JudgedOnce, UploadSpec

(* A verdict is final, and it is what the binary deserves, but for a row   *)
(* whose file another upload moved and had not made executable yet         *)
(* (Upload.razor.cs:107-114, SanityCheckRunner.cs:44-45).                  *)
THEOREM BinariesAreJudgedFairly == UploadSpec => VerdictsAreFair
<1>1. UploadsInStep => RowsInStep /\ JudgedFairly
  BY DEF UploadsInStep
<1>. QED  BY <1>1, UploadsStayInStep, BinariesAreJudgedOnce, PTL DEF VerdictsAreFair

-----------------------------------------------------------------------------
(* The tables and the scoreboard                                           *)

LEMMA AppendGame ==
    ASSUME NEW T, NEW s \in Seq(T), NEW x \in T
    PROVE  /\ Append(s, x) \in Seq(T)
           /\ DOMAIN Append(s, x) = DOMAIN s \cup {Len(s) + 1}
           /\ Len(s) + 1 \notin DOMAIN s
           /\ Append(s, x)[Len(s) + 1] = x
           /\ \A n \in DOMAIN s : Append(s, x)[n] = s[n]
OBVIOUS

LEMMA ReplaceGame ==
    ASSUME NEW T, NEW s \in Seq(T), NEW i \in DOMAIN s, NEW x \in T
    PROVE  /\ [s EXCEPT ![i] = x] \in Seq(T) /\ DOMAIN [s EXCEPT ![i] = x] = DOMAIN s
           /\ [s EXCEPT ![i] = x][i] = x
           /\ \A n \in DOMAIN s : n # i => [s EXCEPT ![i] = x][n] = s[n]
OBVIOUS

-----------------------------------------------------------------------------
(* The tables                                                              *)

LEMMA InitTables == Init => TablesInStep
<1> SUFFICES ASSUME Init PROVE TablesInStep
  OBVIOUS
<1>1. binary \in [Teams -> Nat] /\ roster \in [Rounds -> [Teams -> Nat]]
  BY DEF Init
<1>2. elo = [r \in Rounds |-> elo[r]]
  BY DEF Init
<1>3. \A r \in Rounds : Entered(r) = {}
  BY DEF Init, Entered
<1>4. game \in Seq(RowType) /\ DOMAIN game = {}
  BY DEF Init
<1>. QED  BY <1>1, <1>2, <1>3, <1>4 DEF Init, TablesInStep

(* What a step leaves as it was.                                           *)
Frozen ==
    /\ started \subseteq started' /\ ended \subseteq ended'
    /\ \A t \in Teams : binary[t] <= binary'[t]
    /\ \A r \in started : roster'[r] = roster[r]
    /\ \A r \in ended : elo'[r] = elo[r]
    /\ \A g \in DOMAIN game :
         /\ g \in DOMAIN game' /\ game'[g].round = game[g].round
         /\ game[g].done => game'[g].done
         /\ game[g].round \in ended => game'[g].done = game[g].done
    /\ \A g \in DOMAIN game' : g \in DOMAIN game \/ game'[g].round \notin ended

LEMMA ValidateStep ==
    ASSUME TablesInStep, NEW t \in Teams, Validate(t)
    PROVE  TablesInStep' /\ Frozen
<1>1. /\ binary[t] + 1 \in Nat /\ binary \in [Teams -> Nat]
      /\ binary' = [binary EXCEPT ![t] = binary[t] + 1]
      /\ UNCHANGED << started, ended, roster, elo, game >>
  BY DEF Validate, TablesInStep
<1>2. binary' \in [Teams -> Nat] /\ \A u \in Teams : binary[u] <= binary'[u]
  BY <1>1
<1>3. Frozen
  BY <1>1, <1>2 DEF Frozen
<1>4. TablesInStep'
  BY <1>1, <1>2 DEF TablesInStep, Entered
<1>. QED  BY <1>3, <1>4

LEMMA StartRoundStep ==
    ASSUME TablesInStep, NEW r \in Rounds, StartRound(r)
    PROVE  TablesInStep' /\ Frozen
<1>1. /\ r \notin started /\ started' = started \cup {r}
      /\ started = ended /\ 1 .. r - 1 \subseteq ended
      /\ UNCHANGED << ended, binary, elo, game >>
  BY DEF StartRound
<1>2. PICK entry \in [Teams -> 0 .. MaxUploads] : roster' = [roster EXCEPT ![r] = entry]
  BY DEF StartRound
<1>3. /\ roster' \in [Rounds -> [Teams -> Nat]]
      /\ \A q \in Rounds : q # r => roster'[q] = roster[q]
  <2>1. entry \in [Teams -> Nat]
    OBVIOUS
  <2>. QED  BY <1>2, <2>1 DEF TablesInStep
<1>4. \A g \in DOMAIN game : game[g].round \in started
  BY DEF TablesInStep
<1>5. Frozen
  <2>1. \A q \in started : roster'[q] = roster[q]
    BY <1>1, <1>3 DEF TablesInStep
  <2>2. \A t \in Teams : binary[t] <= binary'[t]
    BY <1>1 DEF TablesInStep
  <2>. QED  BY <1>1, <2>1, <2>2 DEF Frozen
<1>6. TablesInStep'
  <2>1. ASSUME NEW q \in Rounds, Entered(q)' # {}
        PROVE  q \in started'
    BY <1>1, <1>3, <2>1 DEF TablesInStep, Entered
  <2>. QED  BY <1>1, <1>3, <1>4, <2>1 DEF TablesInStep
<1>. QED  BY <1>5, <1>6

LEMMA InsertGameStep ==
    ASSUME TablesInStep, NEW r \in Rounds, InsertGame(r)
    PROVE  TablesInStep' /\ Frozen
<1>1. /\ r \in started /\ r \notin ended
      /\ UNCHANGED << started, ended, binary, roster, elo >>
  BY DEF InsertGame, Active
<1>2. PICK pair \in SUBSET Teams :
        game' = Append(game, [round |-> r, teams |-> pair, done |-> FALSE,
                              gain |-> [t \in Teams |-> 0]])
  BY DEF InsertGame, kSubset, Entered
<1> DEFINE row == [round |-> r, teams |-> pair, done |-> FALSE, gain |-> [t \in Teams |-> 0]]
<1>3. row \in RowType /\ row.round = r
  BY DEF RowType
<1> HIDE DEF row
<1>4. game \in Seq(RowType) /\ game' = Append(game, row)
  BY <1>2 DEF TablesInStep, row
<1>5. /\ game' \in Seq(RowType)
      /\ DOMAIN game' = DOMAIN game \cup {Len(game) + 1}
      /\ game'[Len(game) + 1].round = r
      /\ \A n \in DOMAIN game : game'[n] = game[n]
  BY <1>3, <1>4, AppendGame
<1>6. Frozen
  <2>1. \A t \in Teams : binary[t] <= binary'[t]
    BY <1>1 DEF TablesInStep
  <2>. QED  BY <1>1, <1>5, <2>1 DEF Frozen
<1>7. TablesInStep'
  <2>1. \A g \in DOMAIN game' : game'[g].round \in started'
    BY <1>1, <1>5 DEF TablesInStep
  <2>. QED  BY <1>1, <1>5, <2>1 DEF TablesInStep, Entered
<1>. QED  BY <1>6, <1>7

LEMMA SaveGameStep ==
    ASSUME TablesInStep, NEW g \in DOMAIN game, SaveGame(g)
    PROVE  TablesInStep' /\ Frozen
<1>1. /\ game[g].round \notin ended /\ ~game[g].done
      /\ UNCHANGED << started, ended, binary, roster, elo >>
  BY DEF SaveGame, Active
<1>2. game \in Seq(RowType) /\ game[g] \in RowType
  BY DEF TablesInStep
<1>3. PICK winner \in game[g].teams, d \in Gains :
        game' = [game EXCEPT
          ![g].done = TRUE,
          ![g].gain = [t \in Teams |-> IF t \notin game[g].teams THEN 0
                                       ELSE IF t = winner THEN d ELSE -d]]
  BY DEF SaveGame
<1> DEFINE gains == [t \in Teams |-> IF t \notin game[g].teams THEN 0
                                     ELSE IF t = winner THEN d ELSE -d]
           row == [game[g] EXCEPT !.done = TRUE, !.gain = gains]
<1>4. gains \in [Teams -> Gains \cup {-e : e \in Gains} \cup {0}]
  OBVIOUS
<1>5. game' = [game EXCEPT ![g] = row]
  BY <1>2, <1>3
<1> HIDE DEF gains
<1>6. row \in RowType /\ row.round = game[g].round /\ row.done
  BY <1>2, <1>4 DEF RowType
<1> HIDE DEF row
<1>7. /\ game' \in Seq(RowType) /\ DOMAIN game' = DOMAIN game
      /\ game'[g] = row /\ \A n \in DOMAIN game : n # g => game'[n] = game[n]
  BY <1>2, <1>5, <1>6, ReplaceGame
<1>8. Frozen
  <2>1. \A t \in Teams : binary[t] <= binary'[t]
    BY <1>1 DEF TablesInStep
  <2>2. ASSUME NEW n \in DOMAIN game
        PROVE  /\ n \in DOMAIN game' /\ game'[n].round = game[n].round
               /\ game[n].done => game'[n].done
               /\ game[n].round \in ended => game'[n].done = game[n].done
    BY <1>1, <1>6, <1>7
  <2>. QED  BY <1>1, <1>7, <2>1, <2>2 DEF Frozen
<1>9. TablesInStep'
  <2>1. \A n \in DOMAIN game' : game'[n].round \in started'
    BY <1>1, <1>6, <1>7 DEF TablesInStep
  <2>. QED  BY <1>1, <1>7, <2>1 DEF TablesInStep, Entered
<1>. QED  BY <1>8, <1>9

LEMMA FinishRoundStep ==
    ASSUME TablesInStep, NEW r \in Rounds, FinishRound(r)
    PROVE  TablesInStep' /\ Frozen
<1>1. /\ r \in started /\ r \notin ended /\ ended' = ended \cup {r}
      /\ UNCHANGED << started, binary, roster, game >>
  BY DEF FinishRound, Active
<1>2. elo' = [q \in Rounds |-> elo'[q]] /\ \A q \in Rounds : q # r => elo'[q] = elo[q]
  BY DEF FinishRound, TablesInStep
<1>3. Frozen
  <2>1. \A t \in Teams : binary[t] <= binary'[t]
    BY <1>1 DEF TablesInStep
  <2>2. \A q \in ended : elo'[q] = elo[q]
    BY <1>1, <1>2 DEF TablesInStep
  <2>. QED  BY <1>1, <2>1, <2>2 DEF Frozen
<1>4. TablesInStep'
  BY <1>1, <1>2 DEF TablesInStep, Entered
<1>. QED  BY <1>3, <1>4

LEMMA TablesStep ==
    ASSUME TablesInStep, Next \/ UNCHANGED tables
    PROVE  TablesInStep' /\ Frozen
<1>1. CASE UNCHANGED tables
  <2>1. UNCHANGED << started, ended, binary, roster, elo, game >>
    BY <1>1 DEF tables
  <2>2. TablesInStep'
    BY <2>1 DEF TablesInStep, Entered
  <2>3. \A t \in Teams : binary[t] <= binary'[t]
    BY <2>1 DEF TablesInStep
  <2>. QED  BY <2>1, <2>2, <2>3 DEF Frozen
<1>2. CASE Next
  BY <1>2, ValidateStep, StartRoundStep, InsertGameStep, SaveGameStep,
     FinishRoundStep DEF Next
<1>. QED  BY <1>1, <1>2

(* The tables stay in step whoever reads them: rounds go by one after the  *)
(* other, and nobody enters or plays in a round that has not started.      *)
THEOREM TablesStayInStep == Spec => []TablesInStep
<1>1. TablesInStep /\ [Next]_tables => TablesInStep'
  BY TablesStep
<1>. QED  BY <1>1, InitTables, PTL DEF Spec
-----------------------------------------------------------------------------
(* What is true of a cache stays true                                      *)

LEMMA LinesStay ==
    ASSUME TablesInStep, Frozen, NEW r \in started
    PROVE  /\ Entered(r)' = Entered(r)
           /\ \A t \in Teams : Running(r, t)' = Running(r, t)
           /\ r \in ended => \A t \in Teams : Result(r, t)' = Result(r, t)
<1>1. r \in Rounds /\ roster'[r] = roster[r]
  BY DEF TablesInStep, Frozen
<1>2. r > 1 => /\ r - 1 \in ended /\ r - 1 \in started
               /\ roster'[r - 1] = roster[r - 1] /\ elo'[r - 1] = elo[r - 1]
  <2>1. r \in Int
    BY <1>1 DEF Rounds
  <2>2. r > 1 => r - 1 \in 1 .. r - 1
    BY <2>1
  <2>3. r > 1 => r - 1 \in ended
    BY <2>2 DEF TablesInStep
  <2>. QED  BY <2>3 DEF TablesInStep, Frozen
<1>3. ASSUME NEW t \in Teams
      PROVE  EndingBefore(r, t)' = EndingBefore(r, t) /\ StartingElo(r, t)' = StartingElo(r, t)
  BY <1>2 DEF EndingBefore, StartingElo, Entered
<1>4. ASSUME NEW t \in Teams
      PROVE  Running(r, t)' = Running(r, t)
  BY <1>1, <1>3 DEF Running, Line
<1>5. ASSUME r \in ended, NEW t \in Teams
      PROVE  Result(r, t)' = Result(r, t)
  <2>1. elo'[r] = elo[r]
    BY <1>5 DEF Frozen
  <2>. QED  BY <1>1, <1>3, <2>1 DEF Result, Line
<1>. QED  BY <1>1, <1>4, <1>5 DEF Entered

LEMMA GamesStay ==
    ASSUME TablesInStep, Frozen, NEW r \in ended
    PROVE  GamesIn(r)' = GamesIn(r)
BY DEF GamesIn, Frozen

LEMMA RoundsStayTrue ==
    ASSUME Frozen, NEW c, RoundsAreTrue(c)
    PROVE  RoundsAreTrue(c)'
BY DEF Frozen, RoundsAreTrue

LEMMA RowsStayTrue ==
    ASSUME TablesInStep, TablesInStep', Frozen, NEW c, RoundsAreTrue(c), RowsAreTrue(c)
    PROVE  RowsAreTrue(c)'
<1> DEFINE n == c.newest
<1>1. ASSUME NEW r \in 1 .. n - 1
      PROVE  c.teams[r] = {Result(r, t)' : t \in Entered(r)'}
  <2>1. r \in ended /\ r \in started
    BY DEF RoundsAreTrue, TablesInStep
  <2>2. c.teams[r] = {Result(r, t) : t \in Entered(r)}
    BY DEF RowsAreTrue
  <2>. QED  BY <2>1, <2>2, LinesStay DEF Entered
<1> DEFINE running == {Running(n, t) : t \in Entered(n)}
           result == {Result(n, t) : t \in Entered(n)}
           final == IF n \in ended THEN result ELSE {}
           running2 == {Running(n, t)' : t \in Entered(n)'}
           result2 == {Result(n, t)' : t \in Entered(n)'}
           final2 == IF n \in ended' THEN result2 ELSE {}
<1>2. n \in started => running2 = running
  BY LinesStay DEF Entered
<1>3. n \in ended => n \in ended' /\ result2 = result
  <2>1. n \in ended => n \in started /\ n \in ended'
    BY DEF TablesInStep, Frozen
  <2>. QED  BY <2>1, LinesStay DEF Entered
<1>4. n \in (1 .. n) \ c.started => n \in started \/ (running = {} /\ final = {})
  <2>1. n \in (1 .. n) \ c.started => n \in Rounds
    BY DEF RoundsAreTrue
  <2>2. n \in ended => n \in started
    BY DEF TablesInStep
  <2>3. n \in Rounds \ started => Entered(n) = {}
    BY DEF TablesInStep
  <2>. QED  BY <2>1, <2>2, <2>3
<1>5. n \in c.started => n \in started
  BY DEF RoundsAreTrue
<1>6. ASSUME NEW e, Validated(e)
      PROVE  Validated(e)'
  <2>1. e.team \in Teams /\ e.binary \in Int /\ 1 <= e.binary /\ e.binary <= binary[e.team]
    BY <1>6 DEF Validated, TablesInStep
  <2>2. binary[e.team] \in Nat /\ binary'[e.team] \in Nat /\ binary[e.team] <= binary'[e.team]
    BY <2>1 DEF TablesInStep, Frozen
  <2>. QED  BY <2>1, <2>2 DEF Validated
<1>7. /\ n \in c.started => /\ Listed(c, n, FALSE) = {}
                            /\ \/ Listed(c, n, TRUE) = running
                               \/ n \in ended /\ Listed(c, n, TRUE) = final
      /\ n \in (1 .. n) \ c.started =>
           /\ \A e \in Listed(c, n, FALSE) : Validated(e)
           /\ Listed(c, n, TRUE) \subseteq running \cup final
  BY DEF RowsAreTrue
<1>8. /\ n \in c.started => /\ Listed(c, n, FALSE) = {}
                            /\ \/ Listed(c, n, TRUE) = running2
                               \/ n \in ended' /\ Listed(c, n, TRUE) = final2
      /\ n \in (1 .. n) \ c.started =>
           /\ \A e \in Listed(c, n, FALSE) : Validated(e)'
           /\ Listed(c, n, TRUE) \subseteq running2 \cup final2
  <2> HIDE DEF running, result, running2, result2
  <2>. QED  BY <1>2, <1>3, <1>4, <1>5, <1>6, <1>7
<1>. QED  BY <1>1, <1>8 DEF RowsAreTrue, Listed

LEMMA GamesStayTrue ==
    ASSUME TablesInStep, Frozen, NEW c, RoundsAreTrue(c), GamesAreTrue(c)
    PROVE  GamesAreTrue(c)'
<1>1. \A r \in 1 .. c.newest - 1 : r \in ended
  BY DEF RoundsAreTrue
<1>2. \A r \in 1 .. c.newest - 1 : c.games[r] = GamesIn(r)'
  BY <1>1, GamesStay DEF GamesAreTrue
<1>3. ASSUME NEW r \in 1 .. c.newest, NEW e \in c.games[r]
      PROVE  e.id \in DOMAIN game' /\ game'[e.id].round = r /\ (e.done => game'[e.id].done)
  BY DEF GamesAreTrue, Frozen
<1>. QED  BY <1>2, <1>3 DEF GamesAreTrue
-----------------------------------------------------------------------------
(* The cache                                                               *)

LEMMA ScoreStarts == ScoreInit => IInv
<1> SUFFICES ASSUME ScoreInit PROVE IInv
  OBVIOUS
<1>1. TablesInStep
  BY InitTables DEF ScoreInit
<1>2. /\ at = "delay" /\ latest = Nobody /\ draft = NoCache /\ cache = NoCache
  BY DEF ScoreInit, Fresh
<1>3. NoCache.newest = 0 /\ NoCache.started = {} /\ IsCache(NoCache)
  BY DEF NoCache, IsCache
<1>4. 1 .. 0 = {} /\ 1 .. 0 - 1 = {}
  OBVIOUS
<1>5. PublishedIsTrue
  BY <1>2, <1>3, <1>4 DEF PublishedIsTrue, RoundsAreTrue, RowsAreTrue, GamesAreTrue
<1>6. DraftInStep
  <2>1. latest \in [Teams -> Nat] /\ \A t \in Teams : latest[t] <= binary[t]
    BY <1>1, <1>2 DEF Nobody, TablesInStep
  <2>. QED  BY <1>2, <1>3, <2>1 DEF DraftInStep
<1>. QED  BY <1>1, <1>5, <1>6 DEF IInv

LEMMA PublishedStays ==
    ASSUME IInv, Frozen, TablesInStep', UNCHANGED cache
    PROVE  PublishedIsTrue'
<1>1. RoundsAreTrue(cache) /\ RowsAreTrue(cache) /\ GamesAreTrue(cache) /\ TablesInStep
  BY DEF IInv, PublishedIsTrue
<1>. QED  BY <1>1, RoundsStayTrue, RowsStayTrue, GamesStayTrue DEF PublishedIsTrue

LEMMA EngineIInv ==
    ASSUME IInv, Next \/ UNCHANGED tables, UNCHANGED << at, latest, draft, cache >>
    PROVE  IInv'
<1>1. TablesInStep /\ TablesInStep' /\ Frozen
  BY TablesStep DEF IInv
<1>2. PublishedIsTrue'
  BY <1>1, PublishedStays
<1>3. ASSUME NEW e, Validated(e)
      PROVE  Validated(e)'
  <2>1. e.team \in Teams /\ e.binary \in Int /\ 1 <= e.binary /\ e.binary <= binary[e.team]
    BY <1>1, <1>3 DEF Validated, TablesInStep
  <2>2. binary[e.team] \in Nat /\ binary'[e.team] \in Nat /\ binary[e.team] <= binary'[e.team]
    BY <1>1, <2>1 DEF TablesInStep, Frozen
  <2>. QED  BY <2>1, <2>2 DEF Validated
<1>4. \A t \in Teams : latest'[t] <= binary'[t]
  <2>1. ASSUME NEW t \in Teams PROVE latest[t] <= binary'[t]
    <3>1. latest[t] \in Nat /\ binary[t] \in Nat /\ binary'[t] \in Nat
          /\ latest[t] <= binary[t] /\ binary[t] <= binary'[t]
      BY <1>1 DEF IInv, DraftInStep, TablesInStep, Frozen
    <3>. QED  BY <3>1
  <2>. QED  BY <2>1
<1>5. RoundsAreTrue(draft) => RoundsAreTrue(draft)'
  BY <1>1, RoundsStayTrue
<1>6. RoundsAreTrue(draft) /\ RowsAreTrue(draft) => RowsAreTrue(draft)'
  BY <1>1, RowsStayTrue
<1>7. RoundsAreTrue(draft) /\ GamesAreTrue(draft) => GamesAreTrue(draft)'
  BY <1>1, GamesStayTrue
<1>8. /\ RoundsKept(cache, draft) => RoundsKept(cache, draft)'
      /\ RowsKept(cache, draft) => RowsKept(cache, draft)'
      /\ GamesKept(cache, draft) => GamesKept(cache, draft)'
      /\ IsCache(draft) => IsCache(draft)'
  BY DEF RoundsKept, RowsKept, GamesKept, IsCache, Listed
<1>9. DraftInStep'
  BY <1>3, <1>4, <1>5, <1>6, <1>7, <1>8 DEF IInv, DraftInStep
<1>. QED  BY <1>1, <1>2, <1>9 DEF IInv
LEMMA ReadingStep ==
    ASSUME IInv, UNCHANGED << tables, cache >>, DraftInStep'
    PROVE  IInv'
<1>1. TablesInStep' /\ Frozen
  BY TablesStep DEF IInv
<1>. QED  BY <1>1, PublishedStays DEF IInv

LEMMA ScoreGiveUp ==
    ASSUME IInv, GiveUp, UNCHANGED << tables, cache >>
    PROVE  IInv'
<1>1. at' = "delay" /\ draft' = NoCache /\ latest' = Nobody /\ binary' = binary
  BY DEF GiveUp, tables
<1>2. latest' \in [Teams -> Nat] /\ \A t \in Teams : latest'[t] <= binary'[t]
  BY <1>1 DEF IInv, TablesInStep, Nobody
<1>3. DraftInStep'
  BY <1>1, <1>2 DEF DraftInStep, IsCache, NoCache
<1>. QED  BY <1>3, ReadingStep

LEMMA ReadRoundsIInv == ASSUME IInv, ReadRounds PROVE IInv'
<1>1. /\ at' = "binaries" /\ UNCHANGED << tables, cache, latest >>
      /\ UNCHANGED << started, ended, binary >>
  BY DEF ReadRounds, tables
<1>2. PICK newest \in Rounds :
        /\ \A q \in 1 .. newest - 1 : q \in ended
        /\ newest \notin ended \/ newest = NumRounds
        /\ draft' = [newest |-> newest, started |-> started \cap 1 .. newest,
                     teams |-> [r \in 1 .. newest |-> {}],
                     games |-> [r \in 1 .. newest |-> {}]]
  BY DEF ReadRounds
<1>3. /\ draft'.newest = newest /\ draft'.started = started \cap 1 .. newest
      /\ draft'.teams = [r \in 1 .. newest |-> {}] /\ IsCache(draft)'
  BY <1>2 DEF IsCache
<1>4. newest \in Int /\ newest >= 1 /\ newest # 0
  BY DEF Rounds
<1>5. RoundsAreTrue(draft)'
  BY <1>1, <1>2, <1>3, <1>4 DEF RoundsAreTrue, IInv, TablesInStep
<1>6. RoundsKept(cache, draft)'
  <2>1. /\ cache.newest \in Rounds \cup {0} /\ 1 .. cache.newest - 1 \subseteq ended
        /\ cache.started \subseteq (1 .. cache.newest) \cap started
    BY DEF IInv, PublishedIsTrue, RoundsAreTrue
  <2>2. cache.newest <= newest
    <3>1. CASE cache.newest = 0
      BY <1>4, <3>1
    <3>2. CASE cache.newest \in Rounds /\ newest < cache.newest
      <4>1. newest \in 1 .. cache.newest - 1
        BY <1>4, <3>2 DEF Rounds
      <4>2. newest = NumRounds
        BY <1>2, <2>1, <4>1
      <4>. QED  BY <3>2, <4>2 DEF Rounds
    <3>. QED  BY <1>4, <2>1, <3>1, <3>2 DEF Rounds
  <2>3. cache.started \subseteq started \cap 1 .. newest
    <3>1. cache.newest \in Int
      BY <2>1 DEF Rounds
    <3>. QED  BY <1>4, <2>1, <2>2, <3>1
  <2>. QED  BY <1>1, <1>3, <2>2, <2>3 DEF RoundsKept
<1>7. DraftInStep'
  <2>1. latest' \in [Teams -> Nat] /\ \A t \in Teams : latest'[t] <= binary'[t]
    BY <1>1 DEF IInv, DraftInStep
  <2>. QED  BY <1>1, <1>3, <1>4, <1>5, <1>6, <2>1 DEF DraftInStep
<1>. QED  BY <1>1, <1>7, ReadingStep

LEMMA ReadBinariesIInv == ASSUME IInv, ReadBinaries PROVE IInv'
<1>1. /\ at = "binaries" /\ at' = "teams" /\ latest' = binary /\ UNCHANGED << draft, cache, tables >>
      /\ UNCHANGED << started, ended, binary >>
  BY DEF ReadBinaries, tables
<1>2. latest' \in [Teams -> Nat] /\ \A t \in Teams : latest'[t] <= binary'[t]
  BY <1>1 DEF IInv, TablesInStep
<1>3. RoundsAreTrue(draft)' /\ RoundsKept(cache, draft)' /\ IsCache(draft)'
  BY <1>1 DEF IInv, DraftInStep, RoundsAreTrue, RoundsKept, IsCache
<1>4. DraftInStep'
  BY <1>1, <1>2, <1>3 DEF IInv, DraftInStep
<1>. QED  BY <1>1, <1>4, ReadingStep

LEMMA ReadTeamsIInv == ASSUME IInv, ReadTeams PROVE IInv'
<1> DEFINE n == draft.newest
           previews == {Preview(t) : t \in {u \in Teams : latest[u] # 0}}
<1>1. /\ at = "teams" /\ at' = "roster" /\ UNCHANGED << latest, cache, tables >>
      /\ UNCHANGED << started, ended, binary >>
      /\ draft' = IF n \in draft.started THEN draft
                  ELSE [draft EXCEPT !.teams[n] = previews]
  BY DEF ReadTeams, tables
<1>2. /\ n # 0 /\ RoundsAreTrue(draft) /\ RoundsKept(cache, draft) /\ IsCache(draft)
      /\ draft.teams = [r \in 1 .. n |-> {}]
      /\ latest \in [Teams -> Nat] /\ \A t \in Teams : latest[t] <= binary[t]
  BY <1>1 DEF IInv, DraftInStep
<1>3. n \in Int /\ n >= 1 /\ n \in 1 .. n /\ n \notin 1 .. n - 1 /\ 1 .. n - 1 \subseteq 1 .. n
  BY <1>2 DEF RoundsAreTrue, Rounds
<1>4. /\ draft'.newest = n /\ draft'.started = draft.started /\ IsCache(draft)'
      /\ \A r \in 1 .. n - 1 : draft'.teams[r] = {}
      /\ draft'.teams[n] = IF n \in draft.started THEN {} ELSE previews
  <2>1. CASE n \in draft.started
    BY <1>1, <1>2, <1>3, <2>1 DEF IsCache
  <2>2. CASE n \notin draft.started
    <3>1. draft' = [draft EXCEPT !.teams[n] = previews]
      BY <1>1, <2>2
    <3> HIDE DEF previews
    <3>2. draft' = [newest |-> n, started |-> draft.started,
                    teams |-> [draft.teams EXCEPT ![n] = previews],
                    games |-> draft.games]
      BY <1>2, <3>1 DEF IsCache
    <3>3. /\ draft'.teams = [draft.teams EXCEPT ![n] = previews]
          /\ draft'.newest = n /\ draft'.started = draft.started /\ IsCache(draft)'
      BY <3>2 DEF IsCache
    <3> HIDE DEF n
    <3>. QED  BY <1>2, <1>3, <2>2, <3>3
  <2>. QED  BY <2>1, <2>2
<1>5. ASSUME NEW e \in previews
      PROVE  e \in PreviewType /\ Validated(e)
  <2>1. PICK t \in Teams : latest[t] # 0 /\ e = Preview(t)
    OBVIOUS
  <2>2. latest[t] \in Nat \ {0} /\ latest[t] <= binary[t] /\ binary[t] \in Nat
    BY <1>2, <2>1 DEF IInv, TablesInStep
  <2>3. latest[t] \in 1 .. binary[t]
    BY <2>2
  <2>. QED  BY <2>1, <2>2, <2>3 DEF Preview, PreviewType, Validated
<1> HIDE DEF previews
<1>6. RoundsAreTrue(draft)' /\ RoundsKept(cache, draft)'
  BY <1>1, <1>2, <1>4 DEF RoundsAreTrue, RoundsKept
<1>7. DraftInStep'
  <2>1. /\ draft'.newest \in draft'.started => draft'.teams[draft'.newest] = {}
        /\ draft'.teams[draft'.newest] \subseteq PreviewType
        /\ \A e \in draft'.teams[draft'.newest] : Validated(e)'
    BY <1>1, <1>4, <1>5 DEF Validated
  <2> HIDE DEF n
  <2>. QED  BY <1>1, <1>2, <1>4, <1>6, <2>1 DEF DraftInStep, n
<1>. QED  BY <1>1, <1>7, ReadingStep
(* A final rating is shown only of a round that has ended.                 *)
LEMMA FinalLines ==
    ASSUME NEW c, RoundsAreTrue(c), RowsAreTrue(c), NEW r \in 1 .. c.newest,
           NEW e \in Listed(c, r, TRUE), e.ending # Unknown
    PROVE  r \in ended /\ \E t \in Entered(r) : e = Result(r, t)
<1> DEFINE n == c.newest
<1>1. n \in Int
  BY DEF RoundsAreTrue, Rounds
<1>2. CASE r = n
  <2>1. \A t \in Teams : Running(n, t).ending = Unknown
    BY DEF Running, Line
  <2>2. Entered(n) \subseteq Teams
    BY DEF Entered
  <2>3. \/ \E t \in Entered(n) : e = Running(n, t)
        \/ n \in ended /\ \E t \in Entered(n) : e = Result(n, t)
    BY <1>2 DEF RowsAreTrue
  <2>. QED  BY <1>2, <2>1, <2>2, <2>3
<1>3. CASE r # n
  <2>1. r \in 1 .. n - 1
    BY <1>1, <1>3
  <2>2. r \in ended /\ c.teams[r] = {Result(r, t) : t \in Entered(r)}
    BY <2>1 DEF RoundsAreTrue, RowsAreTrue
  <2>. QED  BY <2>2 DEF Listed
<1>. QED  BY <1>2, <1>3

LEMMA ReadRosterIInv == ASSUME IInv, ReadRoster PROVE IInv'
<1> DEFINE n == draft.newest
           drawn(r) == {UpdatedPreview(e) : e \in draft.teams[r]}
                           \cup {RowOf(r, t) : t \in Entered(r)}
           table == [r \in 1 .. n |-> drawn(r)]
<1>1. at = "roster" /\ UNCHANGED << tables, cache >>
      /\ UNCHANGED << started, ended, binary, roster, elo, game >>
  BY DEF ReadRoster, tables
<1>2. CASE GiveUp
  BY <1>1, <1>2, ScoreGiveUp
<1>3. CASE draft' = [draft EXCEPT !.teams = table] /\ at' = "games" /\ UNCHANGED latest
  <2>1. /\ n # 0 /\ RoundsAreTrue(draft) /\ RoundsKept(cache, draft) /\ IsCache(draft)
        /\ latest \in [Teams -> Nat] /\ \A t \in Teams : latest[t] <= binary[t]
        /\ \A r \in 1 .. n - 1 : draft.teams[r] = {}
        /\ n \in draft.started => draft.teams[n] = {}
        /\ draft.teams[n] \subseteq PreviewType
        /\ \A e \in draft.teams[n] : Validated(e)
    BY <1>1 DEF IInv, DraftInStep
  <2>2. /\ n \in Rounds /\ n \in Int /\ n >= 1 /\ n \in 1 .. n
        /\ \A r \in 1 .. n - 1 : r \in 1 .. n /\ r \in ended
    BY <2>1 DEF RoundsAreTrue, Rounds
  <2>3. /\ draft'.newest = n /\ draft'.started = draft.started
        /\ draft'.teams = table /\ IsCache(draft)'
    <3> HIDE DEF table, n
    <3>1. draft' = [newest |-> draft.newest, started |-> draft.started,
                    teams |-> table, games |-> draft.games]
      BY <1>3, <2>1 DEF IsCache
    <3>. QED  BY <3>1 DEF IsCache, n
  <2>4. \A r \in 1 .. n : draft'.teams[r] = drawn(r)
    BY <2>3
  <2>5. RoundsAreTrue(draft)' /\ RoundsKept(cache, draft)'
    BY <1>1, <2>1, <2>3 DEF RoundsAreTrue, RoundsKept
  <2> HIDE DEF n
  <2>6. ASSUME NEW r \in 1 .. n, r \in ended
        PROVE  {RowOf(r, t) : t \in Entered(r)} = {Result(r, t) : t \in Entered(r)}
    BY <2>6 DEF RowOf, Result
  <2>7. ASSUME NEW r \in 1 .. n - 1
        PROVE  draft'.teams[r] = {Result(r, t) : t \in Entered(r)}
    BY <2>1, <2>2, <2>4, <2>6
  <2>8. ASSUME NEW e \in draft.teams[n]
        PROVE  UpdatedPreview(e).row = FALSE /\ Validated(UpdatedPreview(e))
    <3>1. e \in PreviewType /\ Validated(e)
      BY <2>1
    <3>2. /\ UpdatedPreview(e).row = FALSE /\ UpdatedPreview(e).team = e.team
          /\ UpdatedPreview(e).binary = e.binary
      BY <3>1 DEF UpdatedPreview, PreviewType
    <3>. QED  BY <3>1, <3>2 DEF Validated
  <2>9. \A t \in Entered(n) : RowOf(n, t).row = TRUE
    BY DEF RowOf, Line
  <2> DEFINE lines == {RowOf(n, t) : t \in Entered(n)}
             ahead == {UpdatedPreview(e) : e \in draft.teams[n]}
  <2>10. Listed(draft', n, TRUE) = lines /\ Listed(draft', n, FALSE) = ahead
    <3>1. draft'.teams[n] = ahead \cup lines
      BY <2>2, <2>4
    <3>2. ASSUME NEW e \in ahead
          PROVE  e.row = FALSE
      <4>1. PICK old \in draft.teams[n] : e = UpdatedPreview(old)
        OBVIOUS
      <4>2. UpdatedPreview(old).row = FALSE
        BY <2>8, Zenon
      <4>. QED  BY <4>1, <4>2, Zenon
    <3>3. \A e \in lines : e.row = TRUE
      BY <2>9
    <3> HIDE DEF ahead, lines
    <3>. QED  BY <3>1, <3>2, <3>3 DEF Listed
  <2>11. lines = IF n \in ended THEN {Result(n, t) : t \in Entered(n)}
                               ELSE {Running(n, t) : t \in Entered(n)}
    BY DEF RowOf, Result, Running
  <2>12. n \in draft.started => ahead = {}
    BY <2>1 DEF n
  <2>13. \A e \in ahead : Validated(e)
    BY <2>8
  <2> HIDE DEF lines, ahead
  <2>14. RowsAreTrue(draft)'
    <3>1. PICK d : d = draft'
      OBVIOUS
    <3>2. /\ d.newest = n /\ d.started = draft.started
          /\ Listed(d, n, TRUE) = lines /\ Listed(d, n, FALSE) = ahead
          /\ \A r \in 1 .. n - 1 : d.teams[r] = {Result(r, t) : t \in Entered(r)}
      BY <2>3, <2>7, <2>10, <3>1
    <3>3. RowsAreTrue(d)
      <4> DEFINE running == {Running(n, t) : t \in Entered(n)}
                 result == {Result(n, t) : t \in Entered(n)}
                 final == IF n \in ended THEN result ELSE {}
      <4>1. lines = IF n \in ended THEN result ELSE running
        BY <2>11
      <4> HIDE DEF running, result
      <4>2. /\ n \in d.started => /\ Listed(d, n, FALSE) = {}
                                  /\ \/ Listed(d, n, TRUE) = running
                                     \/ n \in ended /\ Listed(d, n, TRUE) = final
            /\ n \in (1 .. n) \ d.started =>
                 /\ \A e \in Listed(d, n, FALSE) : Validated(e)
                 /\ Listed(d, n, TRUE) \subseteq running \cup final
        BY <2>12, <2>13, <3>2, <4>1
      <4>. QED  BY <3>2, <4>2 DEF RowsAreTrue, running, result
    <3>4. RoundsAreTrue(d)
      BY <2>1, <3>2 DEF RoundsAreTrue, n
    <3>5. RowsAreTrue(d)'
      BY <1>1, <3>3, <3>4, RowsStayTrue, TablesStep DEF IInv
    <3>. QED  BY <3>1, <3>5
  <2>15. RowsKept(cache, draft)'
    <3>1. ASSUME NEW r \in 1 .. cache.newest, NEW e \in Listed(cache, r, TRUE),
                 e.ending # Unknown
          PROVE  e \in draft'.teams[r]
      <4>1. r \in ended /\ \E t \in Entered(r) : e = Result(r, t)
        BY <3>1, FinalLines DEF IInv, PublishedIsTrue
      <4>2. r \in 1 .. n
        <5>1. cache.newest \in Int /\ cache.newest <= n
          BY <2>1 DEF IInv, PublishedIsTrue, RoundsAreTrue, RoundsKept, Rounds, n
        <5>. QED  BY <2>2, <5>1
      <4>. QED  BY <2>4, <2>6, <4>1, <4>2
    <3>. QED  BY <1>1, <3>1 DEF RowsKept, Listed
  <2>16. DraftInStep'
    BY <1>1, <1>3, <2>1, <2>3, <2>5, <2>14, <2>15 DEF DraftInStep, n
  <2>. QED  BY <1>1, <2>16, ReadingStep
<1>. QED  BY <1>2, <1>3 DEF ReadRoster

LEMMA ReadGamesIInv == ASSUME IInv, ReadGames PROVE IInv'
<1> DEFINE n == draft.newest
           table == [r \in 1 .. n |-> GamesIn(r)]
<1>1. at = "games" /\ UNCHANGED << tables, cache >>
      /\ UNCHANGED << started, ended, binary, roster, elo, game >>
  BY DEF ReadGames, tables
<1>2. CASE GiveUp
  BY <1>1, <1>2, ScoreGiveUp
<1>3. CASE draft' = [draft EXCEPT !.games = table] /\ at' = "publish" /\ UNCHANGED latest
  <2>1. /\ n # 0 /\ RoundsAreTrue(draft) /\ RoundsKept(cache, draft) /\ IsCache(draft)
        /\ RowsAreTrue(draft) /\ RowsKept(cache, draft)
        /\ latest \in [Teams -> Nat] /\ \A t \in Teams : latest[t] <= binary[t]
    BY <1>1 DEF IInv, DraftInStep
  <2>2. n \in Int /\ cache.newest \in Int /\ cache.newest <= n
    BY <2>1 DEF IInv, PublishedIsTrue, RoundsAreTrue, RoundsKept, Rounds
  <2>3. /\ draft'.newest = n /\ draft'.started = draft.started
        /\ draft'.teams = draft.teams /\ draft'.games = table /\ IsCache(draft)'
    <3> HIDE DEF table, n
    <3>1. draft' = [newest |-> draft.newest, started |-> draft.started,
                    teams |-> draft.teams, games |-> table]
      BY <1>3, <2>1 DEF IsCache
    <3>. QED  BY <3>1 DEF IsCache, n
  <2>4. \A r \in 1 .. n : draft'.games[r] = GamesIn(r)
    BY <2>3
  <2>5. RoundsAreTrue(draft)' /\ RoundsKept(cache, draft)' /\ RowsKept(cache, draft)'
    BY <1>1, <2>1, <2>3 DEF RoundsAreTrue, RoundsKept, RowsKept, Listed
  <2> HIDE DEF table, n
  <2>6. PICK d : d = draft'
    OBVIOUS
  <2>7. /\ d.newest = draft.newest /\ d.newest = n /\ d.started = draft.started
        /\ d.teams = draft.teams /\ \A r \in 1 .. n : d.games[r] = GamesIn(r)
    BY <2>3, <2>4, <2>6 DEF n
  <2>8. RoundsAreTrue(d) /\ RowsAreTrue(d)
    BY <2>1, <2>7 DEF RoundsAreTrue, RowsAreTrue, Listed
  <2>9. GamesAreTrue(d)
    <3>1. \A r \in 1 .. n - 1 : d.games[r] = GamesIn(r)
      BY <2>2, <2>7
    <3>2. ASSUME NEW r \in 1 .. n, NEW e \in d.games[r]
          PROVE  e.id \in DOMAIN game /\ game[e.id].round = r /\ (e.done => game[e.id].done)
      BY <2>7, <3>2 DEF GamesIn
    <3>. QED  BY <2>7, <3>1, <3>2 DEF GamesAreTrue
  <2>10. TablesInStep /\ TablesInStep' /\ Frozen
    BY <1>1, TablesStep DEF IInv
  <2>11. RowsAreTrue(draft)' /\ GamesAreTrue(draft)'
    <3>1. RowsAreTrue(d)' /\ GamesAreTrue(d)'
      BY <2>8, <2>9, <2>10, RowsStayTrue, GamesStayTrue
    <3>. QED  BY <2>6, <3>1
  <2>12. GamesKept(cache, draft)'
    <3>1. ASSUME NEW r \in 1 .. cache.newest, NEW e \in cache.games[r]
          PROVE  \E e2 \in draft'.games[r] : e2.id = e.id /\ (e.done => e2.done)
      <4>1. e.id \in DOMAIN game /\ game[e.id].round = r /\ (e.done => game[e.id].done)
        BY DEF IInv, PublishedIsTrue, GamesAreTrue
      <4> DEFINE shown == [id |-> e.id, done |-> game[e.id].done]
      <4>2. shown \in GamesIn(r)
        BY <4>1 DEF GamesIn
      <4>3. shown \in draft'.games[r]
        BY <2>2, <2>4, <4>2
      <4>. QED  BY <4>1, <4>3
    <3>. QED  BY <1>1, <3>1 DEF GamesKept
  <2>13. DraftInStep'
    <3>1. at' = "publish" /\ draft'.newest # 0
      BY <1>3, <2>1, <2>3 DEF n
    <3>2. latest' \in [Teams -> Nat] /\ \A t \in Teams : latest'[t] <= binary'[t]
      BY <1>1, <1>3, <2>1
    <3>. QED  BY <2>3, <2>5, <2>11, <2>12, <3>1, <3>2 DEF DraftInStep
  <2>. QED  BY <1>1, <2>13, ReadingStep
<1>. QED  BY <1>2, <1>3 DEF ReadGames, GamesIn

(* The cache that takes the place of the old one is true of the tables as  *)
(* they are now, not only as the queries found them.                       *)
LEMMA PublishIInv ==
    ASSUME IInv, Publish
    PROVE  /\ IInv'
           /\ RoundsKept(cache, cache') /\ RowsKept(cache, cache') /\ GamesKept(cache, cache')
<1>1. /\ at = "publish" /\ cache' = draft /\ at' = "delay" /\ draft' = NoCache
      /\ latest' = Nobody /\ UNCHANGED tables
  BY DEF Publish
<1>2. /\ RoundsAreTrue(draft) /\ RowsAreTrue(draft) /\ GamesAreTrue(draft)
      /\ RoundsKept(cache, draft) /\ RowsKept(cache, draft) /\ GamesKept(cache, draft)
  BY <1>1 DEF IInv, DraftInStep
<1>3. TablesInStep /\ TablesInStep' /\ Frozen
  BY <1>1, TablesStep DEF IInv
<1>4. PublishedIsTrue'
  <2>1. PICK d : d = draft
    OBVIOUS
  <2>2. RoundsAreTrue(d)' /\ RowsAreTrue(d)' /\ GamesAreTrue(d)'
    BY <1>2, <1>3, <2>1, RoundsStayTrue, RowsStayTrue, GamesStayTrue
  <2>. QED  BY <1>1, <2>1, <2>2 DEF PublishedIsTrue
<1>5. latest' \in [Teams -> Nat] /\ \A t \in Teams : latest'[t] <= binary'[t]
  BY <1>1, <1>3 DEF TablesInStep, Nobody
<1>6. DraftInStep'
  BY <1>1, <1>5 DEF DraftInStep, IsCache, NoCache
<1>. QED  BY <1>1, <1>2, <1>3, <1>4, <1>6 DEF IInv

LEMMA DatabaseFailsIInv == ASSUME IInv, DatabaseFails PROVE IInv'
<1>1. GiveUp /\ UNCHANGED << tables, cache >>
  BY DEF DatabaseFails
<1>. QED  BY <1>1, ScoreGiveUp

(* Only Publish touches what the pages show.                               *)
LEMMA CacheStep ==
    ASSUME IInv, [ScoreNext]_vars
    PROVE  /\ IInv'
           /\ RoundsKept(cache, cache') /\ RowsKept(cache, cache') /\ GamesKept(cache, cache')
<1>1. CASE Publish
  BY <1>1, PublishIInv
<1>2. CASE UNCHANGED cache /\ IInv'
  <2>1. cache.newest <= cache.newest
    BY DEF IInv, PublishedIsTrue, RoundsAreTrue, Rounds
  <2>2. ASSUME NEW r \in 1 .. cache.newest, NEW e \in Listed(cache, r, TRUE)
        PROVE  e \in cache.teams[r]
    BY DEF Listed
  <2>. QED  BY <1>2, <2>1, <2>2 DEF RoundsKept, RowsKept, GamesKept
<1>3. ASSUME ~ Publish PROVE UNCHANGED cache /\ IInv'
  <2>1. CASE Engine \/ UNCHANGED vars
    BY <2>1, EngineIInv DEF Engine, vars
  <2>2. CASE Refresh
    BY <1>3, <2>2, ReadRoundsIInv, ReadBinariesIInv, ReadTeamsIInv, ReadRosterIInv,
       ReadGamesIInv DEF Refresh, ReadRounds, ReadBinaries, ReadTeams, ReadRoster, ReadGames
  <2>3. CASE DatabaseFails
    BY <2>3, DatabaseFailsIInv DEF DatabaseFails
  <2>. QED  BY <2>1, <2>2, <2>3 DEF ScoreNext
<1>. QED  BY <1>1, <1>2, <1>3
-----------------------------------------------------------------------------
(* Results                                                                 *)

(* However the engine's writes fall between the five queries, and however  *)
(* often a refresh fails, tables, draft and published cache stay in step.  *)
THEOREM ScoreboardStaysInStep == ScoreSpec => []IInv
<1>1. IInv /\ [ScoreNext]_vars => IInv'
  BY CacheStep
<1>. QED  BY <1>1, ScoreStarts, PTL DEF ScoreSpec

(* Five queries at five moments make one consistent picture of the         *)
(* tournament (ScoreboardCache.cs:35-168).                                 *)
THEOREM ScoreboardShowsOnePicture == ScoreSpec => []PublishedIsTrue
<1>1. IInv => PublishedIsTrue
  BY DEF IInv
<1>. QED  BY <1>1, ScoreboardStaysInStep, PTL

(* The pages never go back: no refresh shows fewer rounds, loses a game or *)
(* its result, or takes a final rating away (ScoreboardCache.cs:160-162).  *)
THEOREM ScoreboardNeverGoesBack == ScoreSpec => CacheMovesOn
<1>1. IInv /\ [ScoreNext]_vars =>
        [/\ RoundsKept(cache, cache')
         /\ RowsKept(cache, cache') /\ GamesKept(cache, cache')]_vars
  BY CacheStep
<1>. QED  BY <1>1, ScoreboardStaysInStep, PTL DEF ScoreSpec, CacheMovesOn

(* The cache the pages show is always a true picture of the tournament,    *)
(* and never an older one than before, although it is put together from    *)
(* five queries between which rounds go by (ScoreboardCache.cs:15-168).    *)
THEOREM ScoreboardShowsTheTruth == ScoreSpec => ScoreboardIsTrue
BY ScoreboardStaysInStep, ScoreboardShowsOnePicture, ScoreboardNeverGoesBack, PTL
   DEF ScoreboardIsTrue
=============================================================================
