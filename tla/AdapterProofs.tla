---------------------------- MODULE AdapterProofs ----------------------------
(***************************************************************************)
(* Theorems about AdapterCalls, for any number of calls, keys, processes   *)
(* and stores, every configuration an operator may deploy and every table  *)
(* of fields: one dispatch per key, no blind repeat, answers that are      *)
(* real, requests that stay home, and the refinement of ConsequenceOnce by *)
(* the durable journal.  At the end, Delivery, which is an adapter and a   *)
(* boundary at once, inherits the theorems about both.                     *)
(***************************************************************************)
EXTENDS Delivery, BoundaryProofs

-----------------------------------------------------------------------------
(* What holds in every reachable state. *)

(* How the fields of a call go together, and with the wire.                *)
Shape(c) ==
  /\ calls[c].phase = "idle" => calls[c] = NoCall /\ wire[c] = "none"
  /\ calls[c].phase # "idle" => calls[c].act \in Acts
  /\ Active(c) => calls[c].process \in Processes /\ Accepts(calls[c].act)
  /\ Active(c) \/ calls[c].phase = "dead" => calls[c].result = None
  /\ calls[c].phase = "ended" => calls[c].result # None
  /\ calls[c].phase = "looked_up" => wire[c] = "none"
  /\ calls[c].phase = "redirected" => adapter.redirects
  /\ calls[c].phase \in {"sending", "redirected", "answered"} => wire[c] # "none"
  /\ wire[c] # "none" => Accepts(calls[c].act)
  /\ wire[c] # "none" /\ calls[c].phase = "ended" /\ Journalled =>
        calls[c].result \in {"unknown", "done"}

Shapes == \A c \in Calls : Shape(c)

(* The provider has put in place only what it has received.                *)
AppliedReceived == \A c \in applied : wire[c] = "in"

(* The journal rows that speak for a call: all of its own while it is in   *)
(* flight, lost or unclear, and its key's when it is done.                 *)
Claims(c, scope) ==
  /\ calls[c].phase # "idle"
  /\ scope \in ScopesOf(calls[c].key, calls[c].act)
  /\ \/ calls[c].result \in {None, "unknown"}
     \/ calls[c].result = "done" /\ scope \in KeyScopes(calls[c].key)

HasJournal(c) == adapter.durable \/ calls[c].process # None

ClaimStatus(c) ==
  IF calls[c].result = None THEN "IN_FLIGHT"
  ELSE IF calls[c].result = "unknown" THEN "OUTCOME_UNKNOWN" ELSE "COMPLETED"

(* They say so, and ...                                                    *)
ClaimsShow ==
  \A c \in Calls, scope \in Scopes :
      Claims(c, scope) /\ HasJournal(c) =>
          /\ rows[StoreOf(calls[c].process)][scope] # None
          /\ rows[StoreOf(calls[c].process)][scope].status = ClaimStatus(c)

(* ... speak for no other call.                                            *)
ClaimsExclude ==
  \A c, d \in Calls, scope \in Scopes :
      c # d /\ SameJournal(c, d) /\ Claims(c, scope) => ~Claims(d, scope)

JournalInv == OpenAPI => ClaimsShow /\ ClaimsExclude

(* What is recorded as completed, or replayed, is the answer of a call     *)
(* that is done, and a witnessed one is in place as far as it is bound.    *)
DoneAt(key, act, answer) ==
  \E d \in Calls : /\ calls[d].result = "done" /\ calls[d].key = key
                   /\ calls[d].act = act /\ calls[d].answer = answer

RowsBacked ==
  \A st \in Stores, key \in Keys :
      rows[st][<<"idem", key>>] # None /\ rows[st][<<"idem", key>>].status = "COMPLETED" =>
          DoneAt(key, rows[st][<<"idem", key>>].act, rows[st][<<"idem", key>>].answer)

ReplaysBacked ==
  \A c \in Calls : calls[c].result = "replayed" =>
      DoneAt(calls[c].key, calls[c].act, calls[c].answer)

DoneWitnessed ==
  OpenAPI /\ adapter.witness # None =>
      \A c \in Calls : calls[c].result = "done" => InPlace(calls[c].act, calls[c].answer)

History == RowsBacked /\ ReplaysBacked /\ DoneWitnessed

(* A key in flight in the file is held by a call without a result.         *)
InFlightHeld ==
  adapter.durable =>
      \A key \in Keys : StatusAt(None, <<"idem", key>>) = "IN_FLIGHT" =>
          \E c \in Calls : calls[c].key = key /\ calls[c].result = None

ContactsHome == contacts \subseteq {Home}

AdapterInv ==
  /\ AdapterTypeOK /\ Shapes /\ AppliedReceived /\ JournalInv /\ History /\ InFlightHeld
  /\ ContactsHome

-----------------------------------------------------------------------------
(* Calls and rows as functions. *)

LEMMA SetCallFacts ==
  ASSUME AdapterTypeOK, NEW c \in Calls, NEW p \in Processes \cup {None},
         NEW key \in Keys \cup {None}, NEW act \in Acts \cup {None}, NEW phase \in Phases,
         NEW result \in Results \cup {None}, NEW answer \in Calls \cup {None},
         SetCall(c, p, key, act, phase, result, answer)
  PROVE  /\ calls' \in [Calls -> Call]
         /\ \A d \in Calls : d # c => calls'[d] = calls[d]
         /\ calls'[c].phase = phase /\ calls'[c].process = p /\ calls'[c].key = key
         /\ calls'[c].act = act /\ calls'[c].result = result /\ calls'[c].answer = answer
  BY DEF SetCall, AdapterTypeOK, Call

LEMMA CallType ==
  ASSUME AdapterTypeOK, NEW c \in Calls
  PROVE  /\ calls[c] \in Call
         /\ calls[c].phase \in Phases /\ calls[c].process \in Processes \cup {None}
         /\ calls[c].key \in Keys \cup {None} /\ calls[c].act \in Acts \cup {None}
         /\ calls[c].result \in Results \cup {None} /\ calls[c].answer \in Calls \cup {None}
  BY DEF AdapterTypeOK, Call

LEMMA StoreType ==
  ASSUME NEW p \in Processes
  PROVE  StoreOf(p) \in Stores
  BY DEF StoreOf, Stores

LEMMA ScopeType ==
  ASSUME NEW key \in Keys \cup {None}, NEW act \in Acts
  PROVE  /\ ScopesOf(key, act) \subseteq Scopes /\ KeyScopes(key) \subseteq ScopesOf(key, act)
         /\ ActScopes(act) \subseteq ScopesOf(key, act)
  BY DEF ScopesOf, KeyScopes, ActScopes, Scopes

LEMMA SetRowsFacts ==
  ASSUME AdapterTypeOK, NEW p \in Processes, NEW table \in [Scopes -> Row \cup {None}],
         SetRows(p, table)
  PROVE  /\ rows' \in [Stores -> [Scopes -> Row \cup {None}]]
         /\ rows'[StoreOf(p)] = table
         /\ \A st \in Stores : st # StoreOf(p) => rows'[st] = rows[st]
  <1>1. StoreOf(p) \in Stores
    BY StoreType
  <1> QED
    BY <1>1 DEF SetRows, AdapterTypeOK

(* The steps of a call touch no rows but its own.                          *)
OwnRows(c) ==
  \A st \in Stores, scope \in Scopes :
      st # StoreOf(calls[c].process) \/ scope \notin ScopesOf(calls[c].key, calls[c].act)
          => rows'[st][scope] = rows[st][scope]

(* A call keeps its identity once it has begun, and its answer once done.  *)
Keeps(d) ==
  /\ calls[d].phase # "idle" => calls'[d].key = calls[d].key /\ calls'[d].act = calls[d].act
  /\ calls[d].result = "done" => calls'[d].result = "done" /\ calls'[d].answer = calls[d].answer

LEMMA PutFacts ==
  ASSUME AdapterTypeOK, NEW p \in Processes, NEW scopes \in SUBSET Scopes, NEW row \in Row,
         Put(p, scopes, row)
  PROVE  /\ rows' \in [Stores -> [Scopes -> Row \cup {None}]]
         /\ \A st \in Stores, scope \in Scopes :
               rows'[st][scope] = IF st = StoreOf(p) /\ scope \in scopes THEN row
                                  ELSE rows[st][scope]
  <1> DEFINE table == [scope \in Scopes |-> IF scope \in scopes THEN row
                                            ELSE rows[StoreOf(p)][scope]]
  <1>1. StoreOf(p) \in Stores
    BY StoreType
  <1>2. table \in [Scopes -> Row \cup {None}]
    BY <1>1 DEF AdapterTypeOK
  <1>3. SetRows(p, table)
    BY DEF Put
  <1>4. \A scope \in Scopes : table[scope] = IF scope \in scopes THEN row
                                             ELSE rows[StoreOf(p)][scope]
    OBVIOUS
  <1> HIDE DEF table
  <1>5. /\ rows' \in [Stores -> [Scopes -> Row \cup {None}]]
        /\ rows'[StoreOf(p)] = table
        /\ \A st \in Stores : st # StoreOf(p) => rows'[st] = rows[st]
    BY <1>2, <1>3, SetRowsFacts
  <1> QED
    BY <1>4, <1>5

LEMMA ReleaseFacts ==
  ASSUME AdapterTypeOK, NEW c \in Calls, calls[c].process \in Processes, calls[c].act \in Acts,
         ReleaseRows(c)
  PROVE  /\ rows' \in [Stores -> [Scopes -> Row \cup {None}]]
         /\ OwnRows(c)
         /\ \A st \in Stores, scope \in Scopes : rows'[st][scope] \in {None, rows[st][scope]}
         /\ OpenAPI => \A scope \in ScopesOf(calls[c].key, calls[c].act) :
               StatusAt(calls[c].process, scope) = "IN_FLIGHT"
                 => rows'[StoreOf(calls[c].process)][scope] = None
  <1> DEFINE p == calls[c].process
             mine == ScopesOf(calls[c].key, calls[c].act)
             table == [scope \in Scopes |->
                         IF scope \in mine /\ StatusAt(p, scope) = "IN_FLIGHT" THEN None
                         ELSE rows[StoreOf(p)][scope]]
  <1>1. StoreOf(p) \in Stores
    BY StoreType
  <1>2. mine \subseteq Scopes
    BY CallType, ScopeType
  <1>3. CASE OpenAPI
    <2>1. table \in [Scopes -> Row \cup {None}]
      BY <1>1 DEF AdapterTypeOK
    <2>2. SetRows(p, table)
      BY <1>3 DEF ReleaseRows
    <2>3. \A scope \in Scopes :
             table[scope] = IF scope \in mine /\ StatusAt(p, scope) = "IN_FLIGHT" THEN None
                            ELSE rows[StoreOf(p)][scope]
      OBVIOUS
    <2> HIDE DEF table
    <2>4. /\ rows' \in [Stores -> [Scopes -> Row \cup {None}]]
          /\ rows'[StoreOf(p)] = table
          /\ \A st \in Stores : st # StoreOf(p) => rows'[st] = rows[st]
      BY <2>1, <2>2, SetRowsFacts
    <2> QED
      BY <1>2, <2>3, <2>4 DEF OwnRows
  <1>4. CASE ~OpenAPI
    BY <1>4 DEF ReleaseRows, OwnRows, AdapterTypeOK
  <1> QED
    BY <1>3, <1>4

LEMMA UncertainFacts ==
  ASSUME AdapterTypeOK, NEW c \in Calls, calls[c].process \in Processes, calls[c].act \in Acts,
         RecordUncertain(c)
  PROVE  /\ rows' \in [Stores -> [Scopes -> Row \cup {None}]]
         /\ OwnRows(c)
         /\ \A st \in Stores, scope \in Scopes :
               rows'[st][scope] = rows[st][scope] \/ rows'[st][scope].status = "OUTCOME_UNKNOWN"
         /\ OpenAPI => \A scope \in ScopesOf(calls[c].key, calls[c].act) :
               /\ rows'[StoreOf(calls[c].process)][scope] # None
               /\ rows'[StoreOf(calls[c].process)][scope].status = "OUTCOME_UNKNOWN"
  <1> DEFINE p == calls[c].process
             mine == ScopesOf(calls[c].key, calls[c].act)
             row == RowOf("OUTCOME_UNKNOWN", calls[c].act, None)
  <1>1. StoreOf(p) \in Stores
    BY StoreType
  <1>2. mine \subseteq Scopes
    BY CallType, ScopeType
  <1>3. row \in Row /\ row # None /\ row.status = "OUTCOME_UNKNOWN"
    BY AdapterAssumption DEF Row, RowOf, Statuses
  <1> HIDE DEF row
  <1>4. CASE OpenAPI
    <2>1. Put(p, mine, row)
      BY <1>4 DEF RecordUncertain, row
    <2>2. /\ rows' \in [Stores -> [Scopes -> Row \cup {None}]]
          /\ \A st \in Stores, scope \in Scopes :
               rows'[st][scope] = IF st = StoreOf(p) /\ scope \in mine THEN row
                                  ELSE rows[st][scope]
      BY <1>2, <1>3, <2>1, PutFacts
    <2> QED
      BY <1>1, <1>2, <1>3, <2>2 DEF OwnRows
  <1>5. CASE ~OpenAPI
    BY <1>5 DEF RecordUncertain, OwnRows, AdapterTypeOK
  <1> QED
    BY <1>4, <1>5

LEMMA CompletedFacts ==
  ASSUME AdapterTypeOK, NEW c \in Calls, calls[c].process \in Processes, calls[c].act \in Acts,
         calls[c].answer \in Calls \cup {None}, RecordCompleted(c)
  PROVE  /\ rows' \in [Stores -> [Scopes -> Row \cup {None}]]
         /\ OwnRows(c)
         /\ \A st \in Stores, scope \in Scopes :
               rows'[st][scope] = IF st = StoreOf(calls[c].process) /\ scope \in KeyScopes(calls[c].key)
                                  THEN RowOf("COMPLETED", calls[c].act, calls[c].answer)
                                  ELSE IF /\ OpenAPI /\ st = StoreOf(calls[c].process)
                                          /\ scope \in ActScopes(calls[c].act)
                                          /\ StatusAt(calls[c].process, scope) = "IN_FLIGHT"
                                  THEN None ELSE rows[st][scope]
         /\ RowOf("COMPLETED", calls[c].act, calls[c].answer) \in Row
  <1> DEFINE p == calls[c].process
             mine == ActScopes(calls[c].act)
             row == RowOf("COMPLETED", calls[c].act, calls[c].answer)
             keys == KeyScopes(calls[c].key)
             table == [scope \in Scopes |->
                IF scope \in keys THEN row
                ELSE IF OpenAPI /\ scope \in mine /\ StatusAt(p, scope) = "IN_FLIGHT" THEN None
                ELSE rows[StoreOf(p)][scope]]
  <1>1. StoreOf(p) \in Stores
    BY StoreType
  <1>2. keys \subseteq ScopesOf(calls[c].key, calls[c].act) /\ mine \subseteq ScopesOf(calls[c].key, calls[c].act)
    BY CallType, ScopeType
  <1>3. row \in Row
    BY DEF Row, RowOf, Statuses
  <1>4. SetRows(p, table)
    BY DEF RecordCompleted
  <1> HIDE DEF row, keys, mine
  <1>5. table \in [Scopes -> Row \cup {None}]
    BY <1>1, <1>3 DEF AdapterTypeOK
  <1>6. \A scope \in Scopes :
           table[scope] = IF scope \in keys THEN row
                          ELSE IF OpenAPI /\ scope \in mine /\ StatusAt(p, scope) = "IN_FLIGHT" THEN None
                          ELSE rows[StoreOf(p)][scope]
    OBVIOUS
  <1> HIDE DEF table
  <1>7. /\ rows' \in [Stores -> [Scopes -> Row \cup {None}]]
        /\ rows'[StoreOf(p)] = table
        /\ \A st \in Stores : st # StoreOf(p) => rows'[st] = rows[st]
    BY <1>4, <1>5, SetRowsFacts
  <1>8. \A st \in Stores, scope \in Scopes :
           rows'[st][scope] = IF st = StoreOf(p) /\ scope \in keys THEN row
                              ELSE IF /\ OpenAPI /\ st = StoreOf(p) /\ scope \in mine
                                      /\ StatusAt(p, scope) = "IN_FLIGHT"
                              THEN None ELSE rows[st][scope]
    BY <1>6, <1>7
  <1>9. OwnRows(c)
    BY <1>2, <1>8 DEF OwnRows
  <1> QED
    BY <1>3, <1>7, <1>8, <1>9 DEF row, keys, mine

-----------------------------------------------------------------------------
(* How the parts of the invariant survive a step. *)

LEMMA ShapeKept ==
  ASSUME NEW d \in Calls, Shape(d), calls'[d] = calls[d], wire'[d] = wire[d], UNCHANGED adapter
  PROVE  Shape(d)'
  BY DEF Shape, Active, Accepts, Journalled, OpenAPI

(* A step of one call that had begun: its rows must show what it claims.   *)
LEMMA OwnJournal ==
  ASSUME AdapterInv, NEW c \in Calls, Active(c), UNCHANGED adapter, OwnRows(c), OpenAPI,
         \A d \in Calls : d # c => calls'[d] = calls[d],
         calls'[c].process = calls[c].process, calls'[c].key = calls[c].key,
         calls'[c].act = calls[c].act,
         \A scope \in Scopes : Claims(c, scope)' =>
             /\ rows'[StoreOf(calls[c].process)][scope] # None
             /\ rows'[StoreOf(calls[c].process)][scope].status = ClaimStatus(c)'
  PROVE  JournalInv'
  <1>1. ClaimsShow /\ ClaimsExclude /\ Shape(c)
    BY DEF AdapterInv, JournalInv, Shapes
  <1>2. calls[c].result = None /\ calls[c].phase # "idle" /\ calls[c].process \in Processes
    BY <1>1 DEF Shape, Active
  <1>3. \A scope \in ScopesOf(calls[c].key, calls[c].act) : Claims(c, scope)
    BY <1>2 DEF Claims
  <1>4. \A d \in Calls, scope \in Scopes : Claims(d, scope)' => Claims(d, scope)
    <2> SUFFICES ASSUME NEW d \in Calls, NEW scope \in Scopes, Claims(d, scope)'
                 PROVE  Claims(d, scope)
      OBVIOUS
    <2>1. CASE d = c
      BY <1>3, <2>1 DEF Claims, ScopesOf, KeyScopes, ActScopes
    <2>2. CASE d # c
      BY <2>2 DEF Claims, ScopesOf, KeyScopes, ActScopes
    <2> QED
      BY <2>1, <2>2
  <1>5. \A d \in Calls : calls'[d].process = calls[d].process
    OBVIOUS
  <1>6. ClaimsExclude'
    BY <1>1, <1>4, <1>5 DEF ClaimsExclude, SameJournal
  <1>7. ClaimsShow'
    <2> SUFFICES ASSUME NEW d \in Calls, NEW scope \in Scopes, Claims(d, scope)', HasJournal(d)'
                 PROVE  /\ rows'[StoreOf(calls[d].process)][scope] # None
                        /\ rows'[StoreOf(calls[d].process)][scope].status = ClaimStatus(d)'
      BY <1>5 DEF ClaimsShow, StoreOf
    <2>1. CASE d = c
      BY <2>1
    <2>2. CASE d # c
      <3>1. HasJournal(d) /\ Claims(d, scope)
        BY <1>4, <1>5 DEF HasJournal
      <3>2. StoreOf(calls[d].process) \in Stores
        BY <3>1, CallType DEF HasJournal, StoreOf, Stores, AdapterInv
      <3>3. /\ rows[StoreOf(calls[d].process)][scope] # None
            /\ rows[StoreOf(calls[d].process)][scope].status = ClaimStatus(d)
        BY <1>1, <3>1 DEF ClaimsShow
      <3>4. \/ StoreOf(calls[d].process) # StoreOf(calls[c].process)
            \/ scope \notin ScopesOf(calls[c].key, calls[c].act)
        <4> SUFFICES ASSUME StoreOf(calls[d].process) = StoreOf(calls[c].process),
                            scope \in ScopesOf(calls[c].key, calls[c].act)
                     PROVE  FALSE
          OBVIOUS
        <4>1. calls[c].process # None
          BY <1>2, AdapterAssumption
        <4>2. SameJournal(c, d)
          BY <4>1 DEF SameJournal, StoreOf
        <4> QED
          BY <1>1, <1>3, <2>2, <3>1, <4>2 DEF ClaimsExclude
      <3>5. rows'[StoreOf(calls[d].process)][scope] = rows[StoreOf(calls[d].process)][scope]
        BY <3>2, <3>4 DEF OwnRows
      <3>6. ClaimStatus(d)' = ClaimStatus(d)
        BY <2>2 DEF ClaimStatus
      <3> QED
        BY <3>3, <3>5, <3>6
    <2> QED
      BY <2>1, <2>2
  <1> QED
    BY <1>6, <1>7 DEF JournalInv

(* A step that leaves the rows alone and adds no claim.                    *)
LEMMA IdleJournal ==
  ASSUME AdapterInv, NEW c \in Calls, UNCHANGED <<adapter, rows>>,
         \A d \in Calls : d # c => calls'[d] = calls[d],
         OpenAPI => \A scope \in Scopes : ~Claims(c, scope)'
  PROVE  JournalInv'
  <1> SUFFICES ASSUME OpenAPI PROVE ClaimsShow' /\ ClaimsExclude'
    BY DEF JournalInv, OpenAPI
  <1>1. ClaimsShow /\ ClaimsExclude
    BY DEF AdapterInv, JournalInv
  <1>2. \A d \in Calls, scope \in Scopes : Claims(d, scope)' =>
           d # c /\ Claims(d, scope) /\ calls'[d] = calls[d]
    BY DEF Claims, ScopesOf, KeyScopes, ActScopes
  <1>3. ClaimsExclude'
    BY <1>1, <1>2 DEF ClaimsExclude, SameJournal
  <1>4. ClaimsShow'
    BY <1>1, <1>2 DEF ClaimsShow, HasJournal, ClaimStatus, StoreOf
  <1> QED
    BY <1>3, <1>4

LEMMA DoneKept ==
  ASSUME AdapterInv, \A d \in Calls : Keeps(d), NEW key, NEW act, NEW answer,
         DoneAt(key, act, answer)
  PROVE  DoneAt(key, act, answer)'
  <1>1. PICK d \in Calls : /\ calls[d].result = "done" /\ calls[d].key = key
                           /\ calls[d].act = act /\ calls[d].answer = answer
    BY DEF DoneAt
  <1>2. calls[d].phase # "idle"
    <2>1. "done" # None
      BY AdapterAssumption DEF Results
    <2> QED
      BY <1>1, <2>1 DEF AdapterInv, Shapes, Shape, NoCall
  <1> QED
    BY <1>1, <1>2 DEF Keeps, DoneAt

LEMMA InPlaceKept ==
  ASSUME AdapterInv, UNCHANGED adapter, applied \subseteq applied',
         \A d \in Calls : Keeps(d),
         NEW act, NEW answer, InPlace(act, answer)
  PROVE  InPlace(act, answer)'
  <1>1. PICK d \in applied :
           /\ adapter.witness.byId => d = answer
           /\ \A name \in adapter.witness.bound \cap DOMAIN Requested(act) :
                 /\ name \in DOMAIN Requested(calls[d].act)
                 /\ SameValue(Requested(calls[d].act)[name], Requested(act)[name])
    BY DEF InPlace
  <1>2. d \in Calls /\ wire[d] = "in" /\ Shape(d)
    BY DEF AdapterInv, AdapterTypeOK, AppliedReceived, Shapes
  <1>3. calls'[d].act = calls[d].act
    BY <1>2 DEF Shape, Keeps
  <1>4. d \in applied'
    OBVIOUS
  <1> QED
    BY <1>1, <1>3, <1>4 DEF InPlace, Requested, SameValue

LEMMA WitnessedInPlace ==
  ASSUME NEW c \in Calls, Witnessed(c)
  PROVE  InPlace(calls[c].act, calls[c].answer)
  <1>1. PICK d \in applied :
           /\ adapter.witness.byId => d = calls[c].answer
           /\ \E shown \in SUBSET DOMAIN Requested(calls[d].act) :
                 \A name \in Compared(calls[c].act, shown) :
                    /\ name \in shown
                    /\ SameValue(Requested(calls[d].act)[name], Requested(calls[c].act)[name])
    BY DEF Witnessed
  <1>2. PICK shown \in SUBSET DOMAIN Requested(calls[d].act) :
           \A name \in Compared(calls[c].act, shown) :
              /\ name \in shown
              /\ SameValue(Requested(calls[d].act)[name], Requested(calls[c].act)[name])
    BY <1>1
  <1>3. adapter.witness.bound \cap DOMAIN Requested(calls[c].act) \subseteq Compared(calls[c].act, shown)
    BY DEF Compared
  <1> QED
    BY <1>1, <1>2, <1>3 DEF InPlace

LEMMA HistoryKept ==
  ASSUME AdapterInv, AppliedReceived', UNCHANGED adapter, applied \subseteq applied',
         \A d \in Calls : Keeps(d),
         \A st \in Stores, key \in Keys, row \in Row :
             row = rows'[st][<<"idem", key>>] /\ row.status = "COMPLETED" =>
                 row = rows[st][<<"idem", key>>] \/ DoneAt(key, row.act, row.answer)',
         rows' \in [Stores -> [Scopes -> Row \cup {None}]],
         \A d \in Calls : calls'[d].result = "replayed" =>
             \/ /\ calls[d].result = "replayed" /\ calls'[d].answer = calls[d].answer
             \/ DoneAt(calls'[d].key, calls'[d].act, calls'[d].answer),
         \A d \in Calls : calls'[d].result = "done" =>
             \/ calls[d].result = "done"
             \/ OpenAPI /\ adapter.witness # None => InPlace(calls'[d].act, calls'[d].answer)
  PROVE  History'
  <1>1. RowsBacked /\ ReplaysBacked /\ DoneWitnessed
    BY DEF AdapterInv, History
  <1>2. \A d \in Calls : calls[d].result \in {"done", "replayed"} => calls[d].phase # "idle"
    <2>1. "done" # None /\ "replayed" # None
      BY AdapterAssumption DEF Results
    <2> QED
      BY <2>1 DEF AdapterInv, Shapes, Shape, NoCall
  <1>3. RowsBacked'
    <2>1. ASSUME NEW st \in Stores, NEW key \in Keys, NEW row \in Row,
                 row = rows'[st][<<"idem", key>>], row.status = "COMPLETED"
          PROVE  DoneAt(key, row.act, row.answer)'
      <3>1. CASE row = rows[st][<<"idem", key>>]
        <4>1. row # None
          BY AdapterAssumption
        <4>2. DoneAt(key, row.act, row.answer)
          BY <1>1, <2>1, <3>1, <4>1 DEF RowsBacked
        <4> QED
          BY <4>2, DoneKept
      <3>2. CASE row # rows[st][<<"idem", key>>]
        BY <2>1, <3>2
      <3> QED
        BY <3>1, <3>2
    <2>2. \A key \in Keys : <<"idem", key>> \in Scopes
      BY DEF Scopes
    <2>3. \A st \in Stores, key \in Keys : rows'[st][<<"idem", key>>] \in Row \cup {None}
      BY <2>2
    <2>4. ASSUME NEW st \in Stores, NEW key \in Keys,
                 rows'[st][<<"idem", key>>] # None,
                 rows'[st][<<"idem", key>>].status = "COMPLETED"
          PROVE  DoneAt(key, rows[st][<<"idem", key>>].act, rows[st][<<"idem", key>>].answer)'
      <3>1. PICK row \in Row : row = rows'[st][<<"idem", key>>]
        BY <2>3, <2>4
      <3>2. DoneAt(key, row.act, row.answer)'
        BY <2>1, <2>4, <3>1
      <3> QED
        BY <3>1, <3>2
    <2> QED
      BY <2>4 DEF RowsBacked
  <1>4. ReplaysBacked'
    <2> SUFFICES ASSUME NEW d \in Calls, calls'[d].result = "replayed"
                 PROVE  DoneAt(calls[d].key, calls[d].act, calls[d].answer)'
      BY DEF ReplaysBacked
    <2>1. PICK key, act, answer :
             key = calls'[d].key /\ act = calls'[d].act /\ answer = calls'[d].answer
      OBVIOUS
    <2>2. DoneAt(key, act, answer)
      BY <1>1, <1>2, <2>1 DEF ReplaysBacked, Keeps
    <2>3. DoneAt(key, act, answer)'
      BY <2>2, DoneKept
    <2> QED
      BY <2>1, <2>3
  <1>5. DoneWitnessed'
    <2> SUFFICES ASSUME OpenAPI, adapter.witness # None, NEW d \in Calls,
                        calls'[d].result = "done"
                 PROVE  InPlace(calls[d].act, calls[d].answer)'
      BY DEF DoneWitnessed, OpenAPI
    <2>1. PICK act, answer : act = calls'[d].act /\ answer = calls'[d].answer
      OBVIOUS
    <2>2. InPlace(act, answer)
      <3>1. CASE calls[d].result = "done"
        BY <1>1, <1>2, <2>1, <3>1 DEF DoneWitnessed, Keeps
      <3>2. CASE calls[d].result # "done"
        BY <2>1, <3>2
      <3> QED
        BY <3>1, <3>2
    <2>3. InPlace(act, answer)'
      BY <2>2, InPlaceKept
    <2> QED
      BY <2>1, <2>3
  <1> QED
    BY <1>3, <1>4, <1>5 DEF History

LEMMA HeldKept ==
  ASSUME AdapterInv, NEW c \in Calls, Active(c), UNCHANGED adapter, OwnRows(c),
         \A d \in Calls : d # c => calls'[d] = calls[d],
         calls'[c].key = calls[c].key,
         \/ calls'[c].result = None
         \/ OpenAPI => \A scope \in ScopesOf(calls[c].key, calls[c].act) :
               \/ rows'[StoreOf(calls[c].process)][scope] = None
               \/ rows'[StoreOf(calls[c].process)][scope].status # "IN_FLIGHT"
  PROVE  InFlightHeld'
  <1> SUFFICES ASSUME adapter.durable, NEW key \in Keys,
                      rows'["file"][<<"idem", key>>] # None,
                      rows'["file"][<<"idem", key>>].status = "IN_FLIGHT"
               PROVE  \E d \in Calls : calls'[d].key = key /\ calls'[d].result = None
    BY DEF InFlightHeld, StatusAt, StoreOf
  <1>1. OpenAPI /\ adapter \in Adapters
    BY AdapterAssumption DEF AdapterInv, AdapterTypeOK, OpenAPI
  <1>2. \A p : StoreOf(p) = "file"
    BY DEF StoreOf
  <1>3. CASE <<"idem", key>> \in ScopesOf(calls[c].key, calls[c].act)
    <2>1. calls'[c].result = None
      BY <1>1, <1>2, <1>3
    <2>2. calls[c].key = key
      BY <1>3 DEF ScopesOf, KeyScopes, ActScopes
    <2> QED
      BY <2>1, <2>2
  <1>4. CASE <<"idem", key>> \notin ScopesOf(calls[c].key, calls[c].act)
    <2>1. rows'["file"][<<"idem", key>>] = rows["file"][<<"idem", key>>]
      BY <1>4 DEF OwnRows, Stores, Scopes
    <2>2. PICK d \in Calls : calls[d].key = key /\ calls[d].result = None
      BY <1>2, <2>1 DEF AdapterInv, InFlightHeld, StatusAt
    <2>3. key # None
      BY AdapterAssumption
    <2>4. d # c
      BY <1>4, <2>2, <2>3 DEF ScopesOf, KeyScopes
    <2> QED
      BY <2>2, <2>4
  <1> QED
    BY <1>3, <1>4

(* A step of one call leaves what is said of all calls to be shown of it.  *)
LEMMA CallStepInv ==
  ASSUME AdapterInv, NEW c \in Calls, UNCHANGED <<adapter, applied>>,
         calls' \in [Calls -> Call], wire' \in [Calls -> {"none", "out", "in"}],
         rows' \in [Stores -> [Scopes -> Row \cup {None}]],
         \A d \in Calls : d # c => calls'[d] = calls[d] /\ wire'[d] = wire[d],
         wire[c] = "in" => wire'[c] = "in", contacts' \subseteq {Home},
         Shape(c)', JournalInv', History', InFlightHeld'
  PROVE  AdapterInv'
  <1>1. AdapterTypeOK'
    <2>1. Home \in Targets
      BY DEF Home, Targets
    <2>2. contacts' \subseteq Targets
      BY <2>1
    <2> QED
      BY <2>2 DEF AdapterInv, AdapterTypeOK
  <1>2. Shapes'
    <2> SUFFICES ASSUME NEW d \in Calls PROVE Shape(d)'
      BY DEF Shapes
    <2>1. CASE d = c
      BY <2>1
    <2>2. CASE d # c
      BY <2>2, ShapeKept DEF AdapterInv, Shapes
    <2> QED
      BY <2>1, <2>2
  <1>3. AppliedReceived'
    BY DEF AdapterInv, AppliedReceived, AdapterTypeOK
  <1>4. ContactsHome'
    BY DEF ContactsHome
  <1> QED
    BY <1>1, <1>2, <1>3, <1>4 DEF AdapterInv

LEMMA AppliedKept ==
  ASSUME AdapterInv, UNCHANGED applied, \A d \in Calls : wire[d] = "in" => wire'[d] = "in"
  PROVE  AppliedReceived'
  BY DEF AdapterInv, AppliedReceived, AdapterTypeOK

(* A call in flight moves on and keeps its rows.                           *)
LEMMA ProgressInv ==
  ASSUME AdapterInv, NEW c \in Calls, Active(c), UNCHANGED <<adapter, rows, applied>>,
         calls' \in [Calls -> Call], wire' \in [Calls -> {"none", "out", "in"}],
         \A d \in Calls : d # c => calls'[d] = calls[d] /\ wire'[d] = wire[d],
         wire[c] = "in" => wire'[c] = "in", contacts' \subseteq {Home},
         calls'[c].process = calls[c].process, calls'[c].key = calls[c].key,
         calls'[c].act = calls[c].act, calls'[c].result = calls[c].result,
         Shape(c)'
  PROVE  AdapterInv'
  <1>1. /\ calls[c].result = None /\ calls[c].process \in Processes /\ calls[c].phase # "idle"
        /\ calls[c].act \in Acts
    BY DEF AdapterInv, Shapes, Shape, Active
  <1>2. OwnRows(c)
    BY DEF OwnRows
  <1>3. JournalInv'
    <2>1. CASE OpenAPI
      <3>1. HasJournal(c)
        BY <1>1, AdapterAssumption DEF HasJournal
      <3>2. ClaimStatus(c)' = ClaimStatus(c)
        BY DEF ClaimStatus
      <3>3. \A scope \in Scopes : Claims(c, scope)' => Claims(c, scope)
        BY <1>1 DEF Claims, ScopesOf, KeyScopes, ActScopes
      <3>4. \A scope \in Scopes : Claims(c, scope)' =>
               /\ rows'[StoreOf(calls[c].process)][scope] # None
               /\ rows'[StoreOf(calls[c].process)][scope].status = ClaimStatus(c)'
        BY <2>1, <3>1, <3>2, <3>3 DEF AdapterInv, JournalInv, ClaimsShow
      <3> QED
        BY <1>2, <2>1, <3>4, OwnJournal
    <2>2. CASE ~OpenAPI
      BY <2>2 DEF JournalInv, OpenAPI
    <2> QED
      BY <2>1, <2>2
  <1>4. InFlightHeld'
    BY <1>1, <1>2, HeldKept
  <1>5. "done" # None /\ "replayed" # None
    BY AdapterAssumption DEF Results
  <1>6. \A d \in Calls : Keeps(d)
    BY <1>1, <1>5 DEF Keeps
  <1>7. AppliedReceived'
    BY AppliedKept
  <1>8. History'
    <2>1. \A st \in Stores, key \in Keys, row \in Row :
             row = rows'[st][<<"idem", key>>] /\ row.status = "COMPLETED" =>
                 row = rows[st][<<"idem", key>>]
      OBVIOUS
    <2>2. \A d \in Calls : calls'[d].result \in {"done", "replayed"} => calls'[d] = calls[d]
      BY <1>1, <1>5
    <2>3. rows' \in [Stores -> [Scopes -> Row \cup {None}]]
      BY DEF AdapterInv, AdapterTypeOK
    <2> QED
      BY <1>6, <1>7, <2>1, <2>2, <2>3, HistoryKept
  <1>9. rows' \in [Stores -> [Scopes -> Row \cup {None}]]
    BY DEF AdapterInv, AdapterTypeOK
  <1> QED
    BY <1>3, <1>4, <1>8, <1>9, CallStepInv

(* A call in flight ends: what the wire, the rows of its process and the   *)
(* result may be.                                                          *)
EndWire(c, result) ==
    /\ wire' \in [Calls -> {"none", "out", "in"}]
    /\ \A d \in Calls : d # c => wire'[d] = wire[d]
    /\ wire[c] = "in" => wire'[c] = "in"
    /\ wire'[c] # "none" => wire[c] # "none"
    /\ result = "not_sent" => wire'[c] = "none" \/ ~Journalled
    /\ result = "declined" => ~Journalled

EndRows(c, result) ==
    /\ rows' \in [Stores -> [Scopes -> Row \cup {None}]] /\ OwnRows(c)
    /\ OpenAPI => \A scope \in ScopesOf(calls[c].key, calls[c].act) :
          \/ rows'[StoreOf(calls[c].process)][scope] = None
          \/ rows'[StoreOf(calls[c].process)][scope].status # "IN_FLIGHT"
    /\ OpenAPI /\ result = "unknown" => \A scope \in ScopesOf(calls[c].key, calls[c].act) :
          /\ rows'[StoreOf(calls[c].process)][scope] # None
          /\ rows'[StoreOf(calls[c].process)][scope].status = "OUTCOME_UNKNOWN"
    /\ OpenAPI /\ result = "done" => \A scope \in KeyScopes(calls[c].key) :
          /\ rows'[StoreOf(calls[c].process)][scope] # None
          /\ rows'[StoreOf(calls[c].process)][scope].status = "COMPLETED"

EndAnswer(c, result, answer) ==
    /\ \A st \in Stores, key \in Keys, row \in Row :
          row = rows'[st][<<"idem", key>>] /\ row.status = "COMPLETED" =>
              \/ row = rows[st][<<"idem", key>>]
              \/ /\ result = "done" /\ calls[c].key = key
                 /\ row.act = calls[c].act /\ row.answer = answer
    /\ result = "done" /\ OpenAPI /\ adapter.witness # None => InPlace(calls[c].act, answer)

LEMMA EndInv ==
  ASSUME AdapterInv, NEW c \in Calls, Active(c), UNCHANGED <<adapter, applied, contacts>>,
         NEW result \in {"not_sent", "unknown", "done", "declined"},
         NEW answer \in Calls \cup {None},
         SetCall(c, calls[c].process, calls[c].key, calls[c].act, "ended", result, answer),
         EndWire(c, result), EndRows(c, result), EndAnswer(c, result, answer)
  PROVE  AdapterInv'
  <1> SUFFICES ASSUME wire' \in [Calls -> {"none", "out", "in"}],
         \A d \in Calls : d # c => wire'[d] = wire[d],
         wire[c] = "in" => wire'[c] = "in",
         wire'[c] # "none" => wire[c] # "none",
         result = "not_sent" => wire'[c] = "none" \/ ~Journalled,
         result = "declined" => ~Journalled,
         rows' \in [Stores -> [Scopes -> Row \cup {None}]], OwnRows(c),
         OpenAPI => \A scope \in ScopesOf(calls[c].key, calls[c].act) :
               \/ rows'[StoreOf(calls[c].process)][scope] = None
               \/ rows'[StoreOf(calls[c].process)][scope].status # "IN_FLIGHT",
         OpenAPI /\ result = "unknown" => \A scope \in ScopesOf(calls[c].key, calls[c].act) :
               /\ rows'[StoreOf(calls[c].process)][scope] # None
               /\ rows'[StoreOf(calls[c].process)][scope].status = "OUTCOME_UNKNOWN",
         OpenAPI /\ result = "done" => \A scope \in KeyScopes(calls[c].key) :
               /\ rows'[StoreOf(calls[c].process)][scope] # None
               /\ rows'[StoreOf(calls[c].process)][scope].status = "COMPLETED",
         \A st \in Stores, key \in Keys, row \in Row :
             row = rows'[st][<<"idem", key>>] /\ row.status = "COMPLETED" =>
                 \/ row = rows[st][<<"idem", key>>]
                 \/ /\ result = "done" /\ calls[c].key = key
                    /\ row.act = calls[c].act /\ row.answer = answer,
         result = "done" /\ OpenAPI /\ adapter.witness # None => InPlace(calls[c].act, answer)
               PROVE  AdapterInv'
    BY DEF EndWire, EndRows, EndAnswer
  <1>1. /\ calls[c].result = None /\ calls[c].process \in Processes /\ calls[c].phase # "idle"
        /\ calls[c].act \in Acts /\ Shape(c)
    BY DEF AdapterInv, Shapes, Shape, Active
  <1>2. result \in Results /\ "ended" \in Phases /\ AdapterTypeOK
    BY DEF Results, Phases, AdapterInv
  <1>3. /\ calls' \in [Calls -> Call]
        /\ \A d \in Calls : d # c => calls'[d] = calls[d]
        /\ calls'[c].phase = "ended" /\ calls'[c].process = calls[c].process
        /\ calls'[c].key = calls[c].key /\ calls'[c].act = calls[c].act
        /\ calls'[c].result = result /\ calls'[c].answer = answer
    <2>1. /\ calls[c].process \in Processes \cup {None} /\ calls[c].key \in Keys \cup {None}
          /\ calls[c].act \in Acts \cup {None}
      BY <1>2, CallType
    <2> DEFINE new == [phase |-> "ended", process |-> calls[c].process, key |-> calls[c].key, act |-> calls[c].act,
                       result |-> result, answer |-> answer]
    <2>2. new \in Call
      BY <1>2, <2>1 DEF Call
    <2>3. calls' = [calls EXCEPT ![c] = new]
      BY DEF SetCall
    <2>4. /\ new.phase = "ended" /\ new.process = calls[c].process /\ new.key = calls[c].key
          /\ new.act = calls[c].act /\ new.result = result /\ new.answer = answer
      OBVIOUS
    <2> HIDE DEF new
    <2> QED
      BY <1>2, <2>2, <2>3, <2>4 DEF AdapterTypeOK
  <1>4. \A x \in Results : x # None
    BY AdapterAssumption
  <1>5. JournalInv'
    <2>1. CASE OpenAPI
      <3>1. ASSUME NEW scope \in Scopes, Claims(c, scope)'
            PROVE  /\ rows'[StoreOf(calls[c].process)][scope] # None
                   /\ rows'[StoreOf(calls[c].process)][scope].status = ClaimStatus(c)'
        <4>1. /\ scope \in ScopesOf(calls[c].key, calls[c].act)
              /\ result = "unknown" \/ (result = "done" /\ scope \in KeyScopes(calls[c].key))
          BY <1>2, <1>3, <1>4, <3>1 DEF Claims, ScopesOf, KeyScopes, ActScopes
        <4>2. result # None
          BY <1>2, <1>4
        <4> QED
          BY <1>3, <2>1, <4>1, <4>2 DEF ClaimStatus
      <3> QED
        BY <1>3, <2>1, <3>1, OwnJournal
    <2>2. CASE ~OpenAPI
      BY <2>2 DEF JournalInv, OpenAPI
    <2> QED
      BY <2>1, <2>2
  <1>6. InFlightHeld'
    BY <1>3, HeldKept
  <1>7. \A d \in Calls : Keeps(d)
    <2>1. calls[c].result # "done"
      BY <1>1, <1>4 DEF Results
    <2> QED
      BY <1>3, <2>1 DEF Keeps
  <1>8. AppliedReceived'
    BY AppliedKept
  <1>9. History'
    <2>1. result = "done" => DoneAt(calls[c].key, calls[c].act, answer)'
      BY <1>3 DEF DoneAt
    <2>2. \A st \in Stores, key \in Keys, row \in Row :
             row = rows'[st][<<"idem", key>>] /\ row.status = "COMPLETED" =>
                 row = rows[st][<<"idem", key>>] \/ DoneAt(key, row.act, row.answer)'
      <3> SUFFICES ASSUME NEW st \in Stores, NEW key \in Keys, NEW row \in Row,
                          row = rows'[st][<<"idem", key>>], row.status = "COMPLETED",
                          row # rows[st][<<"idem", key>>]
                   PROVE  DoneAt(key, row.act, row.answer)'
        OBVIOUS
      <3> QED
        BY <1>3 DEF DoneAt
    <2>3. \A d \in Calls : calls'[d].result = "replayed" => calls'[d] = calls[d]
      BY <1>3
    <2>4. \A d \in Calls : calls'[d].result = "done" =>
             \/ calls[d].result = "done"
             \/ OpenAPI /\ adapter.witness # None => InPlace(calls'[d].act, calls'[d].answer)
      BY <1>3
    <2> HIDE DEF OpenAPI
    <2> QED
      BY <1>7, <1>8, <2>2, <2>3, <2>4, HistoryKept
  <1>10. Shape(c)'
    BY <1>1, <1>2, <1>3, <1>4 DEF Shape, Active, Accepts, Journalled, OpenAPI
  <1>11. contacts' \subseteq {Home}
    BY DEF AdapterInv, ContactsHome
  <1> QED
    BY <1>3, <1>5, <1>6, <1>9, <1>10, <1>11, CallStepInv

-----------------------------------------------------------------------------
(* execute() begins. *)

(* A call that ends with the look at the journal.                          *)
LEMMA StartEndInv ==
  ASSUME AdapterInv, NEW c \in Calls, calls[c].phase = "idle",
         UNCHANGED <<adapter, rows, wire, applied, contacts>>,
         NEW p \in Processes, NEW key \in Keys \cup {None}, NEW act \in Acts,
         NEW result \in {"invalid", "conflict", "mismatch", "replayed"},
         NEW answer \in Calls \cup {None},
         SetCall(c, p, key, act, "ended", result, answer),
         result = "replayed" => DoneAt(key, act, answer)
  PROVE  AdapterInv'
  <1>1. /\ AdapterTypeOK /\ result \in Results /\ "ended" \in Phases
        /\ p \in Processes \cup {None} /\ act \in Acts \cup {None} /\ result \in Results \cup {None}
    BY DEF AdapterInv, Results, Phases
  <1>2. /\ calls' \in [Calls -> Call]
        /\ \A d \in Calls : d # c => calls'[d] = calls[d]
        /\ calls'[c].phase = "ended" /\ calls'[c].process = p
        /\ calls'[c].key = key /\ calls'[c].act = act
        /\ calls'[c].result = result /\ calls'[c].answer = answer
    <2> DEFINE new == [phase |-> "ended", process |-> p, key |-> key, act |-> act,
                       result |-> result, answer |-> answer]
    <2>1. new \in Call
      BY <1>1 DEF Call
    <2>2. calls' = [calls EXCEPT ![c] = new]
      BY DEF SetCall
    <2>3. /\ new.phase = "ended" /\ new.process = p /\ new.key = key /\ new.act = act
          /\ new.result = result /\ new.answer = answer
      OBVIOUS
    <2> HIDE DEF new
    <2> QED
      BY <1>1, <2>1, <2>2, <2>3 DEF AdapterTypeOK
  <1>3. \A x \in Results : x # None
    BY AdapterAssumption
  <1>4. calls[c].result = None /\ calls[c].key = None /\ wire[c] = "none"
    BY DEF AdapterInv, Shapes, Shape, NoCall
  <1>5. \A scope \in Scopes : ~Claims(c, scope)'
    BY <1>1, <1>2, <1>3 DEF Claims
  <1>6. JournalInv'
    BY <1>2, <1>5, IdleJournal
  <1>7. \A d \in Calls : Keeps(d)
    <2>1. calls[c].result # "done"
      BY <1>3, <1>4 DEF Results
    <2> QED
      BY <1>2, <2>1 DEF Keeps
  <1>8. AppliedReceived'
    BY AppliedKept
  <1>9. rows' \in [Stores -> [Scopes -> Row \cup {None}]]
        /\ wire' \in [Calls -> {"none", "out", "in"}]
    BY DEF AdapterInv, AdapterTypeOK
  <1>10. History'
    <2>1. \A d \in Calls : calls'[d].result = "replayed" =>
             \/ calls[d].result = "replayed" /\ calls'[d].answer = calls[d].answer
             \/ DoneAt(calls'[d].key, calls'[d].act, calls'[d].answer)
      BY <1>2
    <2>2. \A d \in Calls : calls'[d].result = "done" => calls[d].result = "done"
      BY <1>2
    <2>3. \A st \in Stores, k \in Keys, row \in Row :
             row = rows'[st][<<"idem", k>>] /\ row.status = "COMPLETED" =>
                 row = rows[st][<<"idem", k>>]
      OBVIOUS
    <2> QED
      BY <1>7, <1>8, <1>9, <2>1, <2>2, <2>3, HistoryKept
  <1>11. InFlightHeld'
    <2>1. \A k \in Keys, d \in Calls : calls[d].key = k => d # c
      BY <1>4, AdapterAssumption
    <2> QED
      BY <1>2, <2>1 DEF AdapterInv, InFlightHeld, StatusAt, StoreOf
  <1>12. Shape(c)'
    BY <1>1, <1>2, <1>3, <1>4 DEF Shape, Active, Accepts, Journalled, OpenAPI
  <1>13. contacts' \subseteq {Home}
    BY DEF AdapterInv, ContactsHome
  <1> QED
    BY <1>2, <1>6, <1>9, <1>10, <1>11, <1>12, <1>13, CallStepInv

(* A call that goes on, in a journal where nothing stood in its way.       *)
LEMMA StartLookupInv ==
  ASSUME AdapterInv, NEW c \in Calls, calls[c].phase = "idle",
         UNCHANGED <<adapter, wire, applied, contacts>>,
         NEW p \in Processes, NEW key \in Keys \cup {None}, NEW act \in Acts, Accepts(act),
         SetCall(c, p, key, act, "looked_up", None, None),
         \/ ~OpenAPI /\ UNCHANGED rows
         \/ /\ OpenAPI /\ ~Completed(p, key) /\ ~Locked(p, ScopesOf(key, act))
            /\ Put(p, ScopesOf(key, act), RowOf("IN_FLIGHT", act, None))
  PROVE  AdapterInv'
  <1> DEFINE row == RowOf("IN_FLIGHT", act, None)
             mine == ScopesOf(key, act)
  <1>1. /\ AdapterTypeOK /\ "looked_up" \in Phases
        /\ p \in Processes \cup {None} /\ act \in Acts \cup {None}
        /\ None \in Results \cup {None} /\ None \in Calls \cup {None}
    BY DEF AdapterInv, Phases
  <1>2. /\ calls' \in [Calls -> Call]
        /\ \A d \in Calls : d # c => calls'[d] = calls[d]
        /\ calls'[c].phase = "looked_up" /\ calls'[c].process = p
        /\ calls'[c].key = key /\ calls'[c].act = act
        /\ calls'[c].result = None /\ calls'[c].answer = None
    BY <1>1 DEF SetCall, AdapterTypeOK, Call
  <1>3. \A x \in Results : x # None
    BY AdapterAssumption
  <1>4. calls[c].result = None /\ calls[c].key = None /\ wire[c] = "none"
    BY DEF AdapterInv, Shapes, Shape, NoCall
  <1>5. mine \subseteq Scopes /\ KeyScopes(key) \subseteq mine
    BY ScopeType
  <1>6. row \in Row /\ row # None /\ row.status = "IN_FLIGHT"
    BY AdapterAssumption DEF Row, RowOf, Statuses
  <1> HIDE DEF row, mine
  <1>7. rows' \in [Stores -> [Scopes -> Row \cup {None}]]
    <2>1. CASE OpenAPI
      BY <1>1, <1>5, <1>6, <2>1, PutFacts DEF row, mine
    <2>2. CASE ~OpenAPI
      BY <1>1, <2>2 DEF AdapterTypeOK
    <2> QED
      BY <2>1, <2>2
  <1>8. OpenAPI => \A st \in Stores, scope \in Scopes :
             rows'[st][scope] = IF st = StoreOf(p) /\ scope \in mine THEN row ELSE rows[st][scope]
    BY <1>1, <1>5, <1>6, PutFacts DEF row, mine
  <1>9. ASSUME OpenAPI, NEW scope \in Scopes, scope \in mine, NEW d \in Calls, d # c,
               Claims(d, scope), adapter.durable \/ calls[d].process = p
        PROVE  FALSE
    <2>1. StoreOf(calls[d].process) = StoreOf(p) /\ HasJournal(d)
      BY <1>9, AdapterAssumption DEF StoreOf, HasJournal
    <2>2. rows[StoreOf(p)][scope] # None /\ rows[StoreOf(p)][scope].status = ClaimStatus(d)
      BY <1>9, <2>1 DEF AdapterInv, JournalInv, ClaimsShow
    <2>3. StatusAt(p, scope) = ClaimStatus(d)
      BY <2>2 DEF StatusAt
    <2>4. ClaimStatus(d) \notin {"IN_FLIGHT", "OUTCOME_UNKNOWN"}
      BY <1>9, <2>3 DEF Locked, mine
    <2>5. ClaimStatus(d) = "COMPLETED" /\ scope \in KeyScopes(calls[d].key)
      BY <1>9, <2>4 DEF ClaimStatus, Claims
    <2>6. PICK k \in Keys : scope = <<"idem", k>>
      BY <2>5, CallType, <1>1 DEF KeyScopes
    <2>7. key = k
      BY <1>9, <2>6 DEF mine, ScopesOf, KeyScopes, ActScopes
    <2>8. Completed(p, key)
      BY <2>3, <2>5, <2>6, <2>7, AdapterAssumption DEF Completed
    <2> QED
      BY <1>9, <2>8
  <1>10. JournalInv'
    <2> SUFFICES ASSUME OpenAPI PROVE ClaimsShow' /\ ClaimsExclude'
      BY DEF JournalInv, OpenAPI
    <2>1. ClaimsShow /\ ClaimsExclude
      BY DEF AdapterInv, JournalInv
    <2>2. \A d \in Calls, scope \in Scopes : d # c => (Claims(d, scope)' <=> Claims(d, scope))
      BY <1>2 DEF Claims, ScopesOf, KeyScopes, ActScopes
    <2>3. \A scope \in Scopes : Claims(c, scope)' => scope \in mine
      BY <1>2 DEF Claims, ScopesOf, KeyScopes, ActScopes, mine
    <2>4. \A d \in Calls, scope \in mine :
             d # c /\ scope \in Scopes /\ (adapter.durable \/ calls[d].process = p)
               => ~Claims(d, scope)
      BY <1>9
    <2>5. ClaimsExclude'
      <3> SUFFICES ASSUME NEW d \in Calls, NEW e \in Calls, NEW scope \in Scopes, d # e,
                          SameJournal(d, e)', Claims(d, scope)', Claims(e, scope)'
                   PROVE  FALSE
        BY DEF ClaimsExclude
      <3>1. CASE d # c /\ e # c
        BY <1>2, <2>1, <2>2, <3>1 DEF ClaimsExclude, SameJournal
      <3>2. CASE d = c
        <4>1. adapter.durable \/ calls[e].process = p
          BY <1>2, <3>2 DEF SameJournal
        <4> QED
          BY <2>2, <2>3, <2>4, <3>2, <4>1
      <3>3. CASE e = c
        <4>1. adapter.durable \/ calls[d].process = p
          BY <1>2, <3>3 DEF SameJournal
        <4> QED
          BY <2>2, <2>3, <2>4, <3>3, <4>1
      <3> QED
        BY <3>1, <3>2, <3>3
    <2>6. ClaimsShow'
      <3> SUFFICES ASSUME NEW d \in Calls, NEW scope \in Scopes, Claims(d, scope)', HasJournal(d)'
                   PROVE  /\ rows'[StoreOf(calls'[d].process)][scope] # None
                          /\ rows'[StoreOf(calls'[d].process)][scope].status = ClaimStatus(d)'
        BY DEF ClaimsShow, StoreOf
      <3>1. CASE d = c
        <4>1. StoreOf(p) \in Stores
          BY StoreType
        <4>2. ClaimStatus(c)' = "IN_FLIGHT"
          BY <1>2 DEF ClaimStatus
        <4> QED
          BY <1>2, <1>6, <1>8, <2>3, <3>1, <4>1, <4>2
      <3>2. CASE d # c
        <4>1. HasJournal(d) /\ Claims(d, scope) /\ calls'[d] = calls[d]
          BY <1>2, <2>2, <3>2 DEF HasJournal
        <4>2. StoreOf(calls[d].process) \in Stores
          BY <1>1, <4>1, CallType DEF HasJournal, StoreOf, Stores
        <4>3. /\ rows[StoreOf(calls[d].process)][scope] # None
              /\ rows[StoreOf(calls[d].process)][scope].status = ClaimStatus(d)
          BY <2>1, <4>1 DEF ClaimsShow
        <4>4. StoreOf(calls[d].process) # StoreOf(p) \/ scope \notin mine
          BY <1>1, <2>4, <3>2, <4>1 DEF StoreOf
        <4>5. rows'[StoreOf(calls[d].process)][scope] = rows[StoreOf(calls[d].process)][scope]
          BY <1>8, <4>2, <4>4
        <4>6. ClaimStatus(d)' = ClaimStatus(d)
          BY <4>1 DEF ClaimStatus
        <4> QED
          BY <4>1, <4>3, <4>5, <4>6
      <3> QED
        BY <3>1, <3>2
    <2> QED
      BY <2>5, <2>6
  <1>11. \A d \in Calls : Keeps(d)
    <2>1. calls[c].result # "done"
      BY <1>3, <1>4 DEF Results
    <2> QED
      BY <1>2, <2>1 DEF Keeps
  <1>12. AppliedReceived'
    BY AppliedKept
  <1>13. History'
    <2>1. \A d \in Calls : calls'[d].result \in {"replayed", "done"} => calls'[d] = calls[d]
      <3>1. "replayed" # None /\ "done" # None
        BY <1>3 DEF Results
      <3> QED
        BY <1>2, <3>1
    <2>2. \A st \in Stores, k \in Keys, r \in Row :
             r = rows'[st][<<"idem", k>>] /\ r.status = "COMPLETED" => r = rows[st][<<"idem", k>>]
      <3>1. \A k \in Keys : <<"idem", k>> \in Scopes
        BY DEF Scopes
      <3> QED
        BY <1>6, <1>8, <3>1
    <2> QED
      BY <1>7, <1>11, <1>12, <2>1, <2>2, HistoryKept
  <1>14. InFlightHeld'
    <2> SUFFICES ASSUME adapter.durable, NEW k \in Keys,
                        rows'["file"][<<"idem", k>>] # None,
                        rows'["file"][<<"idem", k>>].status = "IN_FLIGHT"
                 PROVE  \E d \in Calls : calls'[d].key = k /\ calls'[d].result = None
      BY DEF InFlightHeld, StatusAt, StoreOf
    <2>1. OpenAPI /\ \A x : StoreOf(x) = "file"
      BY AdapterAssumption DEF AdapterInv, AdapterTypeOK, OpenAPI, StoreOf
    <2>2. <<"idem", k>> \in Scopes /\ "file" \in Stores
      BY DEF Scopes, Stores
    <2>3. CASE key = k
      BY <1>2, <2>3
    <2>4. CASE key # k
      <3>1. <<"idem", k>> \notin mine
        BY <2>4 DEF mine, ScopesOf, KeyScopes, ActScopes
      <3>2. rows'["file"][<<"idem", k>>] = rows["file"][<<"idem", k>>]
        BY <1>8, <2>1, <2>2, <3>1
      <3>3. PICK d \in Calls : calls[d].key = k /\ calls[d].result = None
        BY <2>1, <3>2 DEF AdapterInv, InFlightHeld, StatusAt
      <3>4. d # c
        BY <1>4, <3>3, AdapterAssumption
      <3> QED
        BY <1>2, <3>3, <3>4
    <2> QED
      BY <2>3, <2>4
  <1>15. Shape(c)'
    BY <1>2, <1>4 DEF Shape, Active, Accepts, Journalled, OpenAPI
  <1>16. contacts' \subseteq {Home} /\ wire' \in [Calls -> {"none", "out", "in"}]
    BY DEF AdapterInv, ContactsHome, AdapterTypeOK
  <1> QED
    BY <1>2, <1>7, <1>10, <1>13, <1>14, <1>15, <1>16, CallStepInv

LEMMA RecallInv ==
  ASSUME AdapterInv, NEW c \in Calls, calls[c].phase = "idle",
         UNCHANGED <<adapter, rows, wire, applied, contacts>>,
         NEW p \in Processes, NEW key \in Keys \cup {None}, NEW act \in Acts,
         Completed(p, key), Recall(c, p, key, act)
  PROVE  AdapterInv'
  <1> DEFINE row == rows[StoreOf(p)][<<"idem", key>>]
  <1>1. key \in Keys
    BY DEF Completed
  <1>2. StoreOf(p) \in Stores /\ <<"idem", key>> \in Scopes
    BY <1>1, StoreType DEF Scopes
  <1>3. row # None /\ row.status = "COMPLETED"
    BY DEF Completed, StatusAt
  <1>4. row \in Row
    BY <1>2, <1>3 DEF AdapterInv, AdapterTypeOK
  <1>5. DoneAt(key, row.act, row.answer)
    BY <1>1, <1>2, <1>3 DEF AdapterInv, History, RowsBacked
  <1>6. row.answer \in Calls \cup {None}
    BY <1>4 DEF Row
  <1>7. CASE row.act = act
    <2>1. SetCall(c, p, key, act, "ended", "replayed", row.answer)
      BY <1>7 DEF Recall
    <2> HIDE DEF row
    <2> QED
      BY <1>5, <1>6, <1>7, <2>1, StartEndInv
  <1>8. CASE row.act # act
    <2>1. SetCall(c, p, key, act, "ended", "mismatch", None)
      BY <1>8 DEF Recall
    <2> HIDE DEF row
    <2> QED
      BY <2>1, StartEndInv
  <1> QED
    BY <1>7, <1>8

LEMMA ExecuteInv ==
  ASSUME AdapterInv, NEW c \in Calls, NEW p \in Processes, NEW key \in Keys \cup {None},
         NEW act \in Acts, Execute(c, p, key, act)
  PROVE  AdapterInv'
  <1>1. calls[c].phase = "idle" /\ UNCHANGED <<adapter, wire, applied, contacts>>
    BY DEF Execute
  <1>2. ASSUME SetCall(c, p, key, act, "ended", "invalid", None), UNCHANGED rows
        PROVE  AdapterInv'
    BY <1>1, <1>2, StartEndInv
  <1>3. CASE OpenAPI /\ Accepts(act)
    <2>1. ReserveOrCheck(c, p, key, act)
      BY <1>3 DEF Execute, OpenAPI
    <2>2. CASE Completed(p, key) /\ (adapter.durable \/ ~Locked(p, ActScopes(act)))
      BY <1>1, <2>1, <2>2, RecallInv DEF ReserveOrCheck
    <2>3. CASE ~(Completed(p, key) /\ (adapter.durable \/ ~Locked(p, ActScopes(act))))
      <3>1. CASE Locked(p, ScopesOf(key, act))
        <4>1. SetCall(c, p, key, act, "ended", "conflict", None) /\ UNCHANGED rows
          BY <2>1, <2>3, <3>1 DEF ReserveOrCheck
        <4> QED
          BY <1>1, <4>1, StartEndInv
      <3>2. CASE ~Locked(p, ScopesOf(key, act))
        <4>1. /\ Put(p, ScopesOf(key, act), RowOf("IN_FLIGHT", act, None))
              /\ SetCall(c, p, key, act, "looked_up", None, None)
          BY <2>1, <2>3, <3>2 DEF ReserveOrCheck
        <4>2. ~Locked(p, ActScopes(act))
          BY <3>2, ScopeType DEF Locked
        <4>3. ~Completed(p, key)
          BY <2>3, <4>2
        <4> QED
          BY <1>1, <1>3, <3>2, <4>1, <4>3, StartLookupInv
      <3> QED
        BY <3>1, <3>2
    <2> QED
      BY <2>2, <2>3
  <1>4. CASE adapter.kind = "github"
    <2>1. ~OpenAPI /\ LookInCache(c, p, key, act) /\ UNCHANGED rows
      BY <1>4 DEF Execute, OpenAPI
    <2>2. CASE Completed(p, key)
      BY <1>1, <2>1, <2>2, RecallInv DEF LookInCache
    <2>3. CASE ~Completed(p, key) /\ Accepts(act)
      <3>1. SetCall(c, p, key, act, "looked_up", None, None)
        BY <2>1, <2>3 DEF LookInCache
      <3> QED
        BY <1>1, <2>1, <2>3, <3>1, StartLookupInv
    <2>4. CASE ~Completed(p, key) /\ ~Accepts(act)
      BY <1>2, <2>1, <2>4 DEF LookInCache
    <2> QED
      BY <2>2, <2>3, <2>4
  <1>5. CASE adapter.kind = "stripe" /\ Accepts(act)
    <2>1. ~OpenAPI /\ SetCall(c, p, key, act, "looked_up", None, None) /\ UNCHANGED rows
      BY <1>5 DEF Execute, OpenAPI
    <2> QED
      BY <1>1, <1>5, <2>1, StartLookupInv
  <1>6. CASE /\ ~(OpenAPI /\ Accepts(act)) /\ adapter.kind # "github"
             /\ ~(adapter.kind = "stripe" /\ Accepts(act))
    BY <1>2, <1>6 DEF Execute
  <1> QED
    BY <1>3, <1>4, <1>5, <1>6

-----------------------------------------------------------------------------
(* The other steps of a call. *)

LEMMA ActiveFacts ==
  ASSUME AdapterInv, NEW c \in Calls, Active(c)
  PROVE  /\ calls[c].process \in Processes /\ calls[c].act \in Acts /\ calls[c].result = None
         /\ calls[c].key \in Keys \cup {None} /\ calls[c].phase # "idle"
         /\ Accepts(calls[c].act) /\ Shape(c)
         /\ StoreOf(calls[c].process) \in Stores
         /\ ScopesOf(calls[c].key, calls[c].act) \subseteq Scopes
  <1>1. Shape(c) /\ AdapterTypeOK
    BY DEF AdapterInv, Shapes
  <1>2. calls[c].phase # "idle"
    BY DEF Active
  <1>3. calls[c].process \in Processes /\ calls[c].act \in Acts /\ calls[c].key \in Keys \cup {None}
    BY <1>1, <1>2, CallType DEF Shape
  <1> QED
    BY <1>1, <1>2, <1>3, StoreType, ScopeType DEF Shape

LEMMA ReleaseEndInv ==
  ASSUME AdapterInv, NEW c \in Calls, Active(c), UNCHANGED <<adapter, applied, contacts>>,
         ReleaseRows(c), Ends(c, "not_sent", None),
         wire' \in [Calls -> {"none", "out", "in"}],
         \A d \in Calls : d # c => wire'[d] = wire[d],
         wire[c] = "in" => wire'[c] = "in",
         wire'[c] # "none" => wire[c] # "none",
         wire'[c] = "none" \/ ~Journalled
  PROVE  AdapterInv'
  <1>1. AdapterTypeOK /\ calls[c].process \in Processes /\ calls[c].act \in Acts
    BY ActiveFacts DEF AdapterInv
  <1>2. /\ rows' \in [Stores -> [Scopes -> Row \cup {None}]]
        /\ OwnRows(c)
        /\ \A st \in Stores, scope \in Scopes : rows'[st][scope] \in {None, rows[st][scope]}
        /\ OpenAPI => \A scope \in ScopesOf(calls[c].key, calls[c].act) :
               StatusAt(calls[c].process, scope) = "IN_FLIGHT"
                 => rows'[StoreOf(calls[c].process)][scope] = None
    BY <1>1, ReleaseFacts
  <1>3. OpenAPI => \A scope \in ScopesOf(calls[c].key, calls[c].act) :
               \/ rows'[StoreOf(calls[c].process)][scope] = None
               \/ rows'[StoreOf(calls[c].process)][scope].status # "IN_FLIGHT"
    BY <1>2, ActiveFacts DEF StatusAt
  <1>4. \A st \in Stores, key \in Keys, row \in Row :
             row = rows'[st][<<"idem", key>>] /\ row.status = "COMPLETED" =>
                 row = rows[st][<<"idem", key>>]
    BY <1>2, AdapterAssumption DEF Scopes
  <1>5. SetCall(c, calls[c].process, calls[c].key, calls[c].act, "ended", "not_sent", None)
    BY DEF Ends
  <1>6. PICK result \in {"not_sent", "unknown", "done", "declined"}, answer \in Calls \cup {None} :
           result = "not_sent" /\ answer = None
    OBVIOUS
  <1>7. SetCall(c, calls[c].process, calls[c].key, calls[c].act, "ended", result, answer)
    BY <1>5, <1>6
  <1>8. result # "unknown" /\ result # "done" /\ result # "declined"
    BY <1>6
  <1> QED
    <2>1. EndWire(c, result)
      BY <1>8 DEF EndWire
    <2>2. EndRows(c, result)
      BY <1>2, <1>3, <1>8 DEF EndRows
    <2>3. EndAnswer(c, result, answer)
      BY <1>4, <1>8 DEF EndAnswer
    <2> QED
      BY <1>7, <2>1, <2>2, <2>3, EndInv

LEMMA RefusedInv ==
  ASSUME AdapterInv, NEW c \in Calls, RefusedBeforeDispatch(c)
  PROVE  AdapterInv'
  <1>1. /\ calls[c].phase = "looked_up" /\ ReleaseRows(c) /\ Ends(c, "not_sent", None)
        /\ UNCHANGED <<adapter, wire, applied, contacts>>
    BY DEF RefusedBeforeDispatch
  <1>2. Active(c)
    BY <1>1 DEF Active
  <1>3. wire' \in [Calls -> {"none", "out", "in"}] /\ wire'[c] = "none"
    BY <1>1 DEF AdapterInv, AdapterTypeOK, Shapes, Shape
  <1> QED
    BY <1>1, <1>2, <1>3, ReleaseEndInv

LEMMA ConnectionRefusedInv ==
  ASSUME AdapterInv, NEW c \in Calls, ConnectionRefused(c)
  PROVE  AdapterInv'
  <1>1. ReleaseRows(c) /\ Ends(c, "not_sent", None) /\ UNCHANGED <<adapter, applied, contacts>>
    BY DEF ConnectionRefused
  <1>2. Active(c)
    BY DEF ConnectionRefused, Active
  <1>3. wire \in [Calls -> {"none", "out", "in"}]
    BY DEF AdapterInv, AdapterTypeOK
  <1>4. CASE /\ calls[c].phase = "sending" /\ wire[c] = "out"
             /\ wire' = [wire EXCEPT ![c] = "none"]
    <2>1. /\ wire' \in [Calls -> {"none", "out", "in"}] /\ wire'[c] = "none"
          /\ \A d \in Calls : d # c => wire'[d] = wire[d]
      BY <1>3, <1>4
    <2> QED
      BY <1>1, <1>2, <1>4, <2>1, ReleaseEndInv
  <1>5. CASE calls[c].phase = "redirected" /\ UNCHANGED wire
    <2>1. ~Journalled
      BY <1>5 DEF AdapterInv, Shapes, Shape, Journalled
    <2> QED
      BY <1>1, <1>2, <1>3, <1>5, <2>1, ReleaseEndInv
  <1> QED
    BY <1>4, <1>5 DEF ConnectionRefused

LEMMA UncertainInv ==
  ASSUME AdapterInv, NEW c \in Calls, Active(c), RecordUncertain(c)
  PROVE  AdapterInv'
  <1>1. AdapterTypeOK /\ calls[c].process \in Processes /\ calls[c].act \in Acts
    BY ActiveFacts DEF AdapterInv
  <1>2. /\ UNCHANGED <<adapter, wire, applied, contacts>>
        /\ SetCall(c, calls[c].process, calls[c].key, calls[c].act, "ended", "unknown", None)
    BY DEF RecordUncertain, Ends
  <1>3. /\ rows' \in [Stores -> [Scopes -> Row \cup {None}]]
        /\ OwnRows(c)
        /\ \A st \in Stores, scope \in Scopes :
               rows'[st][scope] = rows[st][scope] \/ rows'[st][scope].status = "OUTCOME_UNKNOWN"
        /\ OpenAPI => \A scope \in ScopesOf(calls[c].key, calls[c].act) :
               /\ rows'[StoreOf(calls[c].process)][scope] # None
               /\ rows'[StoreOf(calls[c].process)][scope].status = "OUTCOME_UNKNOWN"
    BY <1>1, UncertainFacts
  <1>4. OpenAPI => \A scope \in ScopesOf(calls[c].key, calls[c].act) :
               rows'[StoreOf(calls[c].process)][scope].status # "IN_FLIGHT"
    BY <1>3
  <1>5. \A st \in Stores, key \in Keys, row \in Row :
             row = rows'[st][<<"idem", key>>] /\ row.status = "COMPLETED" =>
                 row = rows[st][<<"idem", key>>]
    BY <1>3 DEF Scopes
  <1>6. wire' \in [Calls -> {"none", "out", "in"}]
    BY <1>2 DEF AdapterInv, AdapterTypeOK
  <1>7. PICK result \in {"not_sent", "unknown", "done", "declined"}, answer \in Calls \cup {None} :
           result = "unknown" /\ answer = None
    OBVIOUS
  <1>8. SetCall(c, calls[c].process, calls[c].key, calls[c].act, "ended", result, answer)
    BY <1>2, <1>7
  <1>9. result # "not_sent" /\ result # "done" /\ result # "declined"
    BY <1>7
  <1> QED
    <2>1. EndWire(c, result)
      BY <1>2, <1>6, <1>9 DEF EndWire
    <2>2. EndRows(c, result)
      BY <1>3, <1>4, <1>9 DEF EndRows
    <2>3. EndAnswer(c, result, answer)
      BY <1>5, <1>9 DEF EndAnswer
    <2> QED
      BY <1>2, <1>8, <2>1, <2>2, <2>3, EndInv

LEMMA SendInv ==
  ASSUME AdapterInv, NEW c \in Calls, Send(c)
  PROVE  AdapterInv'
  <1>1. /\ calls[c].phase = "looked_up" /\ calls' = [calls EXCEPT ![c].phase = "sending"]
        /\ wire' = [wire EXCEPT ![c] = "out"] /\ UNCHANGED <<adapter, rows, applied>>
    BY DEF Send
  <1>2. Active(c)
    BY <1>1 DEF Active
  <1>3. contacts' \subseteq {Home}
    BY DEF Send, OpenAPISends, GitHubSends, StripeSends, Allowed, AdapterInv, ContactsHome
  <1>4. /\ calls' \in [Calls -> Call]
        /\ \A d \in Calls : d # c => calls'[d] = calls[d]
        /\ calls'[c].phase = "sending" /\ calls'[c].process = calls[c].process
        /\ calls'[c].key = calls[c].key /\ calls'[c].act = calls[c].act
        /\ calls'[c].result = calls[c].result
    BY <1>1 DEF AdapterInv, AdapterTypeOK, Call, Phases
  <1>5. /\ wire' \in [Calls -> {"none", "out", "in"}] /\ wire'[c] = "out"
        /\ \A d \in Calls : d # c => wire'[d] = wire[d]
    BY <1>1 DEF AdapterInv, AdapterTypeOK
  <1>6. wire[c] = "none"
    BY <1>1 DEF AdapterInv, Shapes, Shape
  <1>7. Shape(c)'
    BY <1>1, <1>2, <1>4, <1>5, ActiveFacts DEF Shape, Active, Accepts, Journalled, OpenAPI
  <1> QED
    BY <1>1, <1>2, <1>3, <1>4, <1>5, <1>6, <1>7, ProgressInv

LEMMA RedirectInv ==
  ASSUME AdapterInv, NEW c \in Calls, Redirect(c)
  PROVE  AdapterInv'
  <1>1. OpenAPI /\ calls[c].phase = "sending" /\ wire[c] = "in"
    BY DEF Redirect
  <1>2. Active(c)
    BY <1>1 DEF Active
  <1>3. PICK t \in Targets :
           IF Follows(t)
           THEN /\ contacts' = contacts \cup {[t EXCEPT !.address = "public"]}
                /\ calls' = [calls EXCEPT ![c].phase = "redirected"]
                /\ UNCHANGED <<adapter, rows, wire, applied>>
           ELSE RecordUncertain(c)
    BY DEF Redirect
  <1>4. CASE ~Follows(t)
    BY <1>2, <1>3, <1>4, UncertainInv
  <1>5. CASE Follows(t)
    <2>1. /\ contacts' = contacts \cup {[t EXCEPT !.address = "public"]}
          /\ calls' = [calls EXCEPT ![c].phase = "redirected"]
          /\ UNCHANGED <<adapter, rows, wire, applied>>
      BY <1>3, <1>5
    <2>2. adapter.redirects /\ t = Home
      BY <1>5 DEF Follows, Allowed
    <2>3. [t EXCEPT !.address = "public"] = Home
      BY <2>2 DEF Home
    <2>4. contacts' \subseteq {Home}
      BY <2>1, <2>3 DEF AdapterInv, ContactsHome
    <2>5. /\ calls' \in [Calls -> Call]
          /\ \A d \in Calls : d # c => calls'[d] = calls[d]
          /\ calls'[c].phase = "redirected" /\ calls'[c].process = calls[c].process
          /\ calls'[c].key = calls[c].key /\ calls'[c].act = calls[c].act
          /\ calls'[c].result = calls[c].result
      BY <2>1 DEF AdapterInv, AdapterTypeOK, Call, Phases
    <2>6. wire' \in [Calls -> {"none", "out", "in"}]
      BY <2>1 DEF AdapterInv, AdapterTypeOK
    <2>7. Shape(c)'
      BY <1>1, <1>2, <2>1, <2>2, <2>5, ActiveFacts DEF Shape, Active, Accepts, Journalled, OpenAPI
    <2> QED
      BY <1>2, <2>1, <2>4, <2>5, <2>6, <2>7, ProgressInv
  <1> QED
    BY <1>4, <1>5

LEMMA AnsweredCall ==
  ASSUME NEW old \in Call, NEW d \in Calls
  PROVE  LET new == [old EXCEPT !.phase = "answered", !.answer = d]
         IN /\ new \in Call /\ new.phase = "answered" /\ new.process = old.process
            /\ new.key = old.key /\ new.act = old.act /\ new.result = old.result
  BY DEF Call, Phases

LEMMA AnswerInv ==
  ASSUME AdapterInv, NEW c \in Calls, Answer(c)
  PROVE  AdapterInv'
  <1>1. PICK d \in Calls :
          /\ calls' = [calls EXCEPT ![c].phase = "answered", ![c].answer = d]
          /\ UNCHANGED <<adapter, rows, wire, applied, contacts>>
    BY DEF Answer
  <1>2. Active(c) /\ wire[c] = "in"
    BY DEF Answer, Active
  <1>3. /\ calls' \in [Calls -> Call]
        /\ \A x \in Calls : x # c => calls'[x] = calls[x]
        /\ calls'[c].phase = "answered" /\ calls'[c].process = calls[c].process
        /\ calls'[c].key = calls[c].key /\ calls'[c].act = calls[c].act
        /\ calls'[c].result = calls[c].result
    <2>1. calls \in [Calls -> Call]
      BY DEF AdapterInv, AdapterTypeOK
    <2>2. PICK old \in Call : old = calls[c]
      BY <2>1
    <2> DEFINE new == [old EXCEPT !.phase = "answered", !.answer = d]
    <2>3. /\ new \in Call /\ new.phase = "answered" /\ new.process = old.process
          /\ new.key = old.key /\ new.act = old.act /\ new.result = old.result
      BY AnsweredCall
    <2>4. calls' = [calls EXCEPT ![c] = new]
      BY <1>1, <2>1, <2>2
    <2> HIDE DEF new
    <2> QED
      BY <2>1, <2>2, <2>3, <2>4
  <1>4. wire' \in [Calls -> {"none", "out", "in"}] /\ contacts' \subseteq {Home}
    BY <1>1 DEF AdapterInv, AdapterTypeOK, ContactsHome
  <1>5. Shape(c)'
    BY <1>1, <1>2, <1>3, ActiveFacts DEF Shape, Active, Accepts, Journalled, OpenAPI
  <1> QED
    BY <1>1, <1>2, <1>3, <1>4, <1>5, ProgressInv

LEMMA CompleteInv ==
  ASSUME AdapterInv, NEW c \in Calls, Complete(c)
  PROVE  AdapterInv'
  <1>1. calls[c].phase = "answered" /\ UNCHANGED <<adapter, wire, applied, contacts>>
    BY DEF Complete
  <1>2. Active(c) /\ AdapterTypeOK
    BY <1>1 DEF Active, AdapterInv
  <1>3. /\ calls[c].process \in Processes /\ calls[c].act \in Acts
        /\ calls[c].answer \in Calls \cup {None}
        /\ wire' \in [Calls -> {"none", "out", "in"}]
    BY <1>1, <1>2, ActiveFacts, CallType DEF AdapterTypeOK
  <1>4. CASE CompleteStripe(c)
    <2>1. PICK result \in {"done", "declined"} : Ends(c, result, calls[c].answer)
      BY <1>4 DEF CompleteStripe
    <2>2. ~OpenAPI /\ ~Journalled /\ UNCHANGED rows
      BY <1>4 DEF CompleteStripe, OpenAPI, Journalled
    <2>3. rows' \in [Stores -> [Scopes -> Row \cup {None}]] /\ OwnRows(c)
      BY <1>2, <2>2 DEF AdapterTypeOK, OwnRows
    <2>4. SetCall(c, calls[c].process, calls[c].key, calls[c].act, "ended", result, calls[c].answer)
      BY <2>1 DEF Ends
    <2>5. PICK answer \in Calls \cup {None} : answer = calls[c].answer
      BY <1>3
    <2> QED
      <3>1. EndWire(c, result)
        BY <1>1, <1>3, <2>2 DEF EndWire
      <3>2. EndRows(c, result)
        BY <2>2, <2>3 DEF EndRows
      <3>3. EndAnswer(c, result, answer)
        BY <2>2 DEF EndAnswer
      <3>4. SetCall(c, calls[c].process, calls[c].key, calls[c].act, "ended", result, answer)
        BY <2>4, <2>5
      <3> QED
        BY <1>1, <1>2, <3>1, <3>2, <3>3, <3>4, EndInv
  <1>5. CASE CompleteOpenAPI(c) \/ CompleteGitHub(c)
    <2> DEFINE p == calls[c].process
               keys == KeyScopes(calls[c].key)
               mine == ActScopes(calls[c].act)
               new == RowOf("COMPLETED", calls[c].act, calls[c].answer)
    <2>1. RecordCompleted(c)
      BY <1>5 DEF CompleteOpenAPI, CompleteGitHub
    <2>2. PICK answer \in Calls \cup {None} : answer = calls[c].answer
      BY <1>3
    <2>3. SetCall(c, calls[c].process, calls[c].key, calls[c].act, "ended", "done", answer)
      BY <1>5, <2>2 DEF CompleteOpenAPI, CompleteGitHub, Ends
    <2>4. /\ rows' \in [Stores -> [Scopes -> Row \cup {None}]]
          /\ OwnRows(c)
          /\ \A st \in Stores, scope \in Scopes :
               rows'[st][scope] = IF st = StoreOf(p) /\ scope \in keys THEN new
                                  ELSE IF /\ OpenAPI /\ st = StoreOf(p) /\ scope \in mine
                                          /\ StatusAt(p, scope) = "IN_FLIGHT"
                                  THEN None ELSE rows[st][scope]
          /\ new \in Row
      BY <1>2, <1>3, <2>1, CompletedFacts
    <2>5. new.status = "COMPLETED" /\ new.act = calls[c].act /\ new.answer = answer /\ new # None
      BY <2>2, <2>4, AdapterAssumption DEF RowOf
    <2>6. StoreOf(p) \in Stores /\ ScopesOf(calls[c].key, calls[c].act) = keys \cup mine
          /\ ScopesOf(calls[c].key, calls[c].act) \subseteq Scopes
      BY <1>2, ActiveFacts DEF ScopesOf
    <2> HIDE DEF new, keys, mine
    <2>7. OpenAPI => \A scope \in ScopesOf(calls[c].key, calls[c].act) :
               rows'[StoreOf(p)][scope] = None \/ rows'[StoreOf(p)][scope].status # "IN_FLIGHT"
      BY <2>4, <2>5, <2>6 DEF StatusAt
    <2>8. \A scope \in keys : /\ rows'[StoreOf(p)][scope] # None
                              /\ rows'[StoreOf(p)][scope].status = "COMPLETED"
      BY <2>4, <2>5, <2>6
    <2>9. ASSUME NEW st \in Stores, NEW key \in Keys, NEW row \in Row,
                 row = rows'[st][<<"idem", key>>], row.status = "COMPLETED"
          PROVE  \/ row = rows[st][<<"idem", key>>]
                 \/ calls[c].key = key /\ row.act = calls[c].act /\ row.answer = answer
      <3>1. <<"idem", key>> \in Scopes /\ row # None
        BY AdapterAssumption DEF Scopes
      <3>2. <<"idem", key>> \in keys => calls[c].key = key
        BY DEF keys, KeyScopes
      <3> QED
        BY <2>4, <2>5, <2>9, <3>1, <3>2
    <2>10. OpenAPI /\ adapter.witness # None => InPlace(calls[c].act, answer)
      BY <1>5, <2>2, WitnessedInPlace DEF CompleteOpenAPI, CompleteGitHub, OpenAPI
    <2>11. \A scope \in KeyScopes(calls[c].key) :
               /\ rows'[StoreOf(calls[c].process)][scope] # None
               /\ rows'[StoreOf(calls[c].process)][scope].status = "COMPLETED"
      BY <2>8 DEF keys
    <2> QED
      <3>1. PICK result \in {"not_sent", "unknown", "done", "declined"} : result = "done"
        OBVIOUS
      <3>2. SetCall(c, calls[c].process, calls[c].key, calls[c].act, "ended", result, answer)
        BY <2>3, <3>1
      <3>3. EndWire(c, result)
        BY <1>1, <1>3, <3>1 DEF EndWire
      <3>4. EndRows(c, result)
        BY <2>4, <2>7, <2>11, <3>1 DEF EndRows
      <3>5. EndAnswer(c, result, answer)
        BY <2>9, <2>10, <3>1 DEF EndAnswer
      <3> QED
        BY <1>1, <1>2, <3>2, <3>3, <3>4, <3>5, EndInv
  <1> QED
    BY <1>4, <1>5 DEF Complete

-----------------------------------------------------------------------------
(* The network and crashes. *)

LEMMA ReceiveInv ==
  ASSUME AdapterInv, NEW c \in Calls, Receive(c)
  PROVE  AdapterInv'
  <1>1. /\ wire[c] = "out" /\ wire' = [wire EXCEPT ![c] = "in"]
        /\ UNCHANGED <<adapter, rows, calls, contacts>>
        /\ applied' \in {applied, applied \cup {c}}
    BY DEF Receive
  <1>2. AdapterTypeOK'
    BY <1>1 DEF AdapterInv, AdapterTypeOK
  <1>3. \A d \in Calls : wire'[d] = IF d = c THEN "in" ELSE wire[d]
    BY <1>1 DEF AdapterInv, AdapterTypeOK
  <1>4. Shapes'
    <2> SUFFICES ASSUME NEW d \in Calls PROVE Shape(d)'
      BY DEF Shapes
    <2>1. CASE d # c
      BY <1>1, <1>3, <2>1, ShapeKept DEF AdapterInv, Shapes
    <2>2. CASE d = c
      BY <1>1, <1>3, <2>2 DEF AdapterInv, Shapes, Shape, Active, Accepts, Journalled, OpenAPI
    <2> QED
      BY <2>1, <2>2
  <1>5. AppliedReceived'
    BY <1>1, <1>3 DEF AdapterInv, AdapterTypeOK, AppliedReceived
  <1>6. JournalInv'
    <2>1. UNCHANGED adapter /\ UNCHANGED rows /\ UNCHANGED calls
      BY <1>1
    <2> QED
      BY <2>1 DEF AdapterInv, JournalInv, OpenAPI, ClaimsShow, ClaimsExclude, Claims, HasJournal,
         ClaimStatus, SameJournal, StoreOf, ScopesOf, KeyScopes, ActScopes
  <1>7. History'
    <2>1. RowsBacked' /\ ReplaysBacked'
      BY <1>1 DEF AdapterInv, History, RowsBacked, ReplaysBacked, DoneAt
    <2>2. DoneWitnessed'
      <3>1. adapter' = adapter /\ calls' = calls /\ applied \subseteq applied'
        BY <1>1
      <3>2. \A d \in Calls : Keeps(d)
        BY <3>1 DEF Keeps
      <3>3. DoneWitnessed
        BY DEF AdapterInv, History
      <3> SUFFICES ASSUME OpenAPI, adapter.witness # None, NEW d \in Calls,
                          calls[d].result = "done"
                   PROVE  InPlace(calls[d].act, calls[d].answer)'
        BY <3>1 DEF DoneWitnessed, OpenAPI
      <3>4. PICK act, answer : act = calls[d].act /\ answer = calls[d].answer
        OBVIOUS
      <3>5. InPlace(act, answer)
        BY <3>3, <3>4 DEF DoneWitnessed
      <3>6. InPlace(act, answer)'
        BY <3>1, <3>2, <3>5, InPlaceKept
      <3> QED
        BY <3>1, <3>4, <3>6
    <2> QED
      BY <2>1, <2>2 DEF History
  <1>8. InFlightHeld' /\ ContactsHome'
    BY <1>1 DEF AdapterInv, InFlightHeld, StatusAt, StoreOf, ContactsHome
  <1> QED
    BY <1>2, <1>4, <1>5, <1>6, <1>7, <1>8 DEF AdapterInv

LEMMA CrashInv ==
  ASSUME AdapterInv, NEW p \in Processes, Crash(p)
  PROVE  AdapterInv'
  <1> DEFINE blank == [scope \in Scopes |-> None]
             after(c) == IF calls[c].process = p
                         THEN [calls[c] EXCEPT !.process = None,
                                               !.phase = IF Active(c) THEN "dead" ELSE calls[c].phase]
                         ELSE calls[c]
  <1>1. /\ rows' = [rows EXCEPT ![p] = blank]
        /\ calls' = [c \in Calls |-> after(c)]
        /\ UNCHANGED <<adapter, wire, applied, contacts>>
    BY DEF Crash
  <1>2. AdapterTypeOK /\ p \in Stores /\ p # None /\ p # "file"
    BY AdapterAssumption DEF AdapterInv, Stores
  <1>3. blank \in [Scopes -> Row \cup {None}] /\ \A scope \in Scopes : blank[scope] = None
    OBVIOUS
  <1> HIDE DEF blank
  <1>4. ASSUME NEW c \in Calls
        PROVE  /\ after(c) \in Call
               /\ after(c).key = calls[c].key /\ after(c).act = calls[c].act
               /\ after(c).result = calls[c].result /\ after(c).answer = calls[c].answer
               /\ after(c).process = IF calls[c].process = p THEN None ELSE calls[c].process
               /\ after(c).phase = IF calls[c].process = p /\ Active(c) THEN "dead"
                                   ELSE calls[c].phase
    <2>1. calls[c] \in Call
      BY <1>2 DEF AdapterTypeOK
    <2>2. PICK phase \in Phases : phase = IF Active(c) THEN "dead" ELSE calls[c].phase
      BY <2>1 DEF Phases, Call
    <2>3. CASE calls[c].process = p
      <3>1. after(c) = [calls[c] EXCEPT !.process = None, !.phase = phase]
        BY <2>2, <2>3
      <3> HIDE DEF after
      <3> QED
        BY <2>1, <2>2, <2>3, <3>1 DEF Call
    <2>4. CASE calls[c].process # p
      BY <2>1, <2>4
    <2> QED
      BY <2>3, <2>4
  <1> HIDE DEF after
  <1>5. \A c \in Calls : calls'[c] = after(c)
    BY <1>1
  <1>6. \A c \in Calls :
          /\ calls'[c].key = calls[c].key /\ calls'[c].act = calls[c].act
          /\ calls'[c].result = calls[c].result /\ calls'[c].answer = calls[c].answer
          /\ calls'[c].process = IF calls[c].process = p THEN None ELSE calls[c].process
          /\ calls'[c].phase = IF calls[c].process = p /\ Active(c) THEN "dead" ELSE calls[c].phase
    BY <1>4, <1>5
  <1>7. /\ rows' \in [Stores -> [Scopes -> Row \cup {None}]]
        /\ \A st \in Stores : rows'[st] = IF st = p THEN blank ELSE rows[st]
    BY <1>1, <1>2, <1>3 DEF AdapterTypeOK
  <1>8. AdapterTypeOK'
    <2>1. calls' \in [Calls -> Call]
      BY <1>1, <1>4
    <2> QED
      BY <1>1, <1>2, <1>7, <2>1 DEF AdapterTypeOK
  <1>9. Shapes'
    <2> SUFFICES ASSUME NEW c \in Calls PROVE Shape(c)'
      BY DEF Shapes
    <2>1. Shape(c)
      BY DEF AdapterInv, Shapes
    <2>2. CASE calls[c].process = p
      <3>1. calls[c].phase # "idle"
        BY <1>2, <2>1, <2>2 DEF Shape, NoCall
      <3>2. calls'[c].phase # "idle" /\ ~Active(c)'
        BY <1>6, <2>2, <3>1 DEF Active
      <3> QED
        BY <1>1, <1>6, <2>1, <2>2, <3>1, <3>2 DEF Shape, Active, Accepts, Journalled, OpenAPI
    <2>3. CASE calls[c].process # p
      <3>1. calls'[c] = calls[c]
        BY <1>5, <2>3 DEF after
      <3> QED
        BY <1>1, <2>1, <3>1, ShapeKept
    <2> QED
      BY <2>2, <2>3
  <1>10. AppliedReceived'
    BY <1>1 DEF AdapterInv, AppliedReceived
  <1>11. \A c \in Calls, scope \in Scopes : Claims(c, scope)' => Claims(c, scope)
    BY <1>1, <1>6 DEF Claims, ScopesOf, KeyScopes, ActScopes, Active
  <1>12. JournalInv'
    <2> SUFFICES ASSUME OpenAPI PROVE ClaimsShow' /\ ClaimsExclude'
      BY <1>1 DEF JournalInv, OpenAPI
    <2>1. ClaimsShow /\ ClaimsExclude
      BY DEF AdapterInv, JournalInv
    <2>2. \A c, d \in Calls : SameJournal(c, d)' => SameJournal(c, d)
      BY <1>1, <1>2, <1>6 DEF SameJournal
    <2>3. ClaimsExclude'
      BY <1>11, <2>1, <2>2 DEF ClaimsExclude
    <2>4. ClaimsShow'
      <3> SUFFICES ASSUME NEW c \in Calls, NEW scope \in Scopes, Claims(c, scope)', HasJournal(c)'
                   PROVE  /\ rows'[StoreOf(calls'[c].process)][scope] # None
                          /\ rows'[StoreOf(calls'[c].process)][scope].status = ClaimStatus(c)'
        BY <1>1 DEF ClaimsShow, StoreOf
      <3>1. Claims(c, scope) /\ HasJournal(c)
        BY <1>1, <1>2, <1>6, <1>11 DEF HasJournal
      <3>2. StoreOf(calls'[c].process) = StoreOf(calls[c].process)
        BY <1>1, <1>2, <1>6 DEF HasJournal, StoreOf
      <3>3. StoreOf(calls[c].process) \in Stores /\ StoreOf(calls[c].process) # p
        BY <1>1, <1>2, <1>6, <3>1, CallType DEF HasJournal, StoreOf, Stores
      <3>4. ClaimStatus(c)' = ClaimStatus(c)
        BY <1>6 DEF ClaimStatus
      <3> QED
        BY <1>7, <2>1, <3>1, <3>2, <3>3, <3>4 DEF ClaimsShow
    <2> QED
      BY <2>3, <2>4
  <1>13. History'
    <2>1. \A d \in Calls : Keeps(d)
      BY <1>6 DEF Keeps
    <2>2. \A st \in Stores, key \in Keys, row \in Row :
             row = rows'[st][<<"idem", key>>] /\ row.status = "COMPLETED" =>
                 row = rows[st][<<"idem", key>>]
      BY <1>3, <1>7, AdapterAssumption DEF Scopes
    <2>3. \A d \in Calls : calls'[d].result = calls[d].result /\ calls'[d].answer = calls[d].answer
      BY <1>6
    <2> QED
      BY <1>1, <1>7, <1>10, <2>1, <2>2, <2>3, HistoryKept
  <1>14. InFlightHeld'
    <2> SUFFICES ASSUME adapter.durable, NEW key \in Keys,
                        rows'["file"][<<"idem", key>>] # None,
                        rows'["file"][<<"idem", key>>].status = "IN_FLIGHT"
                 PROVE  \E d \in Calls : calls'[d].key = key /\ calls'[d].result = None
      BY <1>1 DEF InFlightHeld, StatusAt, StoreOf
    <2>1. rows'["file"] = rows["file"]
      BY <1>2, <1>7 DEF Stores
    <2> QED
      BY <1>6, <2>1 DEF AdapterInv, InFlightHeld, StatusAt, StoreOf
  <1>15. ContactsHome'
    BY <1>1 DEF AdapterInv, ContactsHome
  <1> QED
    BY <1>8, <1>9, <1>10, <1>12, <1>13, <1>14, <1>15 DEF AdapterInv

LEMMA AdapterInitInv ==
  ASSUME AdapterInit
  PROVE  AdapterInv
  <1>1. AdapterTypeOK
    BY DEF AdapterInit, AdapterTypeOK, Call, NoCall, Phases
  <1>2. /\ \A c \in Calls : calls[c] = NoCall /\ wire[c] = "none"
        /\ applied = {} /\ contacts = {}
        /\ \A st \in Stores, scope \in Scopes : rows[st][scope] = None
    BY DEF AdapterInit
  <1>3. \A c \in Calls : calls[c].phase = "idle" /\ calls[c].result = None
    BY <1>2 DEF NoCall
  <1>4. \A x \in Results : x # None
    BY AdapterAssumption
  <1>5. Shapes
    BY <1>2, <1>3 DEF Shapes, Shape, Active
  <1>6. AppliedReceived /\ ContactsHome
    BY <1>2 DEF AppliedReceived, ContactsHome
  <1>7. JournalInv
    BY <1>3 DEF JournalInv, ClaimsShow, ClaimsExclude, Claims
  <1>8. History
    <2>1. \A key \in Keys : <<"idem", key>> \in Scopes
      BY DEF Scopes
    <2>2. "done" # None /\ "replayed" # None
      BY <1>4 DEF Results
    <2> QED
      BY <1>2, <1>3, <2>1, <2>2 DEF History, RowsBacked, ReplaysBacked, DoneWitnessed
  <1>9. InFlightHeld
    BY <1>2 DEF InFlightHeld, StatusAt, StoreOf, Stores, Scopes
  <1> QED
    BY <1>1, <1>5, <1>6, <1>7, <1>8, <1>9 DEF AdapterInv

LEMMA StutterInv ==
  ASSUME AdapterInv, UNCHANGED adapterVars
  PROVE  AdapterInv'
  <1>1. UNCHANGED adapter /\ UNCHANGED rows /\ UNCHANGED calls /\ UNCHANGED wire
        /\ UNCHANGED applied /\ UNCHANGED contacts
    BY DEF adapterVars
  <1>2. AdapterTypeOK' /\ AppliedReceived' /\ ContactsHome'
    BY <1>1 DEF AdapterInv, AdapterTypeOK, AppliedReceived, ContactsHome
  <1>3. Shapes'
    BY <1>1, ShapeKept DEF AdapterInv, Shapes
  <1>4. JournalInv'
    BY <1>1 DEF AdapterInv, JournalInv, OpenAPI, ClaimsShow, ClaimsExclude, Claims, HasJournal,
       ClaimStatus, SameJournal, StoreOf, ScopesOf, KeyScopes, ActScopes
  <1>5. History'
    BY <1>1 DEF AdapterInv, History, RowsBacked, ReplaysBacked, DoneWitnessed, DoneAt, OpenAPI,
       InPlace, Requested, SameValue
  <1>6. InFlightHeld'
    BY <1>1 DEF AdapterInv, InFlightHeld, StatusAt, StoreOf
  <1> QED
    BY <1>2, <1>3, <1>4, <1>5, <1>6 DEF AdapterInv

LEMMA AdapterStepInv ==
  ASSUME AdapterInv, [AdapterNext]_adapterVars
  PROVE  AdapterInv'
  <1>1. ASSUME NEW c \in Calls, Step(c)
        PROVE  AdapterInv'
    <2>1. CASE Fail(c)
      <3>1. Active(c) /\ RecordUncertain(c)
        BY <2>1 DEF Fail, Active
      <3> QED
        BY <3>1, UncertainInv
    <2> QED
      BY <1>1, <2>1, ExecuteInv, RefusedInv, SendInv, ConnectionRefusedInv, RedirectInv,
         AnswerInv, CompleteInv DEF Step
  <1> QED
    BY <1>1, ReceiveInv, CrashInv, StutterInv DEF AdapterNext

-----------------------------------------------------------------------------
(* What follows from the invariant. *)

LEMMA InvDispatchesOnce ==
  ASSUME AdapterInv
  PROVE  OneDispatchPerKey
  <1> SUFFICES ASSUME Journalled, NEW c \in Calls, NEW d \in Calls, c # d, SameJournal(c, d),
                      calls[c].key # None, calls[c].key = calls[d].key,
                      wire[c] # "none", wire[d] # "none"
               PROVE  FALSE
    BY DEF OneDispatchPerKey
  <1>1. ClaimsExclude
    BY DEF AdapterInv, JournalInv, Journalled
  <1>2. ASSUME NEW x \in Calls, wire[x] # "none", calls[x].key # None
        PROVE  <<"idem", calls[x].key>> \in Scopes /\ Claims(x, <<"idem", calls[x].key>>)
    <2>1. Shape(x) /\ calls[x].phase \in Phases /\ calls[x].key \in Keys \cup {None}
      BY CallType DEF AdapterInv, Shapes
    <2>2. calls[x].phase # "idle" /\ calls[x].result \in {None, "unknown", "done"}
      BY <1>2, <2>1 DEF Shape, Active, Phases
    <2>3. <<"idem", calls[x].key>> \in KeyScopes(calls[x].key)
      BY <1>2 DEF KeyScopes
    <2> QED
      BY <1>2, <2>1, <2>2, <2>3 DEF Claims, ScopesOf, Scopes
  <1> QED
    BY <1>1, <1>2 DEF ClaimsExclude

(* Only Send hands a request to the network.                               *)
LEMMA OnlySendSends ==
  ASSUME AdapterInv, [AdapterNext]_adapterVars, NEW c \in Calls,
         wire[c] = "none", wire'[c] = "out"
  PROVE  calls[c].phase = "looked_up"
  <1>1. UNCHANGED wire \/ \E d \in Calls : Send(d) \/ ConnectionRefused(d) \/ Receive(d)
    <2>1. ASSUME NEW d \in Calls, Step(d)
          PROVE  UNCHANGED wire \/ Send(d) \/ ConnectionRefused(d)
      BY <2>1 DEF Step, Execute, RefusedBeforeDispatch, Fail, Redirect, RecordUncertain,
         Answer, Complete
    <2> QED
      BY <2>1 DEF AdapterNext, Crash, adapterVars
  <1>2. ~UNCHANGED wire
    OBVIOUS
  <1>3. PICK d \in Calls : Send(d) \/ ConnectionRefused(d) \/ Receive(d)
    BY <1>1, <1>2
  <1>4. wire \in [Calls -> {"none", "out", "in"}]
    BY DEF AdapterInv, AdapterTypeOK
  <1> QED
    BY <1>3, <1>4 DEF Send, ConnectionRefused, Receive

LEMMA NextRepeatsNothing ==
  ASSUME AdapterInv, [AdapterNext]_adapterVars, Journalled, adapter.block,
         NEW c \in Calls, NEW d \in Calls, wire[c] = "none", wire'[c] = "out",
         d # c, calls[d].act = calls[c].act, SameJournal(c, d)
  PROVE  wire[d] = "none" \/ calls[d].result = "done"
  <1> SUFFICES ASSUME wire[d] # "none", calls[d].result # "done"
               PROVE  FALSE
    OBVIOUS
  <1>1. calls[c].phase = "looked_up"
    BY OnlySendSends
  <1>2. /\ ClaimsExclude /\ Shape(c) /\ Shape(d) /\ calls[d].phase \in Phases
    BY CallType DEF AdapterInv, JournalInv, Journalled, Shapes
  <1>3. calls[c].act \in Acts /\ <<"act", calls[c].act>> \in Scopes
    BY <1>1, <1>2 DEF Shape, Scopes
  <1>4. Claims(c, <<"act", calls[c].act>>)
    BY <1>1, <1>2 DEF Shape, Active, Claims, ScopesOf, ActScopes
  <1>5. Claims(d, <<"act", calls[c].act>>)
    BY <1>2 DEF Shape, Active, Phases, Claims, ScopesOf, ActScopes
  <1> QED
    BY <1>2, <1>3, <1>4, <1>5 DEF ClaimsExclude

LEMMA InvAnswersReal ==
  ASSUME AdapterInv
  PROVE  AnswersAreReal
  <1>1. ReplaysBacked /\ DoneWitnessed
    BY DEF AdapterInv, History
  <1>2. ASSUME NEW c \in Calls, calls[c].result = "replayed"
        PROVE  \E d \in Calls : /\ calls[d].result = "done" /\ calls[d].key = calls[c].key
                               /\ calls[d].act = calls[c].act
                               /\ calls[d].answer = calls[c].answer
    BY <1>1, <1>2 DEF ReplaysBacked, DoneAt
  <1>3. ASSUME NEW c \in Calls, OpenAPI, adapter.witness # None,
               calls[c].result \in {"done", "replayed"}
        PROVE  InPlace(calls[c].act, calls[c].answer)
    BY <1>1, <1>2, <1>3 DEF DoneWitnessed
  <1> QED
    BY <1>2, <1>3 DEF AnswersAreReal

LEMMA InvStaysHome ==
  ASSUME AdapterInv
  PROVE  RequestsStayHome
  <1>1. \A c \in Calls : wire[c] # "none" => Accepts(calls[c].act)
    BY DEF AdapterInv, Shapes, Shape
  <1>2. ASSUME NEW fields, NEW params, NEW loose, Validates(fields, params, loose),
               NEW name \in DOMAIN params
        PROVE  /\ name \in DOMAIN fields
               /\ fields[name].path => params[name].safe \/ params[name].type = "null"
    BY <1>2 DEF Validates, Admits
  <1> QED
    BY <1>1, <1>2 DEF RequestsStayHome, Accepts, AdapterInv, ContactsHome

-----------------------------------------------------------------------------
(* The refinement of ConsequenceOnce. *)

(* The phase of a key, as its row says, and its holder while in flight.    *)
KeyPhases ==
  adapter.durable =>
      \A key \in Keys :
          LET row == rows["file"][<<"idem", key>>]
          IN  /\ row = None => KeyPhase(key) = "free"
              /\ row # None /\ row.status = "COMPLETED" => KeyPhase(key) = "done"
              /\ row # None /\ row.status = "OUTCOME_UNKNOWN" => KeyPhase(key) = "unresolved"
              /\ \A c \in Calls :
                    /\ row # None /\ row.status = "IN_FLIGHT"
                    /\ calls[c].key = key /\ calls[c].result = None
                    => KeyPhase(key) = IF wire[c] = "none" THEN "owned" ELSE "inflight"

LEMMA InvKeyPhases ==
  ASSUME AdapterInv
  PROVE  KeyPhases
  <1> SUFFICES ASSUME adapter.durable, NEW key \in Keys, NEW row,
                      row = rows["file"][<<"idem", key>>]
               PROVE  /\ row = None => KeyPhase(key) = "free"
                      /\ row # None /\ row.status = "COMPLETED" => KeyPhase(key) = "done"
                      /\ row # None /\ row.status = "OUTCOME_UNKNOWN" => KeyPhase(key) = "unresolved"
                      /\ \A c \in Calls :
                            /\ row # None /\ row.status = "IN_FLIGHT"
                            /\ calls[c].key = key /\ calls[c].result = None
                            => KeyPhase(key) = IF wire[c] = "none" THEN "owned" ELSE "inflight"
    BY DEF KeyPhases
  <1>1. OpenAPI /\ StoreOf("file") = "file"
    BY AdapterAssumption DEF AdapterInv, AdapterTypeOK, OpenAPI, StoreOf
  <1>2. StatusAt("file", <<"idem", key>>) = IF row = None THEN "free" ELSE row.status
    BY <1>1 DEF StatusAt
  <1>3. ASSUME NEW c \in Calls, calls[c].key = key, calls[c].result = None
        PROVE  Holder(key) = c
    <2>1. ASSUME NEW d \in Calls, calls[d].key = key, calls[d].result = None
          PROVE  Claims(d, <<"idem", key>>)
      <3>1. calls[d].phase # "idle"
        BY <2>1, AdapterAssumption DEF AdapterInv, Shapes, Shape, NoCall
      <3>2. <<"idem", key>> \in KeyScopes(key)
        BY AdapterAssumption DEF KeyScopes
      <3> QED
        BY <2>1, <3>1, <3>2 DEF Claims, ScopesOf
    <2>2. Holder(key) \in Calls /\ calls[Holder(key)].key = key /\ calls[Holder(key)].result = None
      BY <1>3 DEF Holder
    <2>3. <<"idem", key>> \in Scopes /\ ClaimsExclude /\ SameJournal(c, Holder(key))
      BY <1>1 DEF Scopes, AdapterInv, JournalInv, SameJournal
    <2> QED
      BY <1>3, <2>1, <2>2, <2>3 DEF ClaimsExclude
  <1>4. row = None => KeyPhase(key) = "free"
    BY <1>2 DEF KeyPhase
  <1>5. row # None /\ row.status = "COMPLETED" => KeyPhase(key) = "done"
    BY <1>2 DEF KeyPhase
  <1>6. row # None /\ row.status = "OUTCOME_UNKNOWN" => KeyPhase(key) = "unresolved"
    BY <1>2 DEF KeyPhase
  <1>7. \A c \in Calls :
           /\ row # None /\ row.status = "IN_FLIGHT"
           /\ calls[c].key = key /\ calls[c].result = None
           => KeyPhase(key) = IF wire[c] = "none" THEN "owned" ELSE "inflight"
    BY <1>2, <1>3 DEF KeyPhase
  <1> QED
    BY <1>4, <1>5, <1>6, <1>7

LEMMA FileRow ==
  ASSUME AdapterInv, NEW key \in Keys
  PROVE  /\ rows["file"][<<"idem", key>>] # None =>
              rows["file"][<<"idem", key>>].status \in Statuses
         /\ <<"idem", key>> \in Scopes /\ "file" \in Stores
  BY DEF AdapterInv, AdapterTypeOK, Row, Stores, Scopes

(* A key whose row and holder are left alone keeps its phase.              *)
LEMMA OtherKeys ==
  ASSUME AdapterInv, KeyPhases, KeyPhases', UNCHANGED adapter, adapter.durable, NEW key \in Keys,
         rows'["file"][<<"idem", key>>] = rows["file"][<<"idem", key>>],
         \A d \in Calls : calls[d].key = key /\ calls[d].result = None =>
             /\ calls'[d].key = key /\ calls'[d].result = None
             /\ wire'[d] = "none" <=> wire[d] = "none"
  PROVE  keyPhase'[key] = keyPhase[key]
  <1> DEFINE row == rows["file"][<<"idem", key>>]
  <1>1. keyPhase[key] = KeyPhase(key) /\ keyPhase'[key] = KeyPhase(key)'
    BY DEF keyPhase
  <1>2. CASE row = None
    BY <1>1, <1>2 DEF KeyPhases
  <1>3. CASE row # None /\ row.status = "COMPLETED"
    BY <1>1, <1>3 DEF KeyPhases
  <1>4. CASE row # None /\ row.status = "OUTCOME_UNKNOWN"
    BY <1>1, <1>4 DEF KeyPhases
  <1>5. CASE row # None /\ row.status = "IN_FLIGHT"
    <2>1. StatusAt(None, <<"idem", key>>) = "IN_FLIGHT"
      BY <1>5 DEF StatusAt, StoreOf
    <2>2. PICK d \in Calls : calls[d].key = key /\ calls[d].result = None
      BY <2>1 DEF AdapterInv, InFlightHeld
    <2>3. KeyPhase(key) = IF wire[d] = "none" THEN "owned" ELSE "inflight"
      BY <1>5, <2>2 DEF KeyPhases
    <2>4. KeyPhase(key)' = IF wire'[d] = "none" THEN "owned" ELSE "inflight"
      BY <1>5, <2>2 DEF KeyPhases
    <2> QED
      BY <1>1, <2>2, <2>3, <2>4
  <1> QED
    BY <1>2, <1>3, <1>4, <1>5, FileRow DEF Statuses

LEMMA MoveOne ==
  ASSUME NEW k \in Keys, \A key \in Keys : key # k => keyPhase'[key] = keyPhase[key]
  PROVE  keyPhase' = [keyPhase EXCEPT ![k] = keyPhase'[k]]
  <1>1. /\ keyPhase = [key \in Keys |-> keyPhase[key]]
        /\ keyPhase' = [key \in Keys |-> keyPhase'[key]]
    BY DEF keyPhase
  <1> HIDE DEF keyPhase
  <1> QED
    BY <1>1

LEMMA NoMove ==
  ASSUME \A key \in Keys : keyPhase'[key] = keyPhase[key]
  PROVE  UNCHANGED keyPhase
  <1>1. /\ keyPhase = [key \in Keys |-> keyPhase[key]]
        /\ keyPhase' = [key \in Keys |-> keyPhase'[key]]
    BY DEF keyPhase
  <1> HIDE DEF keyPhase
  <1> QED
    BY <1>1

(* A call in flight moves at most its own key.                             *)
LEMMA OwnKeyMoves ==
  ASSUME AdapterInv, KeyPhases, KeyPhases', UNCHANGED adapter, adapter.durable,
         NEW c \in Calls, Active(c), OwnRows(c),
         \A d \in Calls : d # c => calls'[d] = calls[d] /\ wire'[d] = wire[d],
         calls'[c].key = calls[c].key
  PROVE  \/ calls[c].key = None /\ UNCHANGED keyPhase
         \/ /\ calls[c].key \in Keys
            /\ keyPhase' = [keyPhase EXCEPT ![calls[c].key] = keyPhase'[calls[c].key]]
            /\ keyPhase[calls[c].key] = IF wire[c] = "none" THEN "owned" ELSE "inflight"
  <1>1. calls[c].key \in Keys \cup {None} /\ calls[c].result = None
    BY ActiveFacts
  <1>2. ASSUME NEW key \in Keys, key # calls[c].key
        PROVE  keyPhase'[key] = keyPhase[key]
    <2>1. <<"idem", key>> \notin ScopesOf(calls[c].key, calls[c].act)
      BY <1>2 DEF ScopesOf, KeyScopes, ActScopes
    <2>2. rows'["file"][<<"idem", key>>] = rows["file"][<<"idem", key>>]
      BY <2>1, FileRow DEF OwnRows
    <2> QED
      BY <1>2, <2>2, OtherKeys
  <1>3. CASE calls[c].key = None
    <2>1. \A key \in Keys : key # None
      BY AdapterAssumption
    <2> QED
      BY <1>2, <1>3, <2>1, NoMove
  <1>4. CASE calls[c].key \in Keys
    <2>1. keyPhase' = [keyPhase EXCEPT ![calls[c].key] = keyPhase'[calls[c].key]]
      BY <1>2, <1>4, MoveOne
    <2>2. <<"idem", calls[c].key>> \in Scopes /\ Claims(c, <<"idem", calls[c].key>>)
      <3>1. <<"idem", calls[c].key>> \in KeyScopes(calls[c].key)
        BY <1>4, AdapterAssumption DEF KeyScopes
      <3> QED
        BY <1>1, <1>4, <3>1, ActiveFacts DEF Claims, ScopesOf, Scopes
    <2>3. OpenAPI /\ HasJournal(c) /\ StoreOf(calls[c].process) = "file"
      BY AdapterAssumption DEF AdapterInv, AdapterTypeOK, OpenAPI, HasJournal, StoreOf
    <2>4. /\ rows["file"][<<"idem", calls[c].key>>] # None
          /\ rows["file"][<<"idem", calls[c].key>>].status = "IN_FLIGHT"
      BY <1>1, <2>2, <2>3 DEF AdapterInv, JournalInv, ClaimsShow, ClaimStatus
    <2>5. KeyPhase(calls[c].key) = IF wire[c] = "none" THEN "owned" ELSE "inflight"
      BY <1>1, <1>4, <2>4 DEF KeyPhases
    <2>6. keyPhase[calls[c].key] = KeyPhase(calls[c].key)
      BY <1>4 DEF keyPhase
    <2> QED
      BY <1>4, <2>1, <2>5, <2>6
  <1> QED
    BY <1>1, <1>3, <1>4

(* The key of a call in flight is held for it.                             *)
LEMMA KeyHeld ==
  ASSUME AdapterInv, adapter.durable, NEW c \in Calls, Active(c), calls[c].key \in Keys
  PROVE  StatusAt(calls[c].process, <<"idem", calls[c].key>>) = "IN_FLIGHT"
  <1>1. <<"idem", calls[c].key>> \in KeyScopes(calls[c].key)
    BY AdapterAssumption DEF KeyScopes
  <1>2. <<"idem", calls[c].key>> \in Scopes /\ Claims(c, <<"idem", calls[c].key>>)
    BY <1>1, ActiveFacts DEF Claims, ScopesOf, Scopes
  <1>3. OpenAPI /\ HasJournal(c)
    BY AdapterAssumption DEF AdapterInv, AdapterTypeOK, OpenAPI, HasJournal
  <1> QED
    BY <1>2, <1>3, ActiveFacts DEF AdapterInv, JournalInv, ClaimsShow, ClaimStatus, StatusAt

(* What a row says of its key.                                             *)
LEMMA RowSays ==
  ASSUME KeyPhases, adapter.durable, NEW key \in Keys
  PROVE  /\ rows["file"][<<"idem", key>>] = None => keyPhase[key] = "free"
         /\ /\ rows["file"][<<"idem", key>>] # None
            /\ rows["file"][<<"idem", key>>].status = "COMPLETED"
            => keyPhase[key] = "done"
         /\ /\ rows["file"][<<"idem", key>>] # None
            /\ rows["file"][<<"idem", key>>].status = "OUTCOME_UNKNOWN"
            => keyPhase[key] = "unresolved"
         /\ \A c \in Calls :
               /\ rows["file"][<<"idem", key>>] # None
               /\ rows["file"][<<"idem", key>>].status = "IN_FLIGHT"
               /\ calls[c].key = key /\ calls[c].result = None
               => keyPhase[key] = IF wire[c] = "none" THEN "owned" ELSE "inflight"
  <1>1. keyPhase[key] = KeyPhase(key)
    BY DEF keyPhase
  <1> QED
    BY <1>1 DEF KeyPhases

(* A step that leaves the file and the holders alone moves no key.         *)
LEMMA FileKept ==
  ASSUME AdapterInv, KeyPhases, KeyPhases', UNCHANGED adapter, adapter.durable,
         \A key \in Keys : rows'["file"][<<"idem", key>>] = rows["file"][<<"idem", key>>],
         \A d \in Calls : calls[d].result = None /\ calls[d].key # None =>
             /\ calls'[d].key = calls[d].key /\ calls'[d].result = None
             /\ wire'[d] = "none" <=> wire[d] = "none"
  PROVE  UNCHANGED keyPhase
  <1>1. ASSUME NEW key \in Keys
        PROVE  keyPhase'[key] = keyPhase[key]
    <2>1. key # None
      BY AdapterAssumption
    <2>2. rows'["file"][<<"idem", key>>] = rows["file"][<<"idem", key>>]
      OBVIOUS
    <2>3. \A d \in Calls : calls[d].key = key /\ calls[d].result = None =>
             /\ calls'[d].key = key /\ calls'[d].result = None
             /\ wire'[d] = "none" <=> wire[d] = "none"
      BY <2>1
    <2> QED
      BY <2>2, <2>3, OtherKeys
  <1> QED
    BY <1>1, NoMove

LEMMA IdleKey ==
  ASSUME AdapterInv, NEW c \in Calls, calls[c].phase = "idle"
  PROVE  calls[c].key = None
  BY DEF AdapterInv, Shapes, Shape, NoCall

(* A call that begins takes a free key, or moves nothing.                  *)
LEMMA ExecuteMoves ==
  ASSUME AdapterInv, AdapterInv', KeyPhases, KeyPhases', adapter.durable, NEW c \in Calls,
         NEW p \in Processes, NEW key \in Keys \cup {None}, NEW act \in Acts,
         Execute(c, p, key, act)
  PROVE  [KeyOnce!Next]_keyPhase
  <1>1. /\ UNCHANGED adapter /\ UNCHANGED wire /\ AdapterTypeOK
        /\ calls[c].phase = "idle" /\ calls[c].key = None /\ wire[c] = "none"
    BY IdleKey DEF Execute, AdapterInv, Shapes, Shape
  <1>2. OpenAPI /\ StoreOf(p) = "file"
    BY AdapterAssumption DEF AdapterInv, AdapterTypeOK, OpenAPI, StoreOf
  <1>3. ASSUME UNCHANGED rows, \A d \in Calls : d # c => calls'[d] = calls[d]
        PROVE  UNCHANGED keyPhase
    BY <1>1, <1>3, FileKept
  <1>5. CASE /\ Put(p, ScopesOf(key, act), RowOf("IN_FLIGHT", act, None))
             /\ SetCall(c, p, key, act, "looked_up", None, None)
             /\ ~Completed(p, key) /\ ~Locked(p, ScopesOf(key, act))
    <2>2. /\ \A d \in Calls : d # c => calls'[d] = calls[d]
          /\ calls'[c].key = key /\ calls'[c].result = None
      <3> DEFINE new == [phase |-> "looked_up", process |-> p, key |-> key, act |-> act,
                         result |-> None, answer |-> None]
      <3>1. calls' = [calls EXCEPT ![c] = new]
        BY <1>5 DEF SetCall
      <3>2. new.key = key /\ new.result = None
        OBVIOUS
      <3> HIDE DEF new
      <3> QED
        BY <1>1, <3>1, <3>2 DEF AdapterTypeOK
    <2>3. /\ RowOf("IN_FLIGHT", act, None) \in Row /\ RowOf("IN_FLIGHT", act, None) # None
          /\ RowOf("IN_FLIGHT", act, None).status = "IN_FLIGHT"
      BY AdapterAssumption DEF Row, RowOf, Statuses
    <2>4. ScopesOf(key, act) \subseteq Scopes
      BY ScopeType
    <2>5. \A scope \in Scopes :
             rows'["file"][scope] = IF scope \in ScopesOf(key, act) THEN RowOf("IN_FLIGHT", act, None)
                                    ELSE rows["file"][scope]
      <3> DEFINE row == RowOf("IN_FLIGHT", act, None)
      <3>1. row \in Row
        BY <2>3
      <3>2. PICK scopes \in SUBSET Scopes : scopes = ScopesOf(key, act)
        BY <2>4
      <3>3. Put(p, scopes, row)
        BY <1>5, <3>2
      <3> HIDE DEF row
      <3>4. \A st \in Stores, scope \in Scopes :
               rows'[st][scope] = IF st = StoreOf(p) /\ scope \in scopes THEN row
                                  ELSE rows[st][scope]
        BY <1>1, <3>1, <3>3, PutFacts
      <3> QED
        BY <1>2, <3>2, <3>4 DEF row, Stores
    <2>6. ASSUME NEW k \in Keys, k # key
          PROVE  keyPhase'[k] = keyPhase[k]
      <3>1. <<"idem", k>> \notin ScopesOf(key, act) /\ <<"idem", k>> \in Scopes
        BY <2>6 DEF ScopesOf, KeyScopes, ActScopes, Scopes
      <3>2. rows'["file"][<<"idem", k>>] = rows["file"][<<"idem", k>>]
        BY <2>5, <3>1
      <3>3. k # None
        BY AdapterAssumption
      <3> QED
        BY <1>1, <2>2, <3>2, <3>3, OtherKeys
    <2>7. CASE key = None
      <3>1. \A k \in Keys : k # key
        BY <2>7, AdapterAssumption
      <3> QED
        BY <2>6, <3>1, NoMove
    <2>8. CASE key \in Keys
      <3>1. <<"idem", key>> \in ScopesOf(key, act) /\ <<"idem", key>> \in Scopes /\ key # None
        BY <2>8, AdapterAssumption DEF ScopesOf, KeyScopes, Scopes
      <3>2. rows["file"][<<"idem", key>>] = None
        BY <1>2, <1>5, <2>8, <3>1, FileRow DEF Locked, Completed, StatusAt, Statuses
      <3>3. keyPhase[key] = "free"
        BY <2>8, <3>2, RowSays
      <3>4. /\ rows'["file"][<<"idem", key>>] # None
            /\ rows'["file"][<<"idem", key>>].status = "IN_FLIGHT"
        BY <2>3, <2>5, <3>1
      <3>5. KeyPhase(key)' = "owned"
        BY <1>1, <2>2, <2>8, <3>4 DEF KeyPhases
      <3>6. keyPhase'[key] = "owned"
        BY <1>1, <2>8, <3>5 DEF keyPhase
      <3>7. keyPhase' = [keyPhase EXCEPT ![key] = keyPhase'[key]]
        BY <2>6, <2>8, MoveOne
      <3>8. KeyOnce!Own(key)
        BY <3>3, <3>6, <3>7 DEF KeyOnce!Own, KeyOnce!Move
      <3> QED
        BY <2>8, <3>8 DEF KeyOnce!Next
    <2> QED
      BY <2>7, <2>8
  <1>6. CASE Accepts(act)
    <2>1. ReserveOrCheck(c, p, key, act)
      BY <1>2, <1>6 DEF Execute, OpenAPI
    <2>2. CASE Completed(p, key) /\ (adapter.durable \/ ~Locked(p, ActScopes(act)))
      <3>1. Recall(c, p, key, act) /\ UNCHANGED rows
        BY <2>1, <2>2 DEF ReserveOrCheck
      <3>2. \A d \in Calls : d # c => calls'[d] = calls[d]
        BY <3>1 DEF Recall, SetCall, AdapterInv, AdapterTypeOK
      <3> QED
        BY <1>3, <3>1, <3>2
    <2>3. CASE ~(Completed(p, key) /\ (adapter.durable \/ ~Locked(p, ActScopes(act))))
      <3>1. CASE Locked(p, ScopesOf(key, act))
        <4>1. UNCHANGED rows /\ SetCall(c, p, key, act, "ended", "conflict", None)
          BY <2>1, <2>3, <3>1 DEF ReserveOrCheck
        <4>2. \A d \in Calls : d # c => calls'[d] = calls[d]
          BY <4>1 DEF SetCall, AdapterInv, AdapterTypeOK
        <4> QED
          BY <1>3, <4>1, <4>2
      <3>2. CASE ~Locked(p, ScopesOf(key, act))
        BY <1>5, <2>1, <2>3, <3>2 DEF ReserveOrCheck
      <3> QED
        BY <3>1, <3>2
    <2> QED
      BY <2>2, <2>3
  <1>7. CASE ~Accepts(act)
    <2>1. UNCHANGED rows /\ SetCall(c, p, key, act, "ended", "invalid", None)
      BY <1>2, <1>7 DEF Execute, OpenAPI
    <2>2. \A d \in Calls : d # c => calls'[d] = calls[d]
      BY <2>1 DEF SetCall, AdapterInv, AdapterTypeOK
    <2> QED
      BY <1>3, <2>1, <2>2
  <1> QED
    BY <1>6, <1>7

(* How a call in flight moves its key.                                     *)
LEMMA ReleaseMoves ==
  ASSUME AdapterInv, KeyPhases, KeyPhases', UNCHANGED adapter, adapter.durable,
         NEW c \in Calls, Active(c), ReleaseRows(c), Ends(c, "not_sent", None),
         \A d \in Calls : d # c => wire'[d] = wire[d]
  PROVE  [KeyOnce!Next]_keyPhase
  <1>1. AdapterTypeOK /\ calls[c].process \in Processes /\ calls[c].act \in Acts
    BY ActiveFacts DEF AdapterInv
  <1>2. OpenAPI /\ StoreOf(calls[c].process) = "file"
    BY AdapterAssumption DEF AdapterInv, AdapterTypeOK, OpenAPI, StoreOf
  <1>3. /\ OwnRows(c)
        /\ \A scope \in ScopesOf(calls[c].key, calls[c].act) :
               StatusAt(calls[c].process, scope) = "IN_FLIGHT" => rows'["file"][scope] = None
    <2>1. /\ OwnRows(c)
          /\ OpenAPI => \A scope \in ScopesOf(calls[c].key, calls[c].act) :
               StatusAt(calls[c].process, scope) = "IN_FLIGHT"
                 => rows'[StoreOf(calls[c].process)][scope] = None
      BY <1>1, ReleaseFacts
    <2> QED
      BY <1>2, <2>1
  <1>4. calls'[c].key = calls[c].key /\ \A d \in Calls : d # c => calls'[d] = calls[d]
    BY <1>1 DEF Ends, SetCall, AdapterTypeOK
  <1>5. \/ calls[c].key = None /\ UNCHANGED keyPhase
        \/ /\ calls[c].key \in Keys
           /\ keyPhase' = [keyPhase EXCEPT ![calls[c].key] = keyPhase'[calls[c].key]]
           /\ keyPhase[calls[c].key] = IF wire[c] = "none" THEN "owned" ELSE "inflight"
    BY <1>3, <1>4, OwnKeyMoves
  <1>6. CASE calls[c].key \in Keys
    <2>1. <<"idem", calls[c].key>> \in ScopesOf(calls[c].key, calls[c].act)
      BY <1>6, AdapterAssumption DEF ScopesOf, KeyScopes
    <2>2. StatusAt(calls[c].process, <<"idem", calls[c].key>>) = "IN_FLIGHT"
      BY <1>2, <1>6, <2>1, KeyHeld
    <2>3. rows'["file"][<<"idem", calls[c].key>>] = None
      BY <1>3, <2>1, <2>2
    <2>4. keyPhase'[calls[c].key] = "free"
      BY <1>6, <2>3 DEF keyPhase, KeyPhases
    <2>5. KeyOnce!Abandon(calls[c].key) \/ KeyOnce!Resolve(calls[c].key)
      BY <1>5, <1>6, <2>4, AdapterAssumption
      DEF KeyOnce!Abandon, KeyOnce!Resolve, KeyOnce!Move
    <2> QED
      BY <1>6, <2>5 DEF KeyOnce!Next
  <1> QED
    BY <1>5, <1>6

LEMMA UncertainMoves ==
  ASSUME AdapterInv, KeyPhases, KeyPhases', adapter.durable,
         NEW c \in Calls, calls[c].phase \in {"sending", "redirected", "answered"},
         RecordUncertain(c)
  PROVE  [KeyOnce!Next]_keyPhase
  <1>1. Active(c) /\ wire[c] # "none"
    BY DEF Active, AdapterInv, Shapes, Shape
  <1>2. AdapterTypeOK /\ calls[c].process \in Processes /\ calls[c].act \in Acts
    BY <1>1, ActiveFacts DEF AdapterInv
  <1>3. OpenAPI /\ StoreOf(calls[c].process) = "file"
    BY AdapterAssumption DEF AdapterInv, AdapterTypeOK, OpenAPI, StoreOf
  <1>4. /\ OwnRows(c)
        /\ \A scope \in ScopesOf(calls[c].key, calls[c].act) :
               /\ rows'["file"][scope] # None /\ rows'["file"][scope].status = "OUTCOME_UNKNOWN"
    BY <1>2, <1>3, UncertainFacts
  <1>5. /\ calls'[c].key = calls[c].key /\ \A d \in Calls : d # c => calls'[d] = calls[d]
        /\ UNCHANGED adapter /\ UNCHANGED wire
    BY <1>2 DEF RecordUncertain, Ends, SetCall, AdapterTypeOK
  <1>6. \/ calls[c].key = None /\ UNCHANGED keyPhase
        \/ /\ calls[c].key \in Keys
           /\ keyPhase' = [keyPhase EXCEPT ![calls[c].key] = keyPhase'[calls[c].key]]
           /\ keyPhase[calls[c].key] = IF wire[c] = "none" THEN "owned" ELSE "inflight"
    BY <1>1, <1>4, <1>5, OwnKeyMoves
  <1>7. CASE calls[c].key \in Keys
    <2>1. <<"idem", calls[c].key>> \in ScopesOf(calls[c].key, calls[c].act)
      BY <1>7, AdapterAssumption DEF ScopesOf, KeyScopes
    <2>2. keyPhase'[calls[c].key] = "unresolved"
      BY <1>4, <1>5, <1>7, <2>1 DEF keyPhase, KeyPhases
    <2>3. KeyOnce!Lose(calls[c].key)
      BY <1>1, <1>6, <1>7, <2>2, AdapterAssumption DEF KeyOnce!Lose, KeyOnce!Move
    <2> QED
      BY <1>7, <2>3 DEF KeyOnce!Next
  <1> QED
    BY <1>6, <1>7

LEMMA SendMoves ==
  ASSUME AdapterInv, AdapterInv', KeyPhases, KeyPhases', adapter.durable, NEW c \in Calls, Send(c)
  PROVE  [KeyOnce!Next]_keyPhase
  <1>1. /\ calls[c].phase = "looked_up" /\ Active(c) /\ wire[c] = "none"
        /\ UNCHANGED adapter /\ UNCHANGED rows
    BY DEF Send, Active, AdapterInv, Shapes, Shape
  <1>2. /\ calls'[c].key = calls[c].key /\ calls'[c].result = calls[c].result
        /\ calls'[c].process = calls[c].process
        /\ wire'[c] = "out" /\ \A d \in Calls : d # c => calls'[d] = calls[d] /\ wire'[d] = wire[d]
    BY DEF Send, AdapterInv, AdapterTypeOK, Call
  <1>3. OwnRows(c)
    BY <1>1 DEF OwnRows
  <1>4. \/ calls[c].key = None /\ UNCHANGED keyPhase
        \/ /\ calls[c].key \in Keys
           /\ keyPhase' = [keyPhase EXCEPT ![calls[c].key] = keyPhase'[calls[c].key]]
           /\ keyPhase[calls[c].key] = IF wire[c] = "none" THEN "owned" ELSE "inflight"
    BY <1>1, <1>2, <1>3, OwnKeyMoves
  <1>5. CASE calls[c].key \in Keys
    <2>1. StatusAt(calls[c].process, <<"idem", calls[c].key>>) = "IN_FLIGHT"
      BY <1>1, <1>5, KeyHeld
    <2>2. StoreOf(calls[c].process) = "file"
      BY DEF StoreOf
    <2>3. /\ rows["file"][<<"idem", calls[c].key>>] # None
          /\ rows["file"][<<"idem", calls[c].key>>].status = "IN_FLIGHT"
      BY <2>1, <2>2 DEF StatusAt
    <2>4. calls[c].result = None
      BY <1>1, ActiveFacts
    <2>5. KeyPhase(calls[c].key)' = "inflight"
      BY <1>1, <1>2, <1>5, <2>3, <2>4 DEF KeyPhases
    <2>6. keyPhase'[calls[c].key] = "inflight"
      BY <1>1, <1>2, <1>5, <2>5 DEF keyPhase
    <2>7. KeyOnce!Dispatch(calls[c].key)
      BY <1>1, <1>4, <1>5, <2>6, AdapterAssumption DEF KeyOnce!Dispatch, KeyOnce!Move
    <2> QED
      BY <1>5, <2>7 DEF KeyOnce!Next
  <1> QED
    BY <1>4, <1>5

LEMMA CompleteMoves ==
  ASSUME AdapterInv, KeyPhases, KeyPhases', adapter.durable, NEW c \in Calls, Complete(c)
  PROVE  [KeyOnce!Next]_keyPhase
  <1>1. OpenAPI /\ StoreOf(calls[c].process) = "file" /\ AdapterTypeOK
    BY AdapterAssumption DEF AdapterInv, AdapterTypeOK, OpenAPI, StoreOf
  <1>2. /\ Active(c) /\ wire[c] # "none" /\ UNCHANGED adapter /\ UNCHANGED wire
        /\ RecordCompleted(c) /\ Ends(c, "done", calls[c].answer)
    BY <1>1 DEF Complete, Active, AdapterInv, Shapes, Shape, OpenAPI, CompleteOpenAPI,
       CompleteGitHub, CompleteStripe
  <1>3. /\ calls[c].process \in Processes /\ calls[c].act \in Acts
        /\ calls[c].answer \in Calls \cup {None}
    BY <1>1, <1>2, ActiveFacts, CallType
  <1> DEFINE row == RowOf("COMPLETED", calls[c].act, calls[c].answer)
  <1>4. row # None /\ row.status = "COMPLETED"
    BY <1>1, <1>2, <1>3, CompletedFacts, AdapterAssumption DEF RowOf
  <1>5. /\ OwnRows(c)
        /\ \A scope \in Scopes : scope \in KeyScopes(calls[c].key) => rows'["file"][scope] = row
    BY <1>1, <1>2, <1>3, CompletedFacts DEF Stores
  <1> HIDE DEF row
  <1>6. calls'[c].key = calls[c].key /\ \A d \in Calls : d # c => calls'[d] = calls[d]
    BY <1>1, <1>2 DEF Ends, SetCall, AdapterTypeOK
  <1>7. \/ calls[c].key = None /\ UNCHANGED keyPhase
        \/ /\ calls[c].key \in Keys
           /\ keyPhase' = [keyPhase EXCEPT ![calls[c].key] = keyPhase'[calls[c].key]]
           /\ keyPhase[calls[c].key] = IF wire[c] = "none" THEN "owned" ELSE "inflight"
    BY <1>2, <1>5, <1>6, OwnKeyMoves
  <1>8. CASE calls[c].key \in Keys
    <2>1. <<"idem", calls[c].key>> \in KeyScopes(calls[c].key) /\ <<"idem", calls[c].key>> \in Scopes
      BY <1>8, AdapterAssumption DEF KeyScopes, Scopes
    <2>2. keyPhase'[calls[c].key] = "done"
      BY <1>2, <1>4, <1>5, <1>8, <2>1 DEF keyPhase, KeyPhases
    <2>3. KeyOnce!Resolve(calls[c].key)
      BY <1>2, <1>7, <1>8, <2>2, AdapterAssumption DEF KeyOnce!Resolve, KeyOnce!Move
    <2> QED
      BY <1>8, <2>3 DEF KeyOnce!Next
  <1> QED
    BY <1>7, <1>8

(* Steps that move no key.                                                 *)
LEMMA QuietMoves ==
  ASSUME AdapterInv, KeyPhases, KeyPhases', adapter.durable, NEW c \in Calls,
         \/ Answer(c) \/ Receive(c)
         \/ /\ calls[c].phase = "sending" /\ UNCHANGED <<adapter, rows, wire>>
            /\ calls' = [calls EXCEPT ![c].phase = "redirected"]
  PROVE  UNCHANGED keyPhase
  <1>1. UNCHANGED adapter /\ UNCHANGED rows /\ wire \in [Calls -> {"none", "out", "in"}]
    BY DEF Answer, Receive, AdapterInv, AdapterTypeOK
  <1>2. \A d \in Calls : wire'[d] = "none" <=> wire[d] = "none"
    BY <1>1 DEF Answer, Receive
  <1>3. \A d \in Calls : calls'[d].key = calls[d].key /\ calls'[d].result = calls[d].result
    BY DEF Answer, Receive, AdapterInv, AdapterTypeOK, Call
  <1> QED
    BY <1>1, <1>2, <1>3, FileKept

LEMMA CrashMoves ==
  ASSUME AdapterInv, KeyPhases, KeyPhases', adapter.durable, NEW p \in Processes, Crash(p)
  PROVE  UNCHANGED keyPhase
  <1>1. UNCHANGED adapter /\ UNCHANGED wire /\ rows'["file"] = rows["file"]
    BY AdapterAssumption DEF Crash, AdapterInv, AdapterTypeOK, Stores
  <1>2. \A d \in Calls : calls'[d].key = calls[d].key /\ calls'[d].result = calls[d].result
    BY DEF Crash, AdapterInv, AdapterTypeOK, Call
  <1> QED
    <2>1. \A key \in Keys : rows'["file"][<<"idem", key>>] = rows["file"][<<"idem", key>>]
      BY <1>1
    <2>2. \A d \in Calls : calls[d].result = None /\ calls[d].key # None =>
             /\ calls'[d].key = calls[d].key /\ calls'[d].result = None
             /\ wire'[d] = "none" <=> wire[d] = "none"
      BY <1>1, <1>2
    <2> QED
      BY <1>1, <2>1, <2>2, FileKept

LEMMA JournalStep ==
  ASSUME AdapterInv, AdapterInv', KeyPhases, KeyPhases', [AdapterNext]_adapterVars
  PROVE  [KeyOnce!Next]_keyPhase
  <1>1. UNCHANGED adapter
    <2>1. ASSUME NEW c \in Calls, Step(c)
          PROVE  UNCHANGED adapter
      <3>1. RefusedBeforeDispatch(c) \/ Send(c) \/ ConnectionRefused(c) => UNCHANGED adapter
        BY DEF RefusedBeforeDispatch, Send, ConnectionRefused
      <3>2. Fail(c) \/ Redirect(c) => UNCHANGED adapter
        BY DEF Fail, Redirect, RecordUncertain
      <3>3. Answer(c) \/ Complete(c) => UNCHANGED adapter
        BY DEF Answer, Complete
      <3>4. \A p \in Processes, key \in Keys \cup {None}, act \in Acts :
               Execute(c, p, key, act) => UNCHANGED adapter
        BY DEF Execute
      <3> QED
        BY <2>1, <3>1, <3>2, <3>3, <3>4 DEF Step
    <2>2. ASSUME NEW c \in Calls, Receive(c)
          PROVE  UNCHANGED adapter
      BY <2>2 DEF Receive
    <2>3. ASSUME NEW p \in Processes, Crash(p)
          PROVE  UNCHANGED adapter
      BY <2>3 DEF Crash
    <2> QED
      BY <2>1, <2>2, <2>3 DEF AdapterNext, adapterVars
  <1>2. CASE ~adapter.durable
    <2>1. \A key \in Keys : keyPhase'[key] = keyPhase[key]
      BY <1>1, <1>2 DEF keyPhase
    <2> QED
      BY <2>1, NoMove
  <1>3. CASE adapter.durable
    <2>1. ASSUME NEW c \in Calls, RefusedBeforeDispatch(c) \/ ConnectionRefused(c)
          PROVE  [KeyOnce!Next]_keyPhase
      <3>1. Active(c) /\ ReleaseRows(c) /\ Ends(c, "not_sent", None)
        BY <2>1 DEF RefusedBeforeDispatch, ConnectionRefused, Active
      <3>2. wire \in [Calls -> {"none", "out", "in"}]
        BY DEF AdapterInv, AdapterTypeOK
      <3>3. \A d \in Calls : d # c => wire'[d] = wire[d]
        BY <2>1, <3>2 DEF RefusedBeforeDispatch, ConnectionRefused
      <3> QED
        BY <1>1, <1>3, <3>1, <3>3, ReleaseMoves
    <2>2. ASSUME NEW c \in Calls, Fail(c)
          PROVE  [KeyOnce!Next]_keyPhase
      BY <1>3, <2>2, UncertainMoves DEF Fail
    <2>3. ASSUME NEW c \in Calls, Redirect(c)
          PROVE  [KeyOnce!Next]_keyPhase
      <3>1. calls[c].phase = "sending"
        BY <2>3 DEF Redirect
      <3>2. \/ RecordUncertain(c)
            \/ /\ UNCHANGED <<adapter, rows, wire>>
               /\ calls' = [calls EXCEPT ![c].phase = "redirected"]
        BY <2>3 DEF Redirect
      <3> QED
        BY <1>3, <3>1, <3>2, UncertainMoves, QuietMoves
    <2>4. ASSUME NEW c \in Calls, Step(c)
          PROVE  [KeyOnce!Next]_keyPhase
      BY <1>3, <2>1, <2>2, <2>3, <2>4, ExecuteMoves, SendMoves, CompleteMoves, QuietMoves
      DEF Step
    <2>5. CASE UNCHANGED adapterVars
      <3>1. UNCHANGED rows /\ UNCHANGED calls /\ UNCHANGED wire
        BY <2>5 DEF adapterVars
      <3> QED
        BY <1>1, <1>3, <3>1, FileKept
    <2> QED
      BY <1>3, <2>4, <2>5, QuietMoves, CrashMoves DEF AdapterNext
  <1> QED
    BY <1>2, <1>3

-----------------------------------------------------------------------------
(* The theorems. *)

(* The invariant the journal, the calls and the network keep: what the     *)
(* rows of _IdempotencyStore say of the calls that own them.               *)
THEOREM AdapterInvariant == AdapterSpec => []AdapterInv
  <1>1. AdapterInit => AdapterInv
    BY AdapterInitInv
  <1>2. AdapterInv /\ [AdapterNext]_adapterVars => AdapterInv'
    BY AdapterStepInv
  <1> QED
    BY <1>1, <1>2, PTL DEF AdapterSpec

(* Journal rows, calls, requests and contacts keep their types: no row is  *)
(* ever half written by a crash or by an operation of _IdempotencyStore.   *)
THEOREM AdapterTypes == AdapterSpec => []AdapterTypeOK
  <1>1. AdapterInv => AdapterTypeOK
    BY DEF AdapterInv
  <1> QED
    BY <1>1, AdapterInvariant, PTL

(* An idempotency key is handed to the network at most once, for any       *)
(* number of processes, retries, crashes and delays.                       *)
THEOREM KeyDispatchedOnce == AdapterSpec => []OneDispatchPerKey
  <1>1. AdapterInv => OneDispatchPerKey
    BY InvDispatchesOnce
  <1> QED
    BY <1>1, AdapterInvariant, PTL

(* With uncertain repeats blocked, an identical mutating request leaves    *)
(* again only when every earlier one is known to have completed.           *)
THEOREM NothingRepeatedBlindly == AdapterSpec => NoBlindRepeat
  <1> DEFINE Quiet ==
        Journalled /\ adapter.block =>
          \A c, d \in Calls :
              /\ wire[c] = "none" /\ wire'[c] = "out"
              /\ d # c /\ calls[d].act = calls[c].act /\ SameJournal(c, d)
              => wire[d] = "none" \/ calls[d].result = "done"
  <1>1. AdapterInv /\ [AdapterNext]_adapterVars => [Quiet]_adapterVars
    BY NextRepeatsNothing
  <1> QED
    BY <1>1, AdapterInvariant, PTL DEF AdapterSpec, NoBlindRepeat

(* A replayed answer was given to a completed call with the same key and   *)
(* parameters; and when success was witnessed, at once or before a replay, *)
(* the provider has in place a resource with the caller's own parameters,  *)
(* those the witness is bound to.                                          *)
THEOREM AnswersReal == AdapterSpec => []AnswersAreReal
  <1>1. AdapterInv => AnswersAreReal
    BY InvAnswersReal
  <1> QED
    BY <1>1, AdapterInvariant, PTL

(* Requests go to the pinned origin at a public address only, with no      *)
(* parameter but those the operation declares and no unsafe path segment.  *)
THEOREM RequestsHome == AdapterSpec => []RequestsStayHome
  <1>1. AdapterInv => RequestsStayHome
    BY InvStaysHome
  <1> QED
    BY <1>1, AdapterInvariant, PTL

(* The durable journal implements ConsequenceOnce: a key has at most one   *)
(* owner, is dispatched by it only, and an unclear outcome or a death      *)
(* keeps it from every other call.                                         *)
THEOREM JournalIsOnce == AdapterSpec => JournalImplementsConsequenceOnce
  <1>1. AdapterInit => KeyOnce!Init
    <2> SUFFICES ASSUME AdapterInit, NEW key \in Keys, adapter.durable
                 PROVE  KeyPhase(key) = "free"
      BY DEF KeyOnce!Init, keyPhase
    <2>1. KeyPhases
      BY AdapterInitInv, InvKeyPhases
    <2>2. <<"idem", key>> \in Scopes /\ "file" \in Stores
      BY DEF Scopes, Stores
    <2>3. rows["file"][<<"idem", key>>] = None
      BY <2>2 DEF AdapterInit
    <2> QED
      BY <2>1, <2>3 DEF KeyPhases
  <1>2. AdapterInv => KeyPhases
    BY InvKeyPhases
  <1>3. AdapterInv /\ AdapterInv' /\ KeyPhases /\ KeyPhases' /\ [AdapterNext]_adapterVars
          => [KeyOnce!Next]_keyPhase
    BY JournalStep
  <1> QED
    BY <1>1, <1>2, <1>3, AdapterInvariant, PTL
    DEF AdapterSpec, KeyOnce!Spec, JournalImplementsConsequenceOnce
-----------------------------------------------------------------------------
(* Delivery: adapters and boundaries together.                             *)

(* The two share nothing: seen through either one's variables, a step of   *)
(* the deployment is a step of that one or none.                           *)
LEMMA DeliveryStep ==
  ASSUME [DeliveryNext]_deliveryVars
  PROVE  [AdapterNext]_adapterVars /\ [BoundaryNext]_boundaryVars
  <1>1. CASE UNCHANGED deliveryVars
    <2>1. UNCHANGED adapterVars /\ UNCHANGED boundaryVars
      BY <1>1 DEF deliveryVars
    <2> QED
      BY <2>1
  <1>2. CASE mode = "brokered" /\ AdapterNext /\ UNCHANGED <<mode, boundaryVars>>
    <2>1. UNCHANGED boundaryVars
      BY <1>2
    <2> QED
      BY <1>2, <2>1
  <1>3. CASE mode = "resource_owned" /\ BoundaryNext /\ UNCHANGED <<mode, adapterVars>>
    <2>1. UNCHANGED adapterVars
      BY <1>3
    <2> QED
      BY <1>3, <2>1
  <1> QED
    BY <1>1, <1>2, <1>3 DEF DeliveryNext

LEMMA ModeKept ==
  ASSUME mode \in {"brokered", "resource_owned"}, [DeliveryNext]_deliveryVars
  PROVE  mode' \in {"brokered", "resource_owned"}
  BY DEF DeliveryNext, deliveryVars

(* A deployment that delivers actions both ways (execution_modes.py) is an *)
(* adapter, with its timeouts, and a boundary at the same time: neither    *)
(* can tell that the other is there.                                       *)
THEOREM DeliveryIsBoth == DeliverySpec => AdapterSpec /\ BoundarySpec
  <1>1. DeliveryInit => AdapterInit /\ BoundaryInit
    BY DEF DeliveryInit
  <1>2. [DeliveryNext]_deliveryVars => [AdapterNext]_adapterVars /\ [BoundaryNext]_boundaryVars
    BY DeliveryStep
  <1> QED
    BY <1>1, <1>2, PTL DEF DeliverySpec, AdapterSpec, BoundarySpec

(* Journal, calls, requests, proofs and servers keep their types in a      *)
(* deployment of either kind, and its kind never changes.                  *)
THEOREM DeliveryTypes == DeliverySpec => []DeliveryTypeOK
  <1> DEFINE Kind == mode \in {"brokered", "resource_owned"}
  <1>1. DeliveryInit => Kind
    BY DEF DeliveryInit
  <1>2. Kind /\ [DeliveryNext]_deliveryVars => Kind'
    BY ModeKept
  <1>3. Kind /\ AdapterTypeOK /\ BoundaryTypeOK => DeliveryTypeOK
    BY DEF DeliveryTypeOK
  <1> HIDE DEF Kind
  <1> QED
    BY <1>1, <1>2, <1>3, DeliveryIsBoth, AdapterTypes, BoundaryTypes, PTL DEF DeliverySpec

(* Everything proved of the adapter and of the boundary holds where both   *)
(* are deployed: one dispatch per key, no blind repeat, answers that are   *)
(* real, requests that stay home, a journal that implements                *)
(* ConsequenceOnce, and proofs that are used once for what they say.       *)
THEOREM DeliveryIsSafe ==
  DeliverySpec => /\ [](OneDispatchPerKey /\ AnswersAreReal /\ RequestsStayHome)
                  /\ [](ProofUsedOnce /\ ProofsBuyWhatTheySay)
                  /\ NoBlindRepeat /\ JournalImplementsConsequenceOnce
  BY DeliveryIsBoth, KeyDispatchedOnce, AnswersReal, RequestsHome, NothingRepeatedBlindly,
     JournalIsOnce, BoundaryProofUsedOnce, BoundaryProofsBuy, PTL
=============================================================================
