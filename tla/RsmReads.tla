------------------------------ MODULE RsmReads ------------------------------
(***************************************************************************)
(* What a host can see of the C runtime: the functions of rsm_runtime.c    *)
(* that only read, and the snapshot, which hands a consumer its records    *)
(* through the callbacks of rsm_snapshot.h: those of each tag, of each     *)
(* state slot and of each rung, here in three functions.                   *)
(***************************************************************************)
EXTENDS RsmRuntime, SequencesExt

Answered(v) == [status |-> "OK", value |-> v]
Refused(status) == [status |-> status]

\* member_ok: the members a composite type has, in the order of their numbers.
Members(type) ==
  CASE type = "TIMER"   -> <<"pre", "acc", "en", "tt", "dn">>
    [] type = "COUNTER" -> <<"pre", "acc", "dn", "cu", "cd", "ov", "un">>

\* rsm_runtime_read_tag: a scalar's effective value.
ReadTag(id) ==
  IF image = Null THEN Refused("INVALID_STATE")
  ELSE IF id \notin TagIds(P) THEN Refused("TAG_NOT_FOUND")
  ELSE IF TypeOf(P, id) \notin ScalarTypes THEN Refused("TYPE_MISMATCH")
  ELSE Answered(Effective(id))

\* rsm_runtime_read_member.
ReadMember(id, member) ==
  IF image = Null THEN Refused("INVALID_STATE")
  ELSE IF id \notin TagIds(P) THEN Refused("TAG_NOT_FOUND")
  ELSE IF TypeOf(P, id) \in ScalarTypes THEN Refused("TYPE_MISMATCH")
  ELSE IF ~Contains(Members(TypeOf(P, id)), member) THEN Refused("MEMBER_NOT_FOUND")
  ELSE Answered(tag[id][member])

\* rsm_runtime_get_mode, rsm_runtime_get_diagnostics, rsm_runtime_last_fault.
GetMode == mode
GetDiagnostics == IF image = Null THEN Refused("INVALID_STATE") ELSE Answered(diag)
LastFault == IF image = Null THEN Null ELSE fault

\* rsm_runtime_get_write_trace: the number of entries comes also with a refusal.
GetWriteTrace(capacity) ==
  IF image = Null THEN Refused("INVALID_STATE")
  ELSE IF capacity < traceCount
  THEN [status |-> "BUFFER_TOO_SMALL", count |-> traceCount]
  ELSE [status |-> "OK", count |-> traceCount]

-----------------------------------------------------------------------------
(* rsm_runtime_snapshot                                                    *)

\* A scalar is shown by its backing value, its effective one, and whether it is
\* forced.
ValueRecord(id) ==
  [tag |-> id, logical |-> tag[id], forced |-> id \in DOMAIN force,
   effective |-> IF id \in DOMAIN force THEN force[id] ELSE tag[id]]

MemberRecord(id, member) ==
  [tag |-> id, member |-> member, value |-> ReadMember(id, member).value]

TagRecords(id) ==
  IF TypeOf(P, id) \in ScalarTypes THEN <<ValueRecord(id)>>
  ELSE [k \in DOMAIN Members(TypeOf(P, id)) |-> MemberRecord(id, Members(TypeOf(P, id))[k])]

NoSlot == -1   \* UINT32_MAX: the envelope of an image without state

StateRecord(s, state) ==
  [mode |-> GetMode, diag |-> diag, fault |-> fault, slot |-> s,
   edge |-> state.edge, valid |-> state.valid, time |-> state.time]

\* Mode, diagnostics and fault come with the record of every state slot, or by
\* themselves; the mutant leaves an image without state without a record.
StatesOnly == [s \in SlotIds(P) |-> StateRecord(s, slot[s])]
StateRecords ==
  IF SlotIds(P) = {} THEN [s \in {NoSlot} |-> StateRecord(s, ZeroSlot)]
  ELSE [s \in SlotIds(P) |-> StateRecord(s, slot[s])]

PowerRecords == [r \in 1..Len(P.rungs) |-> [rung |-> r, power |-> rungPower[r]]]

\* rsm_runtime_snapshot_members: the composite tags only.
SnapshotMembers ==
  IF image = Null THEN Refused("INVALID_STATE")
  ELSE Answered([id \in {d \in TagIds(P) : TypeOf(P, d) \notin ScalarTypes} |-> TagRecords(id)])

\* rsm_runtime_snapshot: a field for each callback of rsm_snapshot_writer_t, the
\* two for tags together.
Snapshot ==
  IF image = Null THEN Refused("INVALID_STATE")
  ELSE Answered([tags |-> [id \in TagIds(P) |-> TagRecords(id)],
                 states |-> StateRecords, powers |-> PowerRecords])

-----------------------------------------------------------------------------
\* What the queries of rsm_runtime.h answer besides the snapshot.
Queries == <<GetMode, GetDiagnostics, LastFault, SnapshotMembers>>

\* rsm_snapshot.h: consumers cannot omit composite or lifecycle state.  No step
\* changes what later scans depend on, or what another query answers, and leaves
\* the snapshot as it was; and it shows every scalar as rsm_runtime_read_tag does.
\* (The cut of the code, the write trace and the clock are not shown.)  The write
\* trace is refused to nobody with room for all that it may hold.
SnapshotShowsState ==
  [][image # Null =>
       /\ \A id \in TagIds(P) :
            TypeOf(P, id) \in ScalarTypes => TagRecords(id)[1].effective = ReadTag(id).value
       /\ (image' = image /\ Snapshot' = Snapshot) =>
            UNCHANGED <<tag, force, slot, rungPower, Queries>>
       /\ GetWriteTrace(TraceCapacity).status = "OK"]_vars
=============================================================================
