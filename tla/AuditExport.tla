---------------------------- MODULE AuditExport -----------------------------
(***************************************************************************)
(* PortalAPI.auditExportNDJSON (pkg/httpsrv/portal_audit_stream.go): one   *)
(* export that walks the rows of a time window by offset, one Query per    *)
(* page, while the audit worker goes on committing rows.                   *)
(***************************************************************************)
EXTENDS AuditStore

CONSTANTS ExportLimit,    \* auditExportLimit, 100000 in the code
          ExportWindows   \* the from and to of the export request, 0 when unset

ASSUME ExportAssumption ==
  /\ ExportLimit \in Nat \ {0}
  /\ ExportWindows \subseteq Nat \X Nat

VARIABLES
  export,   \* where the handler is, and how it ended
  window,   \* the filter's From and To, after the pin
  offset,   \* the filter's Offset
  out,      \* ids of the lines written
  \* History: the rows that were visible when the export began, and whether
  \* a row of the window was committed since.
  atEntry, disturbed

exportVars == <<export, window, offset, out, atEntry, disturbed>>

ExportStates == {"idle", "paging", "complete", "truncated", "failed", "gone"}

\* The handler's entry: To is pinned to the present.
ExportBegin(from, to) ==
  LET pinned == IF to = 0 \/ to > now THEN now ELSE to
  IN  /\ export = "idle"
      /\ export' = "paging"
      /\ window' = <<from, pinned>>
      /\ offset' = 0 /\ out' = <<>>
      /\ atEntry' = Matching(from, pinned) /\ disturbed' = FALSE
      /\ UNCHANGED storeVars

ExportPageSkipping ==
  LET rows == Query(window[1], window[2], MaxQueryLimit, offset)
  IN  /\ export = "paging"
      /\ out' = out \o rows
      /\ export' = IF Len(rows) < MaxQueryLimit THEN "complete" ELSE "paging"
      /\ offset' = offset + MaxQueryLimit + 1
      /\ UNCHANGED <<window, atEntry, disturbed, storeVars>>

ExportPageSameOffset ==
  LET rows == Query(window[1], window[2], MaxQueryLimit, offset)
  IN  /\ export = "paging"
      /\ out' = IF Len(out) + Len(rows) > 2 * ExportLimit THEN out ELSE out \o rows
      /\ export' = IF Len(rows) < MaxQueryLimit THEN "complete" ELSE "paging"
      /\ UNCHANGED <<window, offset, atEntry, disturbed, storeVars>>

\* One turn of the loop: the page's lines up to the export limit, then the
\* next offset.  A short page is the last one.
ExportPage ==
  LET rows == Query(window[1], window[2], MaxQueryLimit, offset)
      room == ExportLimit - Len(out)
  IN  /\ export = "paging"
      /\ out' = out \o SubSeq(rows, 1, IF Len(rows) < room THEN Len(rows) ELSE room)
      /\ \/ /\ Len(rows) >= room
            /\ export' = "truncated"
            /\ UNCHANGED offset
         \/ /\ Len(rows) < room
            /\ export' = IF Len(rows) < MaxQueryLimit THEN "complete" ELSE "paging"
            /\ offset' = offset + Len(rows)
      /\ UNCHANGED <<window, atEntry, disturbed, storeVars>>

\* Query fails: the handler writes an _export_error line and ends.
ExportError ==
  /\ export = "paging"
  /\ export' = "failed"
  /\ UNCHANGED <<window, offset, out, atEntry, disturbed, storeVars>>

\* The client went away before the page.
ExportCancelled ==
  /\ export = "paging"
  /\ export' = "gone"
  /\ UNCHANGED <<window, offset, out, atEntry, disturbed, storeVars>>

\* A step of the store; the history notes a commit into the window.
StoreDuringExport ==
  /\ StoreNext
  /\ disturbed' = (disturbed \/ (/\ export = "paging"
                                 /\ \E i \in events' \ events :
                                      ts[i] \in window[1]..window[2]))
  /\ UNCHANGED <<export, window, offset, out, atEntry>>

ExportInit ==
  /\ export = "idle"
  /\ window = <<0, 0>>
  /\ offset = 0 /\ out = <<>>
  /\ atEntry = {} /\ disturbed = FALSE

ExportNext ==
  \/ \E w \in ExportWindows : ExportBegin(w[1], w[2])
  \/ ExportPage
  \/ ExportError
  \/ ExportCancelled

-----------------------------------------------------------------------------
\* A complete export misses nothing: every row of the window that was visible
\* when the export began is written, although rows committed during the export
\* shift the offsets.
ExportCoversWindow == export = "complete" => atEntry \subseteq Range(out)

\* Rows are written twice only when a row of the window was committed while
\* the export ran; and even then no more lines are written than the window
\* has rows.
ExportRepeatsOnlyIfDisturbed ==
  /\ ~disturbed => IsInjective(out)
  /\ Len(out) <= Cardinality(Matching(window[1], window[2]))

\* pkg/httpsrv/portal_audit_stream.go: "offset pagination stays stable even
\* when new audit events arrive during the export".
ExportStable == IsInjective(out)

-----------------------------------------------------------------------------
(* The inductive invariant.                                                *)

Exported == Matching(window[1], window[2])

\* The offset is the number of lines written, and the rows before it by rank
\* that were there from the start are written: a commit only raises ranks.
\* Undisturbed, the lines are the rows by rank.
ExportInv ==
  /\ export \in ExportStates /\ window \in Nat \X Nat /\ offset \in Nat
  /\ out \in Seq(Exported) /\ Len(out) <= Cardinality(Exported)
  /\ atEntry \subseteq Exported
  /\ export = "idle" => out = <<>> /\ atEntry = {}
  /\ export = "paging" =>
       /\ window[2] # 0 /\ offset = Len(out) /\ Len(out) < ExportLimit
       /\ \A i \in atEntry : i \in Range(out) \/ Rank(i, Exported, Newer) >= offset
  /\ ~disturbed => \A k \in 1..Len(out) : Rank(out[k], Exported, Newer) = k - 1
  /\ ExportCoversWindow
=============================================================================
