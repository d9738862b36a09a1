---------------------------- MODULE AuditReaders ----------------------------
(***************************************************************************)
(* The portal's two long readers over the audit tables, one at a time: a   *)
(* stream connection or an export.  They share no state but the tables,    *)
(* which they only read, so running them together adds no behaviour; and a *)
(* behaviour is followed until its reader ends.                            *)
(***************************************************************************)
EXTENDS AuditStream, AuditExport

VARIABLE reader   \* which handler this behaviour follows

rvars == <<storeVars, streamVars, exportVars, reader>>

ReadersInit ==
  /\ StoreInit /\ StreamInit /\ ExportInit
  /\ reader \in {"stream", "export"}

ReadersNext ==
  \/ /\ reader = "stream"
     /\ StreamNext \/ (stream # "closed" /\ StoreDuringStream)
     /\ UNCHANGED <<exportVars, reader>>
  \/ /\ reader = "export"
     /\ ExportNext \/ (export \in {"idle", "paging"} /\ StoreDuringExport)
     /\ UNCHANGED <<streamVars, reader>>

ReadersSpec == ReadersInit /\ [][ReadersNext]_rvars

-----------------------------------------------------------------------------
\* The inductive invariant: that of the tables and of both readers, of which one
\* has not begun.
ReadersInv ==
  /\ StoreInv /\ ExportInv /\ StreamInv
  /\ <<reader, export>> = <<"stream", "idle">> \/ <<reader, stream>> = <<"export", "idle">>
=============================================================================
