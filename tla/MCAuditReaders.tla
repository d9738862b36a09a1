--------------------------- MODULE MCAuditReaders ---------------------------
(* A small instance of AuditReaders: four events on three instants, so that  *)
(* timestamps tie; pages of two, so that a burst takes several pages; two    *)
(* pages a tick and four lines an export, so that both bounds are reached.   *)
EXTENDS AuditReaders

\* All time, a lower bound only, a past To, and a To in the future.
MCExportWindows == {<<0, 0>>, <<2, 0>>, <<0, 2>>, <<2, 9>>}
=============================================================================
