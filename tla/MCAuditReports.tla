--------------------------- MODULE MCAuditReports ---------------------------
(* A small instance of AuditReports: four events on three instants, one more *)
(* than a query returns, in two groups whose order by count is not that by   *)
(* key; windows that are open, turned around, empty and in the future; and a *)
(* window too long for the number of buckets.                                *)
EXTENDS AuditReports

MCKeys == [i \in Ids |-> IF i = 2 THEN 1 ELSE 2]
MCReportWindows == {<<0, 0>>, <<1, 4>>, <<2, 1>>, <<2, 2>>, <<2, 9>>}
=============================================================================
