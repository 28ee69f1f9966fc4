-------------------------- MODULE MCSteamMetadata --------------------------
(* One command that asks again and again, three games, of which two fit a  *)
(* chart, and two slots: the lock lets one refresh run at a time, so the   *)
(* requests that meet are those of successive refreshes.  Steam's lists    *)
(* are empty, longer than the chart and out of order, or hold a rank       *)
(* twice, a game twice or an invalid item.                                 *)
EXTENDS SteamMetadata

CONSTANTS c1, a1, a2, a3

Commands == {c1}
Apps == {a1, a2, a3}
At(rank, app) == [rank |-> rank, app |-> app]
Payloads ==
  { << >>,
    <<At(3, a3), At(2, a1), At(1, a2)>>,
    <<At(1, a1), At(1, a2)>>,
    <<At(1, a2), Junk, At(2, a2)>> }

-----------------------------------------------------------------------------
(* The loop of parse_chart_payload with its sort, as it is written: what   *)
(* ParseChart says of a list is what the loop makes of it, for every list  *)
(* of up to four items with three ranks.                                   *)
Keep(entries, item) ==
  IF item = Junk \/ \E k \in Range(entries) : Clash(k, item)
  THEN entries ELSE Append(entries, item)

Loop(ranks) ==
  LET entries == SortSeq(FoldLeft(Keep, << >>, ranks),
                         LAMBDA j, k : j.rank < k.rank)
  IN SubSeq(entries, 1, IF Len(entries) < ResultLimit THEN Len(entries)
                                                      ELSE ResultLimit)

ASSUME ParseIsLoop ==
  \A n \in 0..4 : \A ranks \in [1..n -> [rank : 1..3, app : App] \cup {Junk}] :
    ParseChart(ranks) = {Loop(ranks)}
=============================================================================
