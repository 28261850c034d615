----------------------------- MODULE MCSplitter -----------------------------
(* A splitter.dat with a bracket pair, a quote, a sure and a doubtful end.   *)
EXTENDS Splitter

MCWord        == {"(", ")", "Q", ".", "?", "Cap"}
MCMarkerPairs == <<<<"(", ")">>, <<"Q", "Q">>>>
MCenders      == [x \in {".", "?"} |-> x = "?"]
MCstarters    == {}
MCCapitalized == {"Cap", "Q"}
MCOptions     == {[AllowBetweenMarkers |-> TRUE, MaxWords |-> 0],
                  [AllowBetweenMarkers |-> FALSE, MaxWords |-> 0],
                  [AllowBetweenMarkers |-> FALSE, MaxWords |-> 2]}
=============================================================================
