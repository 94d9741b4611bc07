------------------------------ MODULE MCLookup ------------------------------
(* Model values for the run of Lookup: PATH is unset, empty, or two         *)
(* directories in a row with an empty item at any place.                    *)
EXTENDS Lookup
CONSTANTS a, b
MCPaths == {<<>>, <<EmptyItem>>, <<a>>, <<a, b>>,
            <<EmptyItem, a, b>>, <<a, EmptyItem, b>>, <<a, b, EmptyItem>>}
=============================================================================
