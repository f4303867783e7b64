-------------------------- MODULE MCProductService --------------------------
(* Instances of ProductService for TLC.                                    *)
EXTENDS ProductService, TLC

\* Slots and orders are interchangeable (safety runs only).
Symmetry == Permutations(Slots) \cup Permutations(Orders)

\* The handlers by which orders move the rows.
OrderEndpoints == {"reserve", "clear", "commit"}

\* The handlers that compute a new stock, and a sale to race them with.
StockEndpoints == {"reserve", "adjust", "commit", "put"}
=============================================================================
