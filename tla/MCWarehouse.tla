----------------------------- MODULE MCWarehouse -----------------------------
(* Model-checking instances of WarehouseLogging: two handlers.              *)
EXTENDS WarehouseLogging, TLC

CONSTANTS h1, h2, w1, w2, r1, r2, o1

\* Both handlers ship to one warehouse: h1 on a logger of the application, h2
\* on the package's logger.
OneWarehouse    == [h \in {h1, h2} |-> w1]
PackageHandlers == (r1 :> {h1} @@ r2 :> {h1} @@ o1 :> {h2})
RecordKeys      == (r1 :> 1 @@ r2 :> 2 @@ o1 :> 3)

\* Two loggers, each with a warehouse of its own.
TwoWarehouses   == (h1 :> w1 @@ h2 :> w2)
SeparateLoggers == (r1 :> {h1} @@ r2 :> {h2} @@ o1 :> {})
=============================================================================
