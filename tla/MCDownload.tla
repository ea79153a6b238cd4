----------------------------- MODULE MCDownload ------------------------------
EXTENDS Download

\* One connection, two bytes, a careful app and no fault.
Plain == [total |-> 2, connections |-> 1, permits |-> 1, ranged |-> TRUE,
          sha |-> FALSE, patient |-> TRUE, faults |-> {}, runs |-> 2]

MCSetups ==
  { \* Two segments that take turns, and a restart of the process.
    [Plain EXCEPT !.total = 3, !.connections = 2, !.faults = {"crash"}],
    \* Two segments at once.
    [Plain EXCEPT !.total = 3, !.connections = 2, !.permits = 2, !.faults = {"crash"}, !.runs = 1],
    \* A network that fails, a disk that fails, a server that ignores ranges.
    [Plain EXCEPT !.faults = {"error"}],
    [Plain EXCEPT !.faults = {"disk"}],
    [Plain EXCEPT !.sha = TRUE, !.faults = {"whole"}],
    \* A single stream.
    [Plain EXCEPT !.ranged = FALSE, !.faults = {"short", "error", "crash"}],
    \* An app that does not wait.
    [Plain EXCEPT !.total = 1, !.patient = FALSE] }
=============================================================================
