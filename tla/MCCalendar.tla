----------------------------- MODULE MCCalendar -----------------------------
(* Calendar on days of six minutes and weeks of three days. *)
EXTENDS Calendar

MCUtc == [base |-> 0, shift |-> 0, at |-> 0]

(***************************************************************************)
(* A zone east of UTC whose clock changes at one of several instants, at   *)
(* every time of the day: two minutes forward, two back, or a whole day    *)
(* forward, as when a country crosses the date line.                       *)
(***************************************************************************)
MCZones ==
    {MCUtc, [base |-> 2, shift |-> 0, at |-> 0]}
        \cup [base : {1}, shift : {-2, 2, 6}, at : 15 .. 20]

MCBrowser == [base |-> 0, shift |-> 1, at |-> 0]

MCDays == <<1, 2>>

=============================================================================
