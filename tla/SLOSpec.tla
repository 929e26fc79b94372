------------------------------ MODULE SLOSpec ------------------------------
(***************************************************************************)
(* The data that internal/spec hands to the rest of slom: a Spec is a       *)
(* sequence of SLOs, as spec.ToSpec returns it (internal/spec/model.go).    *)
(* Labels, annotations, ratios, thresholds and PromQL texts are left out:   *)
(* no property below depends on them.                                       *)
(***************************************************************************)
EXTENDS Naturals, Sequences

CONSTANTS
    SLONames,     \* names an SLO may have
    WindowNames,  \* names a window may have
    Durations,    \* window durations, in some unit
    Intervals,    \* evaluation intervals; 0 when the window configures none
    NoWindow      \* the nil Window of an objective without windowRef

ASSUME IntervalsAssumption == Durations \subseteq Nat /\ Intervals \subseteq Nat

(* A RollingWindow or (rolling = FALSE) a CalendarWindow.                   *)
Window == [name: WindowNames, rolling: BOOLEAN,
           duration: Durations, interval: Intervals]

ASSUME NoWindowAssumption == NoWindow \notin Window

(* A BurnRateAlert carries one window (single) or <<long, short>> (multi):  *)
(* the head is what BurnRateAlertWindow.Window() returns. An                *)
(* ErrorBudgetAlert carries none.                                           *)
Alert == [kind: {"burnRate"}, windows: [1..1 -> Window] \cup [1..2 -> Window]]
           \cup [kind: {"errorBudget"}, windows: {<<>>}]

SLO == [name: SLONames, windows: Seq(Window),
        objective: Window \cup {NoWindow}, alerts: Seq(Alert)]

(* What ToSpec guarantees of one SLO: window names are unique and every     *)
(* window an objective or an alert refers to is one of the SLO's windows.   *)
(* It does not compare SLO names with each other.                           *)
WellFormed(slo) ==
    /\ slo \in SLO
    /\ \A m, n \in DOMAIN slo.windows :
         slo.windows[m].name = slo.windows[n].name => m = n
    /\ slo.objective # NoWindow =>
         \E n \in DOMAIN slo.windows : slo.windows[n] = slo.objective
    /\ \A a \in DOMAIN slo.alerts :
         \A x \in DOMAIN slo.alerts[a].windows :
           \E n \in DOMAIN slo.windows :
             slo.windows[n] = slo.alerts[a].windows[x]
=============================================================================
