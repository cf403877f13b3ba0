---------------------------- MODULE MCAnalytics ----------------------------
(* Model checking of AnalyticsService. *)
EXTENDS AnalyticsService

=============================================================================
