----------------------------- MODULE MCContext ------------------------------
(* Model-checking instance of Context: two RTC threads and two worker task *)
(* objects, so that one leaves while another stays.                        *)
EXTENDS Context
=============================================================================
