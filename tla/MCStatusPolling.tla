--------------------------- MODULE MCStatusPolling ---------------------------
(* One submission of each form and one click on the button.                *)
EXTENDS StatusPolling

CONSTANTS enroll, verify, click
=============================================================================
