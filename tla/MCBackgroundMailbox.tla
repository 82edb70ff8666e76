------------------------ MODULE MCBackgroundMailbox ------------------------
(* Small instances of BackgroundMailbox. *)
EXTENDS BackgroundMailbox

CONSTANTS office

MCPlates == {office}
MCStored == {<<"None", NoPlate>>, <<"Image", office>>}

=============================================================================
