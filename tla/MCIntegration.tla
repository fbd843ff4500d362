-------------------------- MODULE MCIntegration ---------------------------
(* The script on the pinned stock tree and on trees that lack one anchor.   *)
EXTENDS Integration
McBumps == {"SD_TYPE_A2", "if x2trd", "LFLAGS", "edid_version", "InfoEnable(20",
            "case STOP", "else if (op & 1)", "hdmi_cec_power_on"}
=============================================================================
