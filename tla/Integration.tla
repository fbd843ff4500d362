---------------------------- MODULE Integration ----------------------------
(***************************************************************************)
(* main/integration/apply_integration.py: the script that patches a stock  *)
(* Main_MiSTer tree into MiSTer_DVDcss.  A line of a source file is the    *)
(* set of the anchors and markers that occur in it (its wording matters to *)
(* nothing else), a file is a sequence of lines, and the script is a       *)
(* sequence of reads, edits and writes that a process executes one by one. *)
(* Where the text of an edit goes on behind the line with its marker, one  *)
(* line, its body, stands for all that follows.                            *)
(* The process may fail at a missing anchor, be killed between two steps   *)
(* or within a write, and be started again on what is left.                *)
(***************************************************************************)
EXTENDS Integers, Sequences, SequencesExt, FiniteSets

CONSTANTS MaxRuns,   \* how often the script is started
          MaxTorn,   \* how many files a kill within a write may cut short
          Bumps      \* the anchors one of which a newer stock may lack

ASSUME BoundAssumption == MaxRuns \in Nat \ {0} /\ MaxTorn \in Nat

Line(p) == {p}

(***************************************************************************)
(* The steps.  An edit finds "at" in the text held in "buf" and puts lines *)
(* there, unless "mark" occurs anywhere in the text.                       *)
(***************************************************************************)
ReadOp(v, f)  == [op |-> "read", buf |-> v, file |-> f]
WriteOp(v, f) == [op |-> "write", buf |-> v, file |-> f]
Edit(kind, v, n, at, put, mark) ==
  [op |-> kind, buf |-> v, step |-> n, at |-> at, put |-> put, mark |-> mark]
Edits == {"after", "before", "replace", "sub", "function"}
After(v, n, at, put, mark)   == Edit("after", v, n, at, put, mark)
Before(v, n, at, put, mark)  == Edit("before", v, n, at, put, mark)
Replace(v, n, at, put, mark) == Edit("replace", v, n, at, put, mark)

\* Steps 1-11: the disc source, its mount and its two read sites.
CoreSteps ==
  << ReadOp("u", "user_io.cpp"),
     After("u", "1", "ide_cdrom.h", <<Line("dvd_css.h"), Line("dvd_phys.h")>>, "dvd_css.h"),
     After("u", "2", "SD_TYPE_A2", <<{"SD_TYPE_DVDCSS", "define DVDCSS"}>>, "SD_TYPE_DVDCSS"),
     Edit("function", "u", "3", "is_3do_type", <<Line("is_dvd()"), Line("is_dvd body")>>,
          "is_dvd()"),
     After("u", "4", "is_uneon_type = 0", <<Line("dvdcss:reset")>>, "dvdcss:reset"),
     After("u", "5", "sd_image_cangrow", <<{"SD_TYPE_DVDCSS", "dvd_css_close"}>>, "dvd_css_close"),
     Edit("sub", "u", "6", "if x2trd", <<{"DVD_PHYS_SENTINEL", "is_dvd()"},
          {"SD_TYPE_DVDCSS", "is_dvd()", "open body"}, Line("else if x2trd")>>, "DVD_PHYS_SENTINEL"),
     After("u", "7", "add_frame_callback", <<Line("dvd_css_tick"), Line("dvd_phys_tick")>>,
           "dvd_phys_tick"),
     Before("u", "8", "else if size", <<{"SD_TYPE_DVDCSS", "dvdcss:readA"}, Line("readA body")>>,
            "dvdcss:readA"),
     Before("u", "9", "else if FileSeek", <<{"SD_TYPE_DVDCSS", "dvdcss:readB"}, Line("readB body")>>,
            "dvdcss:readB"),
     WriteOp("u", "user_io.cpp"),
     ReadOp("h", "user_io.h"),
     After("h", "10", "char is_3do();", <<Line("char is_dvd();")>>, "char is_dvd();"),
     WriteOp("h", "user_io.h"),
     ReadOp("mk", "Makefile"),
     Edit("sub", "mk", "11", "LFLAGS", <<{"LFLAGS", "-ldl"}>>, "-ldl"),
     [op |-> "write_changed", buf |-> "mk", file |-> "Makefile"] >>

\* Steps 12-16: the HDMI bitstream's poll tick, acknowledge and declaration.
HdmiUserIoSteps ==
  << ReadOp("u", "user_io.cpp"),
     After("u", "12", "dvd_phys.h", <<Line("dvd_hdmi_audio.h")>>, "dvd_hdmi_audio.h"),
     After("u", "13", "dvd_phys_tick", <<Line("dvd_hdmi_audio_tick")>>, "dvd_hdmi_audio_tick"),
     After("u", "14", "if vga_fb", <<Line("dvd:hdmibs")>>, "dvd:hdmibs"),
     After("u", "15", "found OX option", <<{"dvd_hdmi_audio_declare", "is_dvd()"}>>,
           "dvd_hdmi_audio_declare"),
     WriteOp("u", "user_io.cpp"),
     After("h", "16", "CONF_DIRECT_VIDEO2", <<Line("CONF_DVD_HDMI_BS")>>, "CONF_DVD_HDMI_BS"),
     WriteOp("h", "user_io.h") >>

\* Steps 17-20: the audio registers of the transmitter.
HdmiVideoSteps ==
  << ReadOp("vh", "video.h"),
     After("vh", "17", "video_get_edid", <<Line("hdmi_config_set_audio"), Line("config_generation")>>,
           "hdmi_config_set_audio"),
     WriteOp("vh", "video.h"),
     ReadOp("vc", "video.cpp"),
     After("vc", "18", "edid_version", <<{"hdmi_cfg_generation", "static generation"}>>,
           "hdmi_cfg_generation"),
     Before("vc", "19", "for init_data", <<{"hdmi_cfg_generation", "hdmi_cfg_generation++"}>>,
            "hdmi_cfg_generation++"),
     Before("vc", "20", "hdmi_config_set_hdr", <<Line("hdmi_config_set_audio"),
            {"hdmi_cfg_generation", "set_audio body"}>>, "hdmi_config_set_audio"),
     WriteOp("vc", "video.cpp") >>

\* Step 21: the ini key of the bitstream.
HdmiCfgSteps ==
  << ReadOp("ch", "cfg.h"),
     After("ch", "21", "hdmi_audio_96k", <<Line("dvd_hdmi_bitstream")>>, "dvd_hdmi_bitstream"),
     WriteOp("ch", "cfg.h"),
     ReadOp("cc", "cfg.cpp"),
     After("cc", "21", "HDMI_AUDIO_96K", <<Line("DVD_HDMI_BITSTREAM")>>, "DVD_HDMI_BITSTREAM"),
     WriteOp("cc", "cfg.cpp") >>

\* Steps 22-28 and 33: support bundle and launch watchdog.
BundleSteps ==
  << ReadOp("u", "user_io.cpp"),
     After("u", "22", "dvd_hdmi_audio.h", <<Line("dvd_report.h")>>, "dvd_report.h"),
     After("u", "23", "dvd_hdmi_audio_tick", <<Line("dvd_report_tick")>>, "dvd_report_tick"),
     After("u", "24", "uint8_t joy", <<Line("dvd_report_joy")>>, "dvd_report_joy"),
     After("u", "25", "ULLONG_MAX", <<Line("user_io_last_lba"), Line("last_lba body")>>,
           "user_io_last_lba"),
     After("u", "26", "int len", <<Line("dvd_report_note_mount(name)")>>,
           "dvd_report_note_mount(name)"),
     After("u", "27", "dvd_report.h", <<Line("dvd_launch.h")>>, "dvd_launch.h"),
     Before("u", "28", "dvd_css_tick", <<Line("dvd_launch_tick")>>, "dvd_launch_tick"),
     After("u", "33", "dvd_launch.h", <<Line("dvd_ctl.h")>>, "dvd_ctl.h") >>

\* Steps 29-31, 34, 39, 40, 57-59: the remaining ticks and observers.  Step 30
\* inserts a call with two arguments and looks for one with a single argument.
TickSteps ==
  << After("u", "34", "dvd_report_tick", <<Line("dvd_ctl_tick")>>, "dvd_ctl_tick"),
     After("u", "39", "dvd_ctl.h", <<Line("dvd_remote.h")>>, "dvd_remote.h"),
     After("u", "40", "dvd_ctl_tick", <<Line("dvd_remote_tick")>>, "dvd_remote_tick"),
     After("u", "57", "dvd_remote.h", <<Line("dvd_sstate.h")>>, "dvd_sstate.h"),
     After("u", "58", "dvd_report_note_mount(name)", <<Line("dvd_sstate_note_mount(name)")>>,
           "dvd_sstate_note_mount(name)"),
     After("u", "59", "dvd_remote_tick", <<Line("dvd_sstate_tick")>>, "dvd_sstate_tick"),
     After("u", "30", "dvd_report_note_mount(name)", <<Line("dvd_phys_note_mount(name, index)")>>,
           "dvd_phys_note_mount(name)"),
     After("u", "31", "if !size", <<Line("dvd_launch_note_status")>>, "dvd_launch_note_status"),
     Before("u", "29", "UIO_SET_SDSTAT", <<Line("dvd_report_note_mount_result")>>,
            "dvd_report_note_mount_result"),
     WriteOp("u", "user_io.cpp"),
     ReadOp("h", "user_io.h"),
     After("h", "25", "char is_dvd();", <<Line("user_io_last_lba")>>, "user_io_last_lba"),
     WriteOp("h", "user_io.h") >>

\* Steps 32 and 42: menu.cpp.
MenuSteps ==
  << ReadOp("m", "menu.cpp"),
     Replace("m", "32", "CheckTimer", <<Line("mgl->timer && CheckTimer"), Line("mgl->state")>>,
             "mgl->timer && CheckTimer"),
     Replace("m", "42", "InfoEnable(20", <<Line("dvd:info-safe-area"), Line("InfoEnable(dvd_info_x")>>,
             "dvd:info-safe-area"),
     WriteOp("m", "menu.cpp") >>

\* Steps 35-37 and 60: what runs before the core goes away; 38: and at its start.
FpgaSteps ==
  << ReadOp("fio", "fpga_io.cpp"),
     After("fio", "35", "fpga_io.h", <<Line("dvd_hdmi_audio.h")>>, "dvd_hdmi_audio.h"),
     Before("fio", "36", "input_switch(0)", <<{"dvd_hdmi_audio_teardown", "restart teardown"}>>,
            "dvd_hdmi_audio_teardown"),
     Before("fio", "37", "usleep(500000)", <<{"dvd_hdmi_audio_teardown", "the HPS resets"}>>,
            "the HPS resets"),
     After("fio", "60", "dvd_hdmi_audio.h", <<Line("dvd_sstate.h")>>, "dvd_sstate.h"),
     After("fio", "60", "OsdDisable", <<Line("dvd_sstate_autosave_flush")>>, "dvd_sstate_autosave_flush"),
     WriteOp("fio", "fpga_io.cpp") >>
SelfHealSteps ==
  << ReadOp("vc", "video.cpp"),
     Before("vc", "38", "hdmi_cfg_generation++", <<Line("non-PCM flag"), Line("clear the flag")>>,
            "non-PCM flag"),
     WriteOp("vc", "video.cpp") >>

\* Step 41: the CEC keys.
CecSteps ==
  << ReadOp("cec", "hdmi_cec.cpp"),
     After("cec", "41", "CEC FF", <<{"CEC EJECT", "define EJECT"}>>, "CEC EJECT"),
     Replace("cec", "41", "case ROOT_MENU, EXIT", <<Line("case ROOT_MENU"), Line("EXIT is back"),
             Line("case EXIT")>>, "EXIT is back"),
     Replace("cec", "41", "case STOP", <<Line("STOP is stop"), {"CEC EJECT", "STOP body"}>>,
             "STOP is stop"),
     WriteOp("cec", "hdmi_cec.cpp") >>

\* Steps 43-47: the Video CD slot.
VcdSteps ==
  << ReadOp("u", "user_io.cpp"),
     After("u", "43", "dvd_css.h", <<Line("dvd_vcd.h")>>, "dvd_vcd.h"),
     After("u", "44", "define DVDCSS", <<{"SD_TYPE_VCD", "define VCD"}>>, "SD_TYPE_VCD"),
     After("u", "44b", "dvd_css_close", <<{"SD_TYPE_VCD", "dvd_vcd_close"}>>, "dvd_vcd_close"),
     Before("u", "45", "else if x2trd", <<{"DVD_PHYS_VCD_SENTINEL", "is_dvd()"},
            {"SD_TYPE_VCD", "vcd open body"}>>, "DVD_PHYS_VCD_SENTINEL"),
     Before("u", "46", "else if size", <<{"SD_TYPE_VCD", "dvdvcd:readA"}, Line("vcd readA body")>>,
            "dvdvcd:readA"),
     Before("u", "47", "else if FileSeek", <<{"SD_TYPE_VCD", "dvdvcd:readB"}, Line("vcd readB body")>>,
            "dvdvcd:readB"),
     WriteOp("u", "user_io.cpp") >>

\* Steps 48-49: the read that waits for the ring.
ReadAheadSteps ==
  << ReadOp("u", "user_io.cpp"),
     After("u", "48", "dvd_css.h", <<Line("dvd_readahead.h")>>, "dvd_readahead.h"),
     Before("u", "49", "else if (op & 1)", <<{"dvdra:defer", "SD_TYPE_DVDCSS", "SD_TYPE_VCD"},
            Line("defer body")>>, "dvdra:defer"),
     WriteOp("u", "user_io.cpp") >>

\* As a step whose marker is misspelt: it is never seen to be applied.
CueSteps_BadMarker ==
  << ReadOp("m", "menu.cpp"),
     Replace("m", "50", "fs_pFileExt[13]", <<Line("dvd:ext-len")>>, "dvd:ext-len"),
     WriteOp("m", "menu.cpp"),
     ReadOp("u", "user_io.cpp"),
     After("u", "51a", "dvd_css.h", <<Line("dvd_cue.h")>>, "dvd_cue.h"),
     Before("u", "51b", "else if x2trd", <<{"dvd:cue", "is_dvd()"},
            {"SD_TYPE_DVDCSS", "SD_TYPE_VCD", "cue body"}>>, "dvd: cue"),
     WriteOp("u", "user_io.cpp") >>

\* Steps 50-51: cue sheets.
CueSteps ==
  << ReadOp("m", "menu.cpp"),
     Replace("m", "50", "fs_pFileExt[13]", <<Line("dvd:ext-len")>>, "dvd:ext-len"),
     WriteOp("m", "menu.cpp"),
     ReadOp("u", "user_io.cpp"),
     After("u", "51a", "dvd_css.h", <<Line("dvd_cue.h")>>, "dvd_cue.h"),
     Before("u", "51b", "else if x2trd", <<{"dvd:cue", "is_dvd()"},
            {"SD_TYPE_DVDCSS", "SD_TYPE_VCD", "cue body"}>>, "dvd:cue"),
     WriteOp("u", "user_io.cpp") >>

\* Steps 52-56: the IR remap; its ini keys follow lines that step 21 inserted.
IrSteps ==
  << ReadOp("ip", "input.cpp"),
     After("ip", "52", "file_io.h", <<Line("dvd_ir.h")>>, "dvd_ir.h"),
     Replace("ip", "53", "has_advanced_map", <<Line("has_advanced_map"), Line("dvd:ir"),
             Line("ir body")>>, "dvd:ir"),
     WriteOp("ip", "input.cpp"),
     ReadOp("ch2", "cfg.h"),
     After("ch2", "54", "dvd_hdmi_bitstream", <<Line("dvd_ir_remap")>>, "dvd_ir_remap"),
     WriteOp("ch2", "cfg.h"),
     ReadOp("cc2", "cfg.cpp"),
     After("cc2", "55", "DVD_HDMI_BITSTREAM", <<Line("DVD_IR_REMAP")>>, "DVD_IR_REMAP"),
     WriteOp("cc2", "cfg.cpp"),
     ReadOp("cc3", "cfg.cpp"),
     After("cc3", "56", "hdmi_cec_power_on", <<Line("dvd_ir_remap = 1")>>, "dvd_ir_remap = 1"),
     WriteOp("cc3", "cfg.cpp") >>

Script == FlattenSeq(<<CoreSteps, HdmiUserIoSteps, HdmiVideoSteps, HdmiCfgSteps, BundleSteps,
                       TickSteps, MenuSteps, FpgaSteps, SelfHealSteps, CecSteps, VcdSteps,
                       ReadAheadSteps, CueSteps, IrSteps>>)

Buffers == {Script[i].buf : i \in DOMAIN Script}

(***************************************************************************)
(* The stock tree, as far as the script looks at it: each line is one of   *)
(* its anchors, "}" closes is_3do(), {} stands for what it never reads.    *)
(***************************************************************************)
Lines(names) == [i \in DOMAIN names |-> Line(names[i])]
Stock ==
  [f \in {"user_io.cpp", "user_io.h", "Makefile", "video.h", "video.cpp", "cfg.h", "cfg.cpp",
          "menu.cpp", "fpga_io.cpp", "hdmi_cec.cpp", "input.cpp"} |->
    Lines(CASE f = "user_io.cpp" ->
                 <<"ide_cdrom.h", "SD_TYPE_A2", "is_3do_type", "}", "is_uneon_type = 0", "if vga_fb",
                   "found OX option", "uint8_t joy", "ULLONG_MAX", "int len", "sd_image_cangrow",
                   "if x2trd", "UIO_SET_SDSTAT", "if !size", "add_frame_callback",
                   "else if (op & 1)", "else if size", "else if FileSeek">>
            [] f = "user_io.h" -> <<"char is_3do();", "CONF_DIRECT_VIDEO2">>
            [] f = "Makefile" -> <<"LFLAGS">>
            [] f = "video.h" -> <<"video_get_edid">>
            [] f = "video.cpp" -> <<"edid_version", "hdmi_config_set_hdr", "for init_data">>
            [] f = "cfg.h" -> <<"hdmi_audio_96k">>
            [] f = "cfg.cpp" -> <<"HDMI_AUDIO_96K", "hdmi_cec_power_on">>
            [] f = "menu.cpp" -> <<"fs_pFileExt[13]", "CheckTimer", "InfoEnable(20">>
            [] f = "fpga_io.cpp" -> <<"fpga_io.h", "OsdDisable", "input_switch(0)", "usleep(500000)">>
            [] f = "hdmi_cec.cpp" -> <<"CEC FF", "case ROOT_MENU, EXIT", "case STOP">>
            [] f = "input.cpp" -> <<"file_io.h", "has_advanced_map">>)]
Files == DOMAIN Stock
Without(text, p) == SelectSeq(text, LAMBDA l : p \notin l)

(***************************************************************************)
(* The helpers on text.  find() takes the first line that has the anchor.  *)
(***************************************************************************)
Carries(text, p)   == \E i \in DOMAIN text : p \in text[i]
Find(text, p)      == SelectInSeq(text, LAMBDA l : p \in l)
Count(text, p)     == Cardinality({i \in DOMAIN text : p \in text[i]})
Splice(text, i, put, j) == SubSeq(text, 1, i) \o put \o SubSeq(text, j, Len(text))

InsertAfter(text, e)  == LET i == Find(text, e.at) IN Splice(text, i, e.put, i + 1)
InsertBefore_Below(text, e) == LET i == Find(text, e.at) IN Splice(text, i, e.put, i + 1)
InsertBefore(text, e) == LET i == Find(text, e.at) IN Splice(text, i - 1, e.put, i)
ReplaceOnce(text, e)  == LET i == Find(text, e.at) IN Splice(text, i - 1, e.put, i + 1)
\* Step 3: after the first closing brace that follows the anchor.
CloseOf(text, e) ==
  LET i == Find(text, e.at)
  IN  i + SelectInSeq(SubSeq(text, i + 1, Len(text)), LAMBDA l : "}" \in l)

Patched(text, e) ==
  CASE e.op = "after"               -> InsertAfter(text, e)
    [] e.op = "before"              -> InsertBefore(text, e)
    [] e.op \in {"replace", "sub"}  -> ReplaceOnce(text, e)
    [] e.op = "function"            -> Splice(text, CloseOf(text, e), e.put, CloseOf(text, e) + 1)

Already(text, e) == Carries(text, e.mark)
Anchored(text, e) ==
  /\ Carries(text, e.at)
  /\ e.op = "replace" => Count(text, e.at) = 1
  /\ e.op = "function" => CloseOf(text, e) > Find(text, e.at)

(***************************************************************************)
(* How the script is made, as far as its recovery depends on it: facts     *)
(* about Script and Stock themselves, which TLC evaluates.                 *)
(***************************************************************************)
FileOf(v) ==
  Script[CHOOSE i \in DOMAIN Script : Script[i].op = "read" /\ Script[i].buf = v].file
EditsOf == {i \in DOMAIN Script : Script[i].op \in Edits}
ReadsOf(v) == {i \in DOMAIN Script : Script[i].op = "read" /\ Script[i].buf = v}
WritesOf(f) == {i \in DOMAIN Script : /\ Script[i].op \in {"write", "write_changed"}
                                      /\ Script[i].file = f}
EditsIn(f) == {i \in EditsOf : FileOf(Script[i].buf) = f}

\* An edit's lines are in the text of buffer v when the process is at step p: it
\* was made there, or the text was read after it.
Seen(i, v, p) == Script[i].buf = v \/ \E r \in ReadsOf(v) : i < r /\ r < p

\* A buffer is of one file.  A file is written before it is read again, by the
\* buffer that has seen every edit so far, and at last behind every edit.
BuffersAreKept ==
  /\ Script \in Seq(Range(Script)) \ {<<>>}
  /\ \A i \in DOMAIN Script :
       \/ i \in EditsOf /\ FileOf(Script[i].buf) \in Files
       \/ /\ Script[i].op \in {"read", "write", "write_changed"}
          /\ Script[i].file = FileOf(Script[i].buf) /\ Script[i].file \in Files
  /\ \A v \in Buffers : \A r \in ReadsOf(v) : \A i \in EditsIn(FileOf(v)) :
       i < r => \E w \in WritesOf(FileOf(v)) : i < w /\ w < r
  /\ \A p \in DOMAIN Script : Script[p].op # "read" =>
       \A i \in EditsIn(FileOf(Script[p].buf)) : i < p => Seen(i, Script[p].buf, p)
  /\ \A i \in EditsOf : \E w \in WritesOf(FileOf(Script[i].buf)) : i < w

\* The lines a file can come to hold, those an edit may work at, and what it
\* leaves in the place of one.
Known(f) == Range(Stock[f]) \union UNION {Range(Script[i].put) : i \in EditsIn(f)}
Places(f, e) ==
  {l \in Known(f) : e.mark \notin l /\ (IF e.op = "function" THEN "}" ELSE e.at) \in l}
Block(l, e) ==
  CASE e.op \in {"after", "function"} -> <<l>> \o e.put
    [] e.op = "before"                -> e.put \o <<l>>
    [] e.op \in {"replace", "sub"}    -> e.put

\* What an edit writes over is nobody's mark and nobody's line; a mark among its
\* lines that is not its own is that of an edit before it.
EditsKeepApart ==
  \A f \in Files : \A i, j \in EditsIn(f) :
    /\ Script[i].put \in Seq(Known(f))
    /\ i # j => \A l \in Range(Script[i].put) : Script[j].mark \in l => j < i
    /\ \A l \in Places(f, Script[i]) : l \notin Range(Block(l, Script[i])) =>
         Script[j].mark \notin l /\ (i # j => l \notin Range(Script[j].put))

\* Every file has an edit that closes it: behind its anchor, and behind its marker,
\* come only the lines at the rear of the file.
Closing ==
  [f \in Files |->
    CASE f = "user_io.cpp" -> [at |-> "else if FileSeek", mark |-> "dvdcss:readB",
                               rear |-> {"else if FileSeek", "dvdcss:readB", "readB body",
                                        "dvdvcd:readB", "vcd readB body"}]
      [] f = "user_io.h" -> [at |-> "CONF_DIRECT_VIDEO2", mark |-> "CONF_DVD_HDMI_BS",
                             rear |-> {"CONF_DVD_HDMI_BS"}]
      [] f = "Makefile" -> [at |-> "LFLAGS", mark |-> "-ldl", rear |-> {"-ldl"}]
      [] f = "video.h" -> [at |-> "video_get_edid", mark |-> "hdmi_config_set_audio",
                           rear |-> {"hdmi_config_set_audio", "config_generation"}]
      [] f = "video.cpp" -> [at |-> "for init_data", mark |-> "hdmi_cfg_generation++",
                             rear |-> {"for init_data", "hdmi_cfg_generation++", "non-PCM flag",
                                      "clear the flag"}]
      [] f = "cfg.h" -> [at |-> "hdmi_audio_96k", mark |-> "dvd_hdmi_bitstream",
                         rear |-> {"dvd_hdmi_bitstream", "dvd_ir_remap"}]
      [] f = "cfg.cpp" -> [at |-> "hdmi_cec_power_on", mark |-> "dvd_ir_remap = 1",
                           rear |-> {"dvd_ir_remap = 1"}]
      [] f = "menu.cpp" -> [at |-> "InfoEnable(20", mark |-> "dvd:info-safe-area",
                            rear |-> {"dvd:info-safe-area", "InfoEnable(dvd_info_x"}]
      [] f = "fpga_io.cpp" -> [at |-> "usleep(500000)", mark |-> "the HPS resets",
                               rear |-> {"usleep(500000)", "the HPS resets"}]
      [] f = "hdmi_cec.cpp" -> [at |-> "case STOP", mark |-> "STOP is stop",
                                rear |-> {"STOP is stop", "STOP body"}]
      [] f = "input.cpp" -> [at |-> "has_advanced_map", mark |-> "dvd:ir", rear |-> {"dvd:ir", "ir body"}]]
Closes(f, l) == Closing[f].at \in l \/ Closing[f].mark \in l
Rear(f) == {l \in Known(f) : l \intersect Closing[f].rear # {}}

\* The edits that put a line there.
AtRear(f) == {i \in EditsIn(f) : Range(Script[i].put) \intersect Rear(f) # {}}

FilesAreClosed ==
  \A f \in Files :
    /\ \E i \in EditsIn(f) : Script[i].mark = Closing[f].mark
         /\ \E l \in Range(Script[i].put) : Script[i].mark \in l
    /\ \A i \in EditsIn(f) : \A l \in Places(f, Script[i]) :
         LET b == Block(l, Script[i])
         IN  /\ l \in Rear(f) => Range(b) \subseteq Rear(f)
             /\ \A k, m \in DOMAIN b : k < m /\ Closes(f, b[k]) => b[m] \in Rear(f)
             /\ (\E k \in DOMAIN b : Closes(f, b[k])) => Closes(f, l)

\* A text the script may meet.  What has the marker of an edit in S has its lines:
\* of every edit while no kill has cut the file, and of those that are not at the
\* rear in a closed file.  An open one is cut short so that the edit that closes it
\* can only fail.
Closed(text, f) == \E n \in DOMAIN text : Closes(f, text[n])
Complete(text, S) ==
  \A i \in S : Carries(text, Script[i].mark) => Range(Script[i].put) \subseteq Range(text)
Trailing(text, f) ==
  \A n, m \in DOMAIN text : n < m /\ Closes(f, text[n]) => text[m] \in Rear(f)
Whole(text, f) ==
  /\ text \in Seq(Known(f))
  /\ Closed(text, f) => Complete(text, EditsIn(f) \ AtRear(f)) /\ Trailing(text, f)

Trees == {Stock} \union {[f \in Files |-> Without(Stock[f], p)] : p \in Bumps}

WellMade ==
  /\ BuffersAreKept /\ EditsKeepApart /\ FilesAreClosed
  /\ \A t \in Trees : \A f \in Files : Whole(t[f], f) /\ Complete(t[f], EditsIn(f))
ASSUME ScriptAssumption == WellMade

(***************************************************************************)
(* The process.                                                            *)
(***************************************************************************)
VARIABLES
  tree,     \* the stock tree it was given
  disk,     \* the files as they are now
  buf,      \* the script's variables that hold a text
  todo,       \* the step it is about to do; 0 when no process runs
  ended,    \* how the last process ended
  runs,     \* processes started so far
  torn      \* history: the files a kill has cut short

scriptVars == <<tree, disk, buf, todo, ended, runs, torn>>

Empty == [v \in Buffers |-> <<>>]

ScriptInit ==
  /\ tree \in Trees
  /\ disk = tree
  /\ buf = Empty
  /\ todo = 0
  /\ ended = "never"
  /\ runs = 0
  /\ torn = {}

\* build_main.sh, or someone by hand, starts the script on the tree as it is.
Start ==
  /\ todo = 0
  /\ runs < MaxRuns
  /\ todo' = 1
  /\ runs' = runs + 1
  /\ ended' = "running"
  /\ UNCHANGED <<tree, disk, buf, torn>>

Now == Script[todo]
Proceed(texts) ==
  /\ buf' = IF todo = Len(Script) THEN Empty ELSE texts
  /\ todo' = IF todo = Len(Script) THEN 0 ELSE todo + 1
  /\ ended' = IF todo = Len(Script) THEN "done" ELSE ended
  /\ UNCHANGED <<tree, runs, torn>>
Stop(how) ==
  /\ todo' = 0
  /\ ended' = how
  /\ buf' = Empty
  /\ UNCHANGED <<tree, runs>>

ReadFile ==
  /\ todo > 0
  /\ Now.op = "read"
  /\ Proceed([buf EXCEPT ![Now.buf] = disk[Now.file]])
  /\ UNCHANGED disk

EditText ==
  /\ todo > 0
  /\ Now.op \in Edits
  /\ ~Already(buf[Now.buf], Now)
  /\ Anchored(buf[Now.buf], Now)
  /\ Proceed([buf EXCEPT ![Now.buf] = Patched(@, Now)])
  /\ UNCHANGED disk

SkipEdit ==
  /\ todo > 0
  /\ Now.op \in Edits
  /\ Already(buf[Now.buf], Now)
  /\ Proceed(buf)
  /\ UNCHANGED disk

Fail_Warns ==
  /\ todo > 0
  /\ Now.op \in Edits
  /\ ~Already(buf[Now.buf], Now)
  /\ ~Anchored(buf[Now.buf], Now)
  /\ Proceed(buf)
  /\ UNCHANGED disk
\* fail(): the process ends and what it holds in memory is lost.
Fail ==
  /\ todo > 0
  /\ Now.op \in Edits
  /\ ~Already(buf[Now.buf], Now)
  /\ ~Anchored(buf[Now.buf], Now)
  /\ Stop("failed")
  /\ UNCHANGED <<disk, torn>>

\* The Makefile is written only if its edit changed it.
Writes == \/ Now.op = "write"
          \/ Now.op = "write_changed" /\ buf[Now.buf] # disk[Now.file]
WriteFile ==
  /\ todo > 0
  /\ Writes
  /\ disk' = [disk EXCEPT ![Now.file] = buf[Now.buf]]
  /\ Proceed(buf)

KeepFile ==
  /\ todo > 0
  /\ Now.op = "write_changed"
  /\ ~Writes
  /\ Proceed(buf)
  /\ UNCHANGED disk

Kill ==
  /\ todo > 0
  /\ Stop("killed")
  /\ UNCHANGED <<disk, torn>>

\* open(p, "w") truncates: a kill before the text is flushed leaves a part of it.
\* A part that ends within a line is not told from one that ends before or behind
\* that line: it is the last one, and a run that gets past it has it at the rear.
KillInWrite ==
  /\ todo > 0
  /\ Writes
  /\ Cardinality(torn) < MaxTorn
  /\ \E n \in 0..Len(buf[Now.buf]) - 1 :
        disk' = [disk EXCEPT ![Now.file] = SubSeq(buf[Now.buf], 1, n)]
  /\ torn' = torn \union {Now.file}
  /\ Stop("killed")

ScriptNext ==
  \/ Start \/ ReadFile \/ EditText \/ SkipEdit \/ Fail
  \/ WriteFile \/ KeepFile \/ Kill \/ KillInWrite

ScriptSpec == ScriptInit /\ [][ScriptNext]_scriptVars

----------------------------------------------------------------------------
\* Type invariant of the process and of what it leaves on the disk.
ScriptTypes ==
  /\ DOMAIN tree = Files /\ DOMAIN disk = Files
  /\ DOMAIN buf = Buffers
  /\ todo \in 0..Len(Script)
  /\ ended \in {"never", "running", "done", "failed", "killed"}
  /\ runs \in 0..MaxRuns
  /\ torn \subseteq Files

Made(i) ==
  \A k \in DOMAIN Script[i].put :
    \E j \in DOMAIN disk[FileOf(Script[i].buf)] : disk[FileOf(Script[i].buf)][j] = Script[i].put[k]

\* A process that reports "done" has left every edit in its file, whatever the runs
\* before it did and wherever they were stopped: all of them where no write was cut
\* short, and where one was, all but those at the rear of that file.
DoneMeansApplied ==
  ended = "done" =>
    \A i \in EditsOf :
      LET f == FileOf(Script[i].buf) IN f \notin torn \/ i \notin AtRear(f) => Made(i)

\* The same of every edit, which "already applied, skipping" takes for granted.
DoneMeansMade == ended = "done" => \A i \in EditsOf : Made(i)

\* The edit whose marker no line ever carries.
Unmarked(i) == Script[i].step = "30"

At(f, p) == Find(disk[f], p)
InOrder(f, ps) == \A i, j \in DOMAIN ps : i < j => At(f, ps[i]) < At(f, ps[j])

\* After a run that reports "done" on files that no kill has cut short, the poll
\* ticks, the mount arms and the read arms stand in the order the steps' comments
\* ask for: the launch watchdog before every other tick, the save states after
\* the remote that may unmount, a cue sheet and a Video CD before the plain file,
\* the deferral before the read, the drive's arms before the file's.
Placement ==
  ended = "done" /\ torn = {} =>
    /\ InOrder("user_io.cpp", <<"dvd_launch_tick", "dvd_css_tick", "dvd_phys_tick",
          "dvd_hdmi_audio_tick", "dvd_report_tick", "dvd_ctl_tick", "dvd_remote_tick",
          "dvd_sstate_tick">>)
    /\ InOrder("user_io.cpp", <<"DVD_PHYS_SENTINEL", "DVD_PHYS_VCD_SENTINEL", "dvd:cue",
          "else if x2trd">>)
    /\ InOrder("user_io.cpp", <<"dvdra:defer", "else if (op & 1)", "dvdcss:readA", "dvdvcd:readA",
          "else if size", "dvdcss:readB", "dvdvcd:readB", "else if FileSeek">>)
    /\ InOrder("video.cpp", <<"non-PCM flag", "hdmi_cfg_generation++", "for init_data">>)
    /\ InOrder("fpga_io.cpp", <<"dvd_sstate_autosave_flush", "restart teardown", "the HPS resets">>)
    /\ InOrder("cfg.h", <<"dvd_hdmi_bitstream", "dvd_ir_remap">>)

\* What one run on the tree leaves when nothing stops it.
Do(s, o) ==
  CASE o.op = "read" -> [s EXCEPT !.buf[o.buf] = s.disk[o.file]]
    [] o.op \in {"write", "write_changed"} -> [s EXCEPT !.disk[o.file] = s.buf[o.buf]]
    [] OTHER -> [s EXCEPT !.buf[o.buf] = Patched(@, o)]
Golden == FoldLeft(Do, [disk |-> Stock, buf |-> Empty], Script).disk

Deduplicated(text) ==
  SelectSeq(text, LAMBDA l : \A i \in EditsOf : Unmarked(i) => l # Script[i].put[1])

\* Runs that were stopped anywhere, failed or repeated converge: "done" leaves
\* the tree one undisturbed run leaves (the lines of step 30 apart), as long as
\* no kill has cut a file short.
SameTree ==
  ended = "done" /\ torn = {} =>
    \A f \in Files : Deduplicated(disk[f]) = Deduplicated(Golden[f])

\* The header's claim, of every step: a run on a tree that is already patched
\* changes nothing.
Idempotent == ended = "done" /\ torn = {} => disk = Golden
=============================================================================
