----------------------------- MODULE MCVideoMode ------------------------------
(* The sheet video_mode.csv: all columns the VHDL uses and, of the others,  *)
(* the picture aspect, the pixel clock (in kHz) and the two front porches   *)
(* (v_fp in half lines).                                                    *)
EXTENDS VideoMode

B == [kind |-> "boolean"]
N == [kind |-> "integer"]
MCTypes == <<[kind |-> "string", len |-> 16], <<>>, <<>>, B, N, [kind |-> "video_clk_sel_t"],
             [kind |-> "integer range"], [kind |-> "aspect_t"], B,
             N, N, <<>>, N, N, N, N, <<>>, N, N, [kind |-> "bit"], [kind |-> "bit"]>>
MCNames == <<"name", "picture aspect", "pixel clock (kHz)", "dmt", "id", "clk_sel", "pix_rep", "aspect", "interlace",
             "v_tot", "v_act", "half v_fp", "v_sync", "v_bp",
             "h_tot", "h_act", "h_fp", "h_sync", "h_bp", "vs_pol", "hs_pol">>
MCSheet == <<
  <<"640x480p60", "4:3", 25200, FALSE, 1, "CLK_SEL_25M2", 0, "ASPECT_4_3", FALSE, 525, 480, 20, 2, 33, 800, 640, 16, 96, 48, "-", "-">>,
  <<"720x480p60", "4:3", 27000, FALSE, 2, "CLK_SEL_27M0", 0, "ASPECT_4_3", FALSE, 525, 480, 18, 6, 30, 858, 720, 16, 62, 60, "-", "-">>,
  <<"720x480p60w", "16:9", 27000, FALSE, 3, "CLK_SEL_27M0", 0, "ASPECT_16_9", FALSE, 525, 480, 18, 6, 30, 858, 720, 16, 62, 60, "-", "-">>,
  <<"1280x720p60", "16:9", 74250, FALSE, 4, "CLK_SEL_74M25", 0, "ASPECT_16_9", FALSE, 750, 720, 10, 5, 20, 1650, 1280, 110, 40, 220, "+", "+">>,
  <<"1920x1080i60", "16:9", 74250, FALSE, 5, "CLK_SEL_74M25", 0, "ASPECT_16_9", TRUE, 1125, 1080, 5, 5, 15, 2200, 1920, 88, 44, 148, "+", "+">>,
  <<"720x480i60", "4:3", 27000, FALSE, 6, "CLK_SEL_27M0", 1, "ASPECT_4_3", TRUE, 525, 480, 9, 3, 15, 1716, 1440, 38, 124, 114, "-", "-">>,
  <<"720x480i60w", "16:9", 27000, FALSE, 7, "CLK_SEL_27M0", 1, "ASPECT_16_9", TRUE, 525, 480, 9, 3, 15, 1716, 1440, 38, 124, 114, "-", "-">>,
  <<"1920x1080p60", "16:9", 148500, FALSE, 16, "CLK_SEL_148M5", 0, "ASPECT_16_9", FALSE, 1125, 1080, 8, 5, 36, 2200, 1920, 88, 44, 148, "+", "+">>,
  <<"720x576p50", "4:3", 27000, FALSE, 17, "CLK_SEL_27M0", 0, "ASPECT_4_3", FALSE, 625, 576, 10, 5, 39, 864, 720, 12, 64, 68, "-", "-">>,
  <<"720x576p50w", "16:9", 27000, FALSE, 18, "CLK_SEL_27M0", 0, "ASPECT_16_9", FALSE, 625, 576, 10, 5, 39, 864, 720, 12, 64, 68, "-", "-">>,
  <<"1280x720p50", "16:9", 74250, FALSE, 19, "CLK_SEL_74M25", 0, "ASPECT_16_9", FALSE, 750, 720, 10, 5, 20, 1980, 1280, 440, 40, 220, "+", "+">>,
  <<"1920x1080i50", "16:9", 74250, FALSE, 20, "CLK_SEL_74M25", 0, "ASPECT_16_9", TRUE, 1125, 1080, 5, 5, 15, 2640, 1920, 528, 44, 148, "+", "+">>,
  <<"720x576i50", "4:3", 27000, FALSE, 21, "CLK_SEL_27M0", 1, "ASPECT_4_3", TRUE, 625, 576, 5, 3, 19, 1728, 1440, 24, 126, 138, "-", "-">>,
  <<"720x576i50w", "16:9", 27000, FALSE, 22, "CLK_SEL_27M0", 1, "ASPECT_16_9", TRUE, 625, 576, 5, 3, 19, 1728, 1440, 24, 126, 138, "-", "-">>,
  <<"1920x1080p50", "16:9", 148500, FALSE, 31, "CLK_SEL_148M5", 0, "ASPECT_16_9", FALSE, 1125, 1080, 8, 5, 36, 2640, 1920, 528, 44, 148, "+", "+">>>>
=============================================================================
