------------------------------ MODULE Handlers ------------------------------
(***************************************************************************)
(* The handlers of the bot that call a provider, as programs.              *)
(*                                                                         *)
(* A program is the sequence of the steps of one way through the handler.  *)
(* A step has an operation, an argument and, for every way in which it can *)
(* go wrong, the program that goes on instead.  Generation runs them.      *)
(* Wording, statistics and everything that only reads are left out.        *)
(***************************************************************************)
EXTENDS Sequences

Step(op, arg, fails) == [op |-> op, arg |-> arg, fails |-> fails]

\* An exception that the handler does not catch.
Raised == <<Step("raise", "none", [none |-> <<>>])>>

\* A message to the user outside of a try: Telegram may refuse it.
Tell(fails) == Step("tell", "none", [exc |-> fails])
Told == <<Tell(Raised)>>

\* "refund": refund_spend_credits.  "guard": the same, if the user was charged.
\* "credit": refund_credits, if the user was charged.  "price": refund_credits.
GiveBack(how, fails) == Step("giveback", how, [exc |-> fails])

Refunded == <<GiveBack("refund", Raised)>> \o Told
Guarded == <<GiveBack("guard", Raised)>> \o Told
Credited == <<GiveBack("credit", Raised)>> \o Told
Priced == <<GiveBack("price", Raised)>> \o Told
\* The user is told before the credits are given back.
LateRefund == Told \o <<GiveBack("guard", Raised)>>

Lock == Step("lock", "none", [busy |-> Told])
Check == Step("check", "none", [early |-> Told])
\* What an earlier message left under a key is read, then the key is deleted.
Take == <<Step("take", "none", [gone |-> Told]), Step("drop", "none", [exc |-> Raised])>>
Spend(bucket) == Step("spend", bucket, [refused |-> Told, exc |-> Raised])
Await == Step("await", "none", [exc |-> Raised])
Fetch(fails) == Step("fetch", "none", fails)
Call(fails) == Step("call", "none", fails)
Reply(fails) == Step("reply", "none", [exc |-> fails])

\* The answer is sent again in another form, as a link or without the picture.
Resent == <<Reply(Raised)>>

-----------------------------------------------------------------------------
(* text.py                                                                 *)

cb_retry_last == {<<Check, Spend("text"), Await,
                    Call([error |-> Refunded, exc |-> Raised]), Await, Reply(Raised)>>}

cb_continue == {<<Check, Spend("text"), Await,
                  Call([error |-> Refunded, exc |-> Raised]), Reply(Raised)>>}

\* The last answer is read aloud for nothing.
cb_tts_last == {<<Check, Await, Check, Call([error |-> <<Tell(Told)>>, exc |-> Told]),
                  Reply(Told)>>}

run_photo_describe == {<<Spend("text"), Await, Fetch([exc |-> Refunded]),
                         Call([error |-> Refunded, exc |-> Raised]), Reply(Raised)>>}

\* With a caption that asks for a change the picture is edited, else described.
handle_photo ==
    {<<Check, Spend("none"), Await, Fetch([exc |-> Credited]),
       Call([timeout |-> Credited, error |-> Credited, exc |-> Raised]), Reply(Told)>>,
     <<Spend("text"), Await, Fetch([exc |-> Refunded]),
       Call([error |-> Refunded, exc |-> Raised]), Await, Reply(Raised)>>}

\* The same for a clip: the edit is a video generation.
handle_video ==
    {<<Check, Spend("video"), Await, Fetch([exc |-> Credited]),
       Call([timeout |-> Credited, error |-> Credited, exc |-> Raised]), Reply(Resent)>>,
     <<Spend("text"), Await, Fetch([exc |-> Refunded]),
       Call([error |-> Refunded, exc |-> Raised]), Await, Reply(Raised)>>}

\* The error is shown inside the try whose except refunds: when Telegram
\* refuses the message, the refund is made a second time.
StreamFailed == <<GiveBack("refund", Refunded), Tell(Refunded)>>

text_stream == <<Spend("text"), Await, Call([error |-> StreamFailed, exc |-> Refunded]),
                 Reply(Resent)>>

text_plain == <<Spend("text"), Await, Call([error |-> Refunded, exc |-> Raised]),
                Reply(Raised)>>

-----------------------------------------------------------------------------
(* image.py                                                                *)

run_image_gen_for_user ==
    {<<Check, Lock, Spend("none"), Await,
       Call([timeout |-> Guarded, error |-> Guarded, exc |-> Raised]), Reply(Told)>>}

cb_regen_img ==
    {<<Check, Lock, Spend("none"), Await,
       Call([timeout |-> Guarded, error |-> Guarded, exc |-> Raised]), Reply(Told)>>}

\* The waiting message is deleted after the picture has been sent.
cb_upscale == {<<Check, Spend("upscale"), Await,
                 Call([error |-> Refunded, exc |-> Raised]), Reply(Raised), Await>>}

cb_rmbg_under == {<<Check, Spend("none"), Await,
                    Call([error |-> Refunded, exc |-> Raised]), Reply(Raised), Await>>}

cmd_img == {<<Check>> \o p : p \in run_image_gen_for_user}

cmd_img4 == {<<Check, Lock, Spend("none"), Await,
               Call([error |-> Refunded, exc |-> Raised]), Reply(Raised)>>}

-----------------------------------------------------------------------------
(* video.py, without the queue: that path is in VideoQueue                 *)

generate_video_text ==
    {<<Spend("video"), Await,
       Call([timeout |-> Guarded, error |-> Guarded, exc |-> Guarded]), Reply(last)>> :
         last \in {Resent, Told}}

\* An expensive video is offered first and made by cb_vidgo.
process_video_text_request == {<<Check, Check>> \o p : p \in generate_video_text}
cb_vidgo == {<<Check>> \o p : p \in generate_video_text}
cb_regen_vid == {<<Check>> \o p : p \in generate_video_text}

handle_photo_video ==
    {<<Check, Spend("video"), Await,
       Call([timeout |-> Guarded, error |-> Guarded, exc |-> Raised]), Reply(last)>> :
         last \in {Resent, Told}}

\* The text of a message: under the lock, to a video or to the chat.
handle_text ==
    {<<Lock, Check>> \o p : p \in {text_stream, text_plain} \cup process_video_text_request}

-----------------------------------------------------------------------------
(* music.py and voice.py                                                   *)

run_music_gen_for_user ==
    {<<Check, Spend("music"), Await,
       Call([timeout |-> Guarded, error |-> Guarded, exc |-> Raised]), Reply(Resent)>>}

cb_regen_mus ==
    {<<Check, Spend("music"), Await,
       Call([timeout |-> Guarded, error |-> Guarded, exc |-> Raised]), Reply(Resent)>>}

cmd_music == {<<Check>> \o p : p \in run_music_gen_for_user}

cmd_voice == {<<Check, Spend("none"), Await, Call([error |-> Guarded, exc |-> Guarded]),
                Await, Reply(Raised)>>}

\* Speech is recognised, then answered: two purchases.  Without credits for the
\* second the recognised text is shown.
Answered ==
    <<Step("spend", "text", [refused |-> Resent, exc |-> Raised]), Await,
      Call([error |-> <<GiveBack("guard", Raised)>> \o Resent, exc |-> Raised]),
      Await, Reply(Raised)>>

handle_voice == {<<Check, Spend("none"), Await,
                   Call([error |-> Guarded, exc |-> Guarded])>> \o Answered}
handle_video_note == {<<Check, Spend("none"), Await,
                        Call([error |-> Guarded, exc |-> Guarded])>> \o Answered}

\* What was said becomes the prompt of a picture, a video or a song.
cb_voice_use ==
    {<<Check>> \o p : p \in run_image_gen_for_user \cup process_video_text_request
                              \cup run_music_gen_for_user}

-----------------------------------------------------------------------------
(* photo_tools.py                                                          *)

do_rmbg_from_file_id ==
    {<<Spend("none"), Await,
       Call([timeout |-> Guarded, exc |-> Guarded, error |-> LateRefund]), Await,
       Reply(Raised)>>}

do_rmbg ==
    {<<Spend("none"), Await,
       Call([timeout |-> Guarded, exc |-> Guarded, error |-> LateRefund]), Reply(Raised)>>}

cmd_style ==
    {<<Check, Spend("none"), Await,
       Call([timeout |-> Refunded, error |-> Refunded, exc |-> Raised]), Reply(Raised)>>}

cmd_style_reply ==
    {<<Spend("none"), Await,
       Call([timeout |-> Refunded, error |-> Refunded, exc |-> Raised]), Reply(Raised)>>}

cmd_ocr_reply ==
    {<<Spend("none"), Await, Call([timeout |-> Guarded, exc |-> Guarded]), Reply(Raised)>>}

\* The picture sent before waits under a key that the first tap takes away.
cb_photo_action ==
    {Take \o p : p \in do_rmbg_from_file_id \cup run_photo_describe}

-----------------------------------------------------------------------------
(* docgen.py, doc_handler.py, tools.py, audiogen.py, saved_export.py       *)

generate_document ==
    {<<Check, Spend("none"), Await, Call([error |-> Refunded, exc |-> Raised]), Await,
       Reply(Raised)>>}

cmd_gendoc == {<<Check>> \o p : p \in generate_document}

cmd_doc_create ==
    {<<Check, Spend("none"), Call([error |-> Priced, exc |-> Raised]), Reply(Raised)>>}

cmd_doc_upload ==
    {<<Check, Spend("none"), Await, Fetch([exc |-> Priced, error |-> Priced]),
       Call([error |-> Priced, exc |-> Raised]), Reply(Raised)>>}

cmd_search ==
    {<<Check, Spend("none"), Await, Fetch([error |-> Refunded, exc |-> Raised]),
       Call([error |-> Refunded, exc |-> Raised]), Reply(Raised)>>}

cmd_summary ==
    {<<Check, Spend("none"), Await, Fetch([error |-> Refunded, exc |-> Refunded]),
       Call([error |-> Refunded, exc |-> Raised]), Reply(Raised)>>}

cmd_code ==
    {<<Check, Spend("none"), Await, Call([error |-> Refunded, exc |-> Raised]),
       Reply(Raised)>>}

\* A voice that is no longer on offer is noticed after the charge.
generate_tts ==
    {<<Check, Spend("none"), Await, Check,
       Call([timeout |-> Refunded, error |-> Refunded, exc |-> Refunded]), Await,
       Reply(Raised)>>}

\* A song asked for in the audio menu needs a function that music.py has not.
handle_audio_text == {<<Check>> \o p : p \in generate_tts \cup {Raised}}

\* The same inside a try that answers "text not found", whatever went wrong.
cb_audio_tts_pending ==
    LET refunded == <<GiveBack("refund", Told), Tell(Told)>>
        early == Step("check", "none", [early |-> <<Tell(Told)>>, exc |-> Told])
    IN  {<<Head(Take), Step("drop", "none", [exc |-> Told]),
           Step("spend", "none", [refused |-> <<Tell(Told)>>, exc |-> Told]), early,
           Call([timeout |-> refunded, error |-> refunded, exc |-> refunded]), Reply(Told)>>}

\* A saved prompt is run again; a failure is told and nothing is given back.
cb_run_saved ==
    {<<Check, Spend("text"), Await, Call([error |-> Told, exc |-> Raised]), Await,
       Reply(Raised)>>}

-----------------------------------------------------------------------------
(* transcribe.py                                                           *)

\* A recording seen before is answered from the cache; one that is too long is
\* noticed after the charge.  A summary that fails is told inside the answer.
do_transcribe ==
    {<<Check, Spend("none"), Await, Fetch([exc |-> Refunded, error |-> Refunded]),
       Call([error |-> Refunded, exc |-> Raised]), Await, Reply(Raised)>>}

\* What was recognised before is summarised, or translated.
cb_tr_extra ==
    {<<Check, Spend("text"), Await, Call([error |-> Refunded, exc |-> Raised]),
       Reply(Raised)>>}

cb_tr_do_translate ==
    {<<Check, Spend("text"), Await, Call([error |-> Refunded, exc |-> Raised]),
       Reply(Raised)>>}

-----------------------------------------------------------------------------

HandlerPrograms ==
    [cb_retry_last |-> cb_retry_last, cb_continue |-> cb_continue,
     cb_tts_last |-> cb_tts_last,
     handle_photo |-> handle_photo, handle_video |-> handle_video,
     handle_text |-> handle_text, cb_regen_img |-> cb_regen_img,
     cb_upscale |-> cb_upscale, cb_rmbg_under |-> cb_rmbg_under,
     cmd_img |-> cmd_img, cmd_img4 |-> cmd_img4,
     cb_vidgo |-> cb_vidgo, cb_regen_vid |-> cb_regen_vid,
     handle_photo_video |-> handle_photo_video,
     cmd_music |-> cmd_music, cb_regen_mus |-> cb_regen_mus,
     cmd_voice |-> cmd_voice, handle_voice |-> handle_voice,
     handle_video_note |-> handle_video_note, cb_voice_use |-> cb_voice_use,
     do_rmbg |-> do_rmbg, cmd_style |-> cmd_style, cmd_style_reply |-> cmd_style_reply,
     cmd_ocr_reply |-> cmd_ocr_reply, cb_photo_action |-> cb_photo_action,
     cmd_gendoc |-> cmd_gendoc, cmd_doc_create |-> cmd_doc_create,
     cmd_doc_upload |-> cmd_doc_upload, cmd_search |-> cmd_search,
     cmd_summary |-> cmd_summary, cmd_code |-> cmd_code, handle_audio_text |-> handle_audio_text,
     cb_audio_tts_pending |-> cb_audio_tts_pending, cb_run_saved |-> cb_run_saved,
     do_transcribe |-> do_transcribe, cb_tr_extra |-> cb_tr_extra,
     cb_tr_do_translate |-> cb_tr_do_translate]

=============================================================================
