--------------------- MODULE DefaultStateMachineOptions ---------------------
(***************************************************************************)
(* The options that repowerd ships, in seconds: one tick of the machine's  *)
(* timers is one second.  Of determine_device_name nothing is left: its    *)
(* result is logged, and treat_power_button_as_user_activity ignores it.   *)
(***************************************************************************)
EXTENDS Integers

notification_expiration_timeout == 60

power_button_long_press_timeout == 2

user_inactivity_normal_display_dim_duration == 10

\* The source's 60 s are commented out.
user_inactivity_normal_display_off_timeout == -1

\* milliseconds::max(), beyond TLC's integers: any value that no finite
\* timeout and no delay reaches stands for it.
infinite_timeout == 2000000000

user_inactivity_normal_suspend_timeout == infinite_timeout

user_inactivity_post_notification_display_off_timeout == 5

user_inactivity_reduced_display_off_timeout == 10

treat_power_button_as_user_activity == FALSE

turn_on_display_at_startup == TRUE

\* 2^32 milliseconds, the range of a guint, in seconds.
guint_range == 4294967

=============================================================================
